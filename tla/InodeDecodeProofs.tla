-------------------------- MODULE InodeDecodeProofs --------------------------
(***************************************************************************)
(* What readInode returns, for every inode, chunk size and word size: the    *)
(* block list of a file (invariant IInv), and every field of every inode type *)
(* from its place in the layout, with no sound inode refused (invariant DInv). *)
(***************************************************************************)
EXTENDS InodeDecode, DataLemmas, SequenceTheorems, TLAPS

-----------------------------------------------------------------------------
(* Where the fields of a body are.                                          *)

Bodies == {basicFileBody, basicSymlinkBody, basicDirBody, extFileBody, extDirBody}

\* Every field has a width.
LEMMA Widths ==
  ASSUME NEW b \in Bodies
  PROVE  /\ \E m \in 1..7 : DOMAIN b = 1..m
         /\ \A j \in DOMAIN b : b[j][2] \in Nat \ {0}
BY DEF Bodies, basicFileBody, basicSymlinkBody, basicDirBody, extFileBody, extDirBody

\* The first field is at 0, and each of the others behind the one before it.
LEMMA PlaceNext ==
  ASSUME NEW b \in Bodies
  PROVE  /\ Place(b, 1) = 0
         /\ \A i \in DOMAIN b : /\ Place(b, i) \in Int
                                /\ Place(b, i + 1) = Place(b, i) + b[i][2]
<1> DEFINE f == [j \in DOMAIN b |-> b[j][2]]
<1>1. PICK m \in 1..7 : DOMAIN b = 1..m
  BY Widths
<1>2. \A j \in 1..m : f[j] \in Nat \ {0}
  BY <1>1, Widths
<1>3. Place(b, 1) = 0
  <2>1. 1..(1 - 1) = {}
    BY SMT
  <2> QED
    BY <2>1, SumEmpty DEF Place
<1>4. ASSUME NEW i \in DOMAIN b
      PROVE  Place(b, i) \in Int /\ Place(b, i + 1) = Place(b, i) + b[i][2]
  <2> DEFINE c == i - 1
  <2>1. c \in Int /\ 1 <= c + 1 /\ c + 1 = i /\ i + 1 - 1 = c + 1 /\ i \in 1..m
    BY <1>1
  <2> HIDE DEF c, f
  <2>2. \A y \in 1..(c + 1) : f[y] \in Int
    BY <1>1, <1>2, <2>1
  <2>3. /\ SumFunctionOnSet(f, 1..(c + 1)) = SumFunctionOnSet(f, 1..c) + f[c + 1]
        /\ SumFunctionOnSet(f, 1..c) \in Int
    BY <2>1, <2>2, SumNext
  <2>4. Place(b, i) = SumFunctionOnSet(f, 1..c) /\ Place(b, i + 1) = SumFunctionOnSet(f, 1..(c + 1))
    BY <2>1 DEF Place, f, c
  <2>5. f[c + 1] = b[i][2]
    BY <2>1 DEF f
  <2> QED
    BY <2>3, <2>4, <2>5
<1> QED
  BY <1>3, <1>4

\* No two fields are at the same place.
LEMMA PlaceOnce ==
  ASSUME NEW b \in Bodies, NEW i \in DOMAIN b, NEW j \in DOMAIN b, Place(b, i) = Place(b, j)
  PROVE  i = j
<1>1. PICK m \in 1..7 : DOMAIN b = 1..m
  BY Widths
<1>2. ASSUME NEW x \in 1..m, NEW y \in 1..m, x < y PROVE Place(b, x) < Place(b, y)
  <2> DEFINE f == [q \in DOMAIN b |-> b[q][2]]
             S == 1..(y - 1)
             T == 1..(x + 1 - 1)
  <2>1. IsFiniteSet(S) /\ T \in SUBSET S
    <3>1. y - 1 \in Int /\ 1 \in Int
      BY <1>2
    <3>2. IsFiniteSet(S)
      BY <3>1, FS_Interval
    <3> QED
      BY <1>2, <3>2
  <2>2. \A q \in S : f[q] \in Nat
    BY <1>1, <1>2, Widths
  <2> HIDE DEF f, S, T
  <2>3. SumFunctionOnSet(f, T) <= SumFunctionOnSet(f, S)
    BY <2>1, <2>2, SumMono
  <2>4. Place(b, x + 1) <= Place(b, y)
    BY <2>3 DEF Place, f, S, T
  <2>5. /\ Place(b, x) \in Int /\ Place(b, y) \in Int
        /\ Place(b, x + 1) = Place(b, x) + b[x][2] /\ b[x][2] \in Nat \ {0}
    BY <1>1, PlaceNext, Widths
  <2> QED
    BY <2>4, <2>5
<1>3. Place(b, i) \in Int
  BY PlaceNext
<1>4. i < j \/ j < i \/ i = j
  BY <1>1
<1>5. ~(i < j) /\ ~(j < i)
  BY <1>1, <1>2, <1>3
<1> QED
  BY <1>4, <1>5

\* A read at the place of a field, with its width, finds that field.
LEMMA FieldFound ==
  ASSUME NEW d, Body(d) \in Bodies, NEW i \in DOMAIN Body(d), NEW o, NEW w,
         Place(Body(d), i) = o, Body(d)[i][2] = w
  PROVE  FieldAt(d, o, w) = d.field[Body(d)[i][1]]
<1> DEFINE b == Body(d)
           Here(x) == Place(b, x) = o /\ b[x][2] = w
           c == CHOOSE x \in DOMAIN b : Here(x)
<1>1. c \in DOMAIN b /\ Here(c)
  <2>1. \E x \in DOMAIN b : Here(x)
    OBVIOUS
  <2> HIDE DEF Here
  <2> QED
    BY <2>1
<1>2. c = i
  <2> HIDE DEF c, b
  <2> QED
    BY <1>1, PlaceOnce DEF b
<1> QED
  BY <1>2 DEF FieldAt

\* A field follows the one before it.
LEMMA PlaceBefore ==
  ASSUME NEW b \in Bodies
  PROVE  \A i \in 2..7 : i - 1 \in DOMAIN b => Place(b, i) = Place(b, i - 1) + b[i - 1][2]
<1> SUFFICES ASSUME NEW i \in 2..7, i - 1 \in DOMAIN b
             PROVE  Place(b, i) = Place(b, i - 1) + b[i - 1][2]
  OBVIOUS
<1>1. Place(b, (i - 1) + 1) = Place(b, i - 1) + b[i - 1][2]
  BY PlaceNext
<1>2. (i - 1) + 1 = i
  OBVIOUS
<1> QED
  BY <1>1, <1>2

\* Each read of readInode finds the field it is named for.
LEMMA BasicFileFields ==
  ASSUME NEW d, d.type = "basicFile"
  PROVE  /\ FieldAt(d, 0, 4) = d.field.start /\ FieldAt(d, 4, 4) = d.field.fragIdx
         /\ FieldAt(d, 8, 4) = d.field.offset /\ FieldAt(d, 12, 4) = d.field.size
<1> DEFINE b == basicFileBody
<1>1. Body(d) = b /\ b \in Bodies /\ DOMAIN b = 1..4
  BY DEF Body, Bodies, Symlinks, basicFileBody
<1>2. /\ b[1] = <<"start", 4>> /\ b[2] = <<"fragIdx", 4>> /\ b[3] = <<"offset", 4>>
      /\ b[4] = <<"size", 4>>
  BY DEF basicFileBody
<1> HIDE DEF b
<1>3. /\ Place(b, 1) = 0 /\ Place(b, 2) = 4 /\ Place(b, 3) = 8 /\ Place(b, 4) = 12
  BY <1>1, <1>2, PlaceNext, PlaceBefore
<1> QED
  BY <1>1, <1>2, <1>3, FieldFound

\* The offset parseInode reads the size of a symlink at.
LEMMA BasicSymlinkFields ==
  ASSUME NEW d, d.type \in Symlinks
  PROVE  FieldAt(d, 4, 4) = d.field.size
<1> DEFINE b == basicSymlinkBody
<1>1. Body(d) = b /\ b \in Bodies /\ DOMAIN b = 1..2
  BY DEF Body, Bodies, Symlinks, basicSymlinkBody
<1>2. /\ b[1] = <<"nlink", 4>> /\ b[2] = <<"size", 4>>
  BY DEF basicSymlinkBody
<1> HIDE DEF b
<1>3. /\ Place(b, 1) = 0 /\ Place(b, 2) = 4
  BY <1>1, <1>2, PlaceNext, PlaceBefore
<1> QED
  BY <1>1, <1>2, <1>3, FieldFound

\* The offsets parseInode reads the fields of a basic directory at.
LEMMA BasicDirFields ==
  ASSUME NEW d, d.type = "basicDir"
  PROVE  /\ FieldAt(d, 0, 4) = d.field.start /\ FieldAt(d, 8, 2) = d.field.size
         /\ FieldAt(d, 10, 2) = d.field.offset
<1> DEFINE b == basicDirBody
<1>1. Body(d) = b /\ b \in Bodies /\ DOMAIN b = 1..5
  BY DEF Body, Bodies, Symlinks, basicDirBody
<1>2. /\ b[1] = <<"start", 4>> /\ b[2] = <<"nlink", 4>> /\ b[3] = <<"size", 2>>
      /\ b[4] = <<"offset", 2>> /\ b[5] = <<"parent", 4>>
  BY DEF basicDirBody
<1> HIDE DEF b
<1>3. /\ Place(b, 1) = 0 /\ Place(b, 2) = 4 /\ Place(b, 3) = 8 /\ Place(b, 4) = 10
  BY <1>1, <1>2, PlaceNext, PlaceBefore
<1> QED
  BY <1>1, <1>2, <1>3, FieldFound

\* The offsets parseInode reads the fields of an extended file at.
LEMMA ExtFileFields ==
  ASSUME NEW d, d.type = "extFile"
  PROVE  /\ FieldAt(d, 0, 8) = d.field.start /\ FieldAt(d, 8, 8) = d.field.size
         /\ FieldAt(d, 28, 4) = d.field.fragIdx /\ FieldAt(d, 32, 4) = d.field.offset
         /\ FieldAt(d, 36, 4) = d.field.xattr
<1> DEFINE b == extFileBody
<1>1. Body(d) = b /\ b \in Bodies /\ DOMAIN b = 1..7
  BY DEF Body, Bodies, Symlinks, extFileBody
<1>2. /\ b[1] = <<"start", 8>> /\ b[2] = <<"size", 8>> /\ b[3] = <<"sparse", 8>>
      /\ b[4] = <<"nlink", 4>> /\ b[5] = <<"fragIdx", 4>> /\ b[6] = <<"offset", 4>>
      /\ b[7] = <<"xattr", 4>>
  BY DEF extFileBody
<1> HIDE DEF b
<1>3. /\ Place(b, 1) = 0 /\ Place(b, 2) = 8 /\ Place(b, 3) = 16 /\ Place(b, 4) = 24
      /\ Place(b, 5) = 28 /\ Place(b, 6) = 32 /\ Place(b, 7) = 36
  BY <1>1, <1>2, PlaceNext, PlaceBefore
<1> QED
  BY <1>1, <1>2, <1>3, FieldFound

\* The offsets parseInode reads the fields of an extended directory at.
LEMMA ExtDirFields ==
  ASSUME NEW d, d.type = "extDir"
  PROVE  /\ FieldAt(d, 4, 4) = d.field.size /\ FieldAt(d, 8, 4) = d.field.start
         /\ FieldAt(d, 18, 2) = d.field.offset /\ FieldAt(d, 20, 4) = d.field.xattr
<1> DEFINE b == extDirBody
<1>1. Body(d) = b /\ b \in Bodies /\ DOMAIN b = 1..7
  BY DEF Body, Bodies, Symlinks, extDirBody
<1>2. /\ b[1] = <<"nlink", 4>> /\ b[2] = <<"size", 4>> /\ b[3] = <<"start", 4>>
      /\ b[4] = <<"parent", 4>> /\ b[5] = <<"count", 2>> /\ b[6] = <<"offset", 2>>
      /\ b[7] = <<"xattr", 4>>
  BY DEF extDirBody
<1> HIDE DEF b
<1>3. /\ Place(b, 1) = 0 /\ Place(b, 2) = 4 /\ Place(b, 3) = 8 /\ Place(b, 4) = 12
      /\ Place(b, 5) = 16 /\ Place(b, 6) = 18 /\ Place(b, 7) = 20
  BY <1>1, <1>2, PlaceNext, PlaceBefore
<1> QED
  BY <1>1, <1>2, <1>3, FieldFound

\* The size that the block count is taken from is the inode's, basic or extended.
LEMMA FileSizeField ==
  ASSUME NEW d, d.type \in Files
  PROVE  fileSize(d) = d.field.size
BY BasicFileFields, ExtFileFields DEF fileSize, Files

-----------------------------------------------------------------------------
Words == {Word(j) : j \in Nat}

\* The list so far is a prefix of the words on disk, no longer than the count the
\* loop works to, which is the one the decoded fields call for.
IInv ==
  /\ disk \in Disk
  /\ {"type", "size", "fragIdx", "blocks"} \subseteq DOMAIN in
  /\ in.blocks \in Seq(Words)
  /\ n \in 0..MaxBlocks
  /\ Len(in.blocks) <= n
  /\ Len(in.blocks) * WordSize <= Len(disk.rest)
  /\ \A j \in 1..Len(in.blocks) : in.blocks[j] = Word(j)
  /\ pc \in {"header", "body", "list", "done"}
  /\ pc # "done" => err = "pending"
  /\ pc = "body" => in.type = disk.type
  /\ pc = "list" => n = blockCount(in.size, in.fragIdx # NoFrag)
  /\ (err = "nil" /\ in.type \in Files) =>
        Len(in.blocks) = blockCount(in.size, in.fragIdx # NoFrag)

\* blockCount of a size read from disk is a natural number.
LEMMA BlockCountNat ==
  ASSUME NEW s \in Nat, NEW h \in BOOLEAN
  PROVE  blockCount(s, h) \in Nat
BY DecodeAssumption DEF blockCount

\* Before the first chunk nothing is decoded.
LEMMA InitInv == Init => IInv
<1> SUFFICES ASSUME Init PROVE IInv
  OBVIOUS
<1>1. in.blocks = <<>> /\ in.type = "none" /\ err = "pending" /\ pc = "header" /\ n = 0
  BY DEF Init
<1>2. {"type", "size", "fragIdx", "blocks"} \subseteq DOMAIN in
  BY DEF Init
<1>3. disk \in Disk /\ Len(disk.rest) \in Nat
  BY DiskAssumption, LenProperties DEF Init
<1>4. in.blocks \in Seq(Words) /\ Len(in.blocks) = 0
  BY <1>1, EmptySeq
<1> QED
  BY <1>1, <1>2, <1>3, <1>4, DecodeAssumption DEF IInv

\* A step that leaves the list, the count and what the count came from alone.
LEMMA ListKept ==
  ASSUME IInv, UNCHANGED <<disk, n>>,
         {"type", "size", "fragIdx", "blocks"} \subseteq DOMAIN in',
         in'.blocks = in.blocks,
         pc' \in {"body", "done"},
         pc' # "done" => err' = "pending",
         pc' = "body" => in'.type = disk.type,
         (err' = "nil" /\ in'.type \in Files) =>
            Len(in.blocks) = blockCount(in'.size, in'.fragIdx # NoFrag)
  PROVE  IInv'
BY DEF IInv, Words, Word

\* An error keeps the inode as it is.
LEMMA FailKeeps ==
  ASSUME IInv, NEW e, e \notin {"nil", "pending"}, fail(e)
  PROVE  IInv'
BY ListKept DEF fail, IInv

\* One chunk extends the list by the next words.
LEMMA ChunkKeeps ==
  ASSUME IInv, ReadChunk
  PROVE  IInv'
<1> DEFINE m  == Len(in.blocks)
           ch == [j \in 1..k |-> Word(m + j)]
<1>1. /\ m \in Nat /\ n \in Nat /\ k \in Nat \ {0} /\ m + k <= n
      /\ Len(disk.rest) \in Nat
  <2>1. in.blocks \in Seq(Words) /\ disk \in Disk /\ n \in Nat /\ m < n
    BY DecodeAssumption DEF IInv, ReadChunk, InList
  <2>2. m \in Nat
    BY <2>1, LenProperties
  <2>3. Len(disk.rest) \in Nat
    BY <2>1, DiskAssumption, LenProperties
  <2>4. k = IF n - m < Chunk THEN n - m ELSE Chunk
    BY DEF k
  <2> HIDE DEF m
  <2> QED
    BY <2>1, <2>2, <2>3, <2>4, DecodeAssumption
<1>2. ch \in Seq(Words) /\ Len(ch) = k /\ \A j \in 1..k : ch[j] = Word(m + j)
  BY <1>1 DEF Words
<1>3. in'.blocks = in.blocks \o ch
  BY DEF ReadChunk, IInv
<1>4. /\ in'.blocks \in Seq(Words)
      /\ Len(in'.blocks) = m + k
      /\ \A j \in 1..(m + k) : in'.blocks[j] = IF j <= m THEN in.blocks[j] ELSE ch[j - m]
  BY <1>1, <1>2, <1>3, ConcatProperties DEF IInv
<1>5. \A j \in 1..m : in.blocks[j] = Word(j)
  BY DEF IInv
<1>6. ASSUME NEW j \in 1..(m + k) PROVE in'.blocks[j] = Word(j)
  <2> HIDE DEF m, ch
  <2>1. CASE j <= m
    BY <1>1, <1>4, <1>5, <2>1
  <2>2. CASE j > m
    <3>1. j - m \in 1..k /\ m + (j - m) = j
      BY <1>1, <2>2
    <3> QED
      BY <1>1, <1>2, <1>4, <2>2, <3>1
  <2> QED
    BY <1>1, <2>1, <2>2
<1>7. (m + k) * WordSize <= Len(disk.rest)
  BY DEF ReadChunk, Delivered
<1>8. /\ UNCHANGED <<disk, n, pc, err>>
      /\ DOMAIN in' = DOMAIN in
      /\ in'.type = in.type /\ in'.size = in.size /\ in'.fragIdx = in.fragIdx
  BY DEF ReadChunk, IInv
<1>9. Words' = Words /\ \A j : Word(j)' = Word(j)
  BY <1>8 DEF Words, Word
<1> QED
  BY <1>1, <1>4, <1>6, <1>7, <1>8, <1>9 DEF IInv, ReadChunk, InList

\* The list starts out empty, with the count of the fields just read.
LEMMA FileBodyKeeps ==
  ASSUME IInv, ReadFileBody
  PROVE  IInv'
<1> DEFINE f == fileFields(in)
           c == blockCount(f.size, f.fragIdx # NoFrag)
<1>1. disk.type \in Files /\ fileSize(disk) \in Nat /\ Len(disk.rest) \in Nat
  BY DiskAssumption, LenProperties, FileSizeField DEF IInv, ReadFileBody, ReadingBody, Files, Special
<1>2. f.size = fileSize(disk) /\ DOMAIN f = DOMAIN in
  BY DEF fileFields, IInv
<1>3. c \in Nat
  BY <1>1, <1>2, BlockCountNat
<1>4. CASE c > MaxBlocks
  BY <1>4, FailKeeps DEF ReadFileBody
<1>5. CASE ~(c > MaxBlocks)
  <2>1. /\ pc' = "list" /\ in' = [f EXCEPT !.blocks = <<>>] /\ n' = c
        /\ UNCHANGED <<disk, err>>
    BY <1>5 DEF ReadFileBody, emptyList
  <2>2. /\ in'.blocks = <<>> /\ DOMAIN in' = DOMAIN in
        /\ in'.size = f.size /\ in'.fragIdx = f.fragIdx
    BY <1>2, <2>1 DEF IInv
  <2>3. in'.blocks \in Seq(Words') /\ Len(in'.blocks) = 0
    BY <2>2, EmptySeq
  <2>4. n' \in 0..MaxBlocks
    BY <1>3, <1>5, <2>1, DecodeAssumption
  <2>5. err' = "pending"
    BY <2>1 DEF IInv, ReadFileBody, ReadingBody
  <2> QED
    BY <1>1, <2>1, <2>2, <2>3, <2>4, <2>5, DecodeAssumption DEF IInv
<1> QED
  BY <1>4, <1>5

\* Every step of readInode keeps the invariant.
LEMMA NextInv == IInv /\ [Next]_vars => IInv'
<1> SUFFICES ASSUME IInv, [Next]_vars PROVE IInv'
  OBVIOUS
<1>1. CASE ReadHeader
  <2> DEFINE i == [in EXCEPT !.type = disk.type, !.mode = typeBits(disk.type)]
  <2>1. i.blocks = in.blocks /\ DOMAIN i = DOMAIN in /\ i.type = disk.type
    BY DEF IInv
  <2>2. CASE done(i) /\ disk.type \in Special
    <3>1. disk.type \notin Files
      BY <2>2 DEF Special, Files
    <3> QED
      BY <2>1, <2>2, <3>1, ListKept DEF done, IInv
  <2>3. CASE pc' = "body" /\ in' = i /\ UNCHANGED <<disk, n, err>>
    <3>1. err' = "pending" /\ in'.type = disk.type
      BY <1>1, <2>1, <2>3 DEF IInv, ReadHeader
    <3> QED
      BY <2>1, <2>3, <3>1, ListKept DEF IInv
  <2> QED
    BY <1>1, <2>2, <2>3, FailKeeps DEF ReadHeader
<1>2. CASE BodyEnds
  BY <1>2, FailKeeps DEF BodyEnds
<1>3. CASE ReadDirBody
  <2> DEFINE basic == [in EXCEPT !.start = u32(0), !.size = dirDataSize(u16(8)), !.offset = u16(10)]
             ext   == [in EXCEPT !.size = dirDataSize(u32(4)), !.start = u32(8),
                                 !.offset = u16(18), !.xattr = u32(20)]
  <2>1. in.type \notin Files
    BY <1>3 DEF ReadDirBody, ReadingBody, Dirs, Files
  <2>2. ASSUME NEW i, done(i), i.blocks = in.blocks, DOMAIN i = DOMAIN in, i.type = in.type
        PROVE  IInv'
    BY <2>1, <2>2, ListKept DEF done, IInv
  <2>3. /\ basic.blocks = in.blocks /\ DOMAIN basic = DOMAIN in /\ basic.type = in.type
        /\ ext.blocks = in.blocks /\ DOMAIN ext = DOMAIN in /\ ext.type = in.type
    BY DEF IInv
  <2>4. done(basic) \/ done(ext)
    BY <1>3 DEF ReadDirBody
  <2> HIDE DEF basic, ext
  <2> QED
    BY <2>2, <2>3, <2>4
<1>4. CASE ReadSymlinkBody
  <2>1. in.type \notin Files
    BY <1>4 DEF ReadSymlinkBody, ReadingBody, Symlinks, Files
  <2>2. ASSUME NEW i, done(i), i.blocks = in.blocks, DOMAIN i = DOMAIN in, i.type = in.type
        PROVE  IInv'
    BY <2>1, <2>2, ListKept DEF done, IInv
  <2> DEFINE len  == u32(4)
             link == [in EXCEPT !.size = len, !.target = SubSeq(disk.rest, 1, len)]
             ext  == [link EXCEPT !.xattr = SubSeq(disk.rest, len + 1, len + WordSize)]
  <2>3. /\ link.blocks = in.blocks /\ DOMAIN link = DOMAIN in /\ link.type = in.type
        /\ ext.blocks = in.blocks /\ DOMAIN ext = DOMAIN in /\ ext.type = in.type
    BY DEF IInv
  <2>4. fail("corrupt") \/ fail("short") \/ done(link) \/ done(ext)
    BY <1>4 DEF ReadSymlinkBody
  <2> HIDE DEF len, link, ext
  <2> QED
    BY <2>2, <2>3, <2>4, FailKeeps
<1>5. CASE ReadFileBody
  BY <1>5, FileBodyKeeps
<1>6. CASE ReadChunk
  BY <1>6, ChunkKeeps
<1>7. CASE ChunkEnds
  BY <1>7, FailKeeps DEF ChunkEnds
<1>8. CASE EndList
  <2>1. Len(in.blocks) = n
    BY <1>8, LenProperties DEF EndList, IInv
  <2> QED
    BY <1>8, <2>1, ListKept DEF EndList, done, IInv
<1>9. CASE ReadFails
  BY <1>9, FailKeeps DEF ReadFails
<1>10. CASE UNCHANGED vars
  BY <1>10 DEF vars, IInv, Words, Word
<1> QED
  BY <1>1, <1>2, <1>3, <1>4, <1>5, <1>6, <1>7, <1>8, <1>9, <1>10 DEF Next, Returned

\* The list of a decoded file is exactly the words on disk that its size calls
\* for, whatever the chunk size and wherever the list ends (readBlockList).
THEOREM ListIsExact == Spec => []ListExact
<1>1. IInv => ListExact
  <2> SUFFICES ASSUME IInv, err = "nil", in.type \in Files
               PROVE  in.blocks = [j \in 1..blockCount(in.size, in.fragIdx # NoFrag) |-> Word(j)]
    BY DEF ListExact
  <2>1. in.blocks \in Seq(Words) /\ Len(in.blocks) = blockCount(in.size, in.fragIdx # NoFrag)
    BY DEF IInv
  <2>2. \A j \in 1..Len(in.blocks) : in.blocks[j] = Word(j)
    BY DEF IInv
  <2>3. DOMAIN in.blocks = 1..Len(in.blocks) /\ in.blocks = [j \in DOMAIN in.blocks |-> in.blocks[j]]
    BY <2>1, LenProperties
  <2> QED
    BY <2>1, <2>2, <2>3
<1> QED
  BY <1>1, InitInv, NextInv, PTL DEF Spec

\* A list never holds more than the metadata delivered, whatever size the inode
\* claims (readBlockList).
THEOREM ListIsBacked == Spec => []ListBacked
<1>1. IInv => ListBacked
  BY LenProperties DEF IInv, ListBacked
<1> QED
  BY <1>1, InitInv, NextInv, PTL DEF Spec

-----------------------------------------------------------------------------
Known == Dirs \cup Files \cup Symlinks

\* The fields of a file on disk, as the decoder leaves them before the list is read.
FileDecoded(i) ==
  /\ i.size = disk.field.size /\ i.start = disk.field.start
  /\ i.fragIdx = disk.field.fragIdx /\ i.offset = disk.field.offset
  /\ i.xattr = IF disk.type = "extFile" THEN disk.field.xattr ELSE NoXattr

\* What was decoded so far is what is on disk, and a refusal has its reason there.
DInv ==
  /\ DOMAIN in = {"type", "mode", "size", "start", "offset", "fragIdx", "xattr", "target", "blocks"}
  /\ pc \in {"header", "body"} => in.xattr = NoXattr
  /\ pc = "body" => disk.type \in Known
  /\ pc = "list" => disk.type \in Files /\ in.type = disk.type /\ FileDecoded(in)
  /\ DecodesInode
  /\ SoundInodeDecodes

\* The classes of types.
LEMMA TypeClasses ==
  /\ \A t \in Files : t \notin Dirs /\ t \notin Symlinks /\ t \notin Special
  /\ \A t \in Dirs : t \notin Symlinks /\ t \notin Special
  /\ \A t \in Symlinks : t \notin Special
  /\ HasXattr = {"extDir", "extFile"}
BY DEF Files, Dirs, Symlinks, Special, HasXattr

\* Multiplication by a positive number keeps the order.
LEMMA TimesMono ==
  ASSUME NEW a \in Nat, NEW b \in Nat, NEW w \in Nat \ {0}
  PROVE  /\ a <= b => a * w <= b * w
         /\ a < b => a * w < b * w
         /\ a * w \in Nat
<1>1. a * w \in Nat /\ b * w \in Nat
  OBVIOUS
<1>2. ASSUME a <= b PROVE b * w = a * w + (b - a) * w /\ (b - a) * w \in Nat
  BY <1>2
<1>3. ASSUME a < b PROVE (b - a) * w > 0
  BY <1>3
<1> QED
  BY <1>1, <1>2, <1>3

\* What follows the body of a file inode is its block list, whole.
LEMMA FileNeeds ==
  ASSUME disk.type \in Files
  PROVE  Needs = blockCount(disk.field.size, disk.field.fragIdx # NoFrag) * WordSize
<1>1. disk.type # "basicSymlink" /\ disk.type # "extSymlink"
  BY DEF Files
<1> QED
  BY <1>1 DEF Needs

\* A refusal that has its reason.
LEMMA FailDecoded ==
  ASSUME IInv, DInv, NEW e, e \notin {"nil", "pending"}, fail(e),
         e \in {"short", "corrupt"} =>
           \/ disk.type \notin Known \cup Special
           \/ disk.cut # "none"
           \/ Needs > Len(disk.rest)
           \/ disk.type \in Symlinks /\ disk.field.size > MetaBlockMax
           \/ disk.type \in Files /\ Needs > MaxBlocks * WordSize
  PROVE  DInv'
<1>1. DecodesInode'
  BY DEF fail, DecodesInode
<1>2. SoundInodeDecodes'
  BY DEF fail, SoundInodeDecodes, Needs, Known
<1> QED
  BY <1>1, <1>2 DEF DInv, fail

\* An inode is returned.
LEMMA DoneDecoded ==
  ASSUME IInv, DInv, NEW i, done(i), DOMAIN i = DOMAIN in, DecodesInode'
  PROVE  DInv'
<1>2. SoundInodeDecodes'
  BY DEF done, SoundInodeDecodes
<1> QED
  BY <1>2 DEF DInv, done

\* The decoder starts undecided.
LEMMA InitDecoded == Init => DInv
BY DEF Init, DInv, DecodesInode, SoundInodeDecodes

\* readInode's body of a directory.
LEMMA DirDecoded ==
  ASSUME IInv, DInv, ReadDirBody
  PROVE  DInv'
<1> DEFINE basic == [in EXCEPT !.start = u32(0), !.size = dirDataSize(u16(8)), !.offset = u16(10)]
           ext   == [in EXCEPT !.size = dirDataSize(u32(4)), !.start = u32(8),
                               !.offset = u16(18), !.xattr = u32(20)]
           size  == disk.field.size
<1>1. in.type = disk.type /\ disk.type \in Dirs /\ in.xattr = NoXattr /\ size \in Nat
  BY DiskAssumption, TypeClasses DEF IInv, DInv, ReadDirBody, ReadingBody
<1>2. dirDataSize(size) = Max({0, size - 3})
  <2> DEFINE m == Max({0, size - 3})
  <2>1. m \in {0, size - 3} /\ m >= 0 /\ m >= size - 3
    <3>1. \E x \in {0, size - 3} : \A y \in {0, size - 3} : x >= y
      BY <1>1, SMT
    <3>2. m \in {0, size - 3} /\ \A y \in {0, size - 3} : m >= y
      BY <3>1, Zenon DEF Max
    <3> QED
      BY <3>2
  <2> HIDE DEF m
  <2> QED
    BY <1>1, <2>1 DEF dirDataSize, m
<1>3. CASE disk.type = "basicDir"
  <2>1. u32(0) = disk.field.start /\ u16(8) = size /\ u16(10) = disk.field.offset
    BY <1>3, BasicDirFields DEF u16, u32
  <2>2. done(basic)
    BY <1>1, <1>3 DEF ReadDirBody
  <2>3. /\ basic.start = disk.field.start /\ basic.size = dirDataSize(size)
        /\ basic.offset = disk.field.offset /\ basic.xattr = NoXattr /\ basic.type = disk.type
        /\ DOMAIN basic = DOMAIN in
    BY <1>1, <2>1 DEF DInv
  <2> HIDE DEF basic
  <2>4. DecodesInode'
    BY <1>1, <1>2, <1>3, <2>2, <2>3, TypeClasses DEF done, DecodesInode
  <2> QED
    BY <2>2, <2>3, <2>4, DoneDecoded
<1>4. CASE disk.type = "extDir"
  <2>1. /\ u32(4) = size /\ u32(8) = disk.field.start /\ u16(18) = disk.field.offset
        /\ u32(20) = disk.field.xattr
    BY <1>4, ExtDirFields DEF u16, u32
  <2>2. done(ext)
    BY <1>1, <1>4 DEF ReadDirBody
  <2>3. /\ ext.start = disk.field.start /\ ext.size = dirDataSize(size)
        /\ ext.offset = disk.field.offset /\ ext.xattr = disk.field.xattr /\ ext.type = disk.type
        /\ DOMAIN ext = DOMAIN in
    BY <1>1, <2>1 DEF DInv
  <2> HIDE DEF ext
  <2>4. DecodesInode'
    BY <1>1, <1>2, <1>4, <2>2, <2>3, TypeClasses DEF done, DecodesInode
  <2> QED
    BY <2>2, <2>3, <2>4, DoneDecoded
<1> QED
  BY <1>1, <1>3, <1>4 DEF Dirs

\* readInode's body of a symlink.
LEMMA SymlinkDecoded ==
  ASSUME IInv, DInv, ReadSymlinkBody
  PROVE  DInv'
<1> DEFINE len  == u32(4)
           link == [in EXCEPT !.size = len, !.target = SubSeq(disk.rest, 1, len)]
           ext  == [link EXCEPT !.xattr = SubSeq(disk.rest, len + 1, len + WordSize)]
<1>1. /\ in.type = disk.type /\ disk.type \in Symlinks /\ in.xattr = NoXattr
      /\ disk.rest \in Seq(Nat) /\ Len(disk.rest) \in Nat /\ disk.field.size \in Nat
  BY DiskAssumption, TypeClasses, LenProperties DEF IInv, DInv, ReadSymlinkBody, ReadingBody
<1>2. len = disk.field.size
  BY <1>1, BasicSymlinkFields DEF u32
<1>3. /\ link.target = SubSeq(disk.rest, 1, len) /\ link.xattr = NoXattr /\ link.type = disk.type
      /\ ext.target = SubSeq(disk.rest, 1, len) /\ ext.type = disk.type
      /\ ext.xattr = SubSeq(disk.rest, len + 1, len + WordSize)
      /\ DOMAIN link = DOMAIN in /\ DOMAIN ext = DOMAIN in
  BY <1>1 DEF DInv
<1>4. len <= Len(disk.rest) => Len(SubSeq(disk.rest, 1, len)) = len
  BY <1>1, <1>2
<1>5. CASE len > MetaBlockMax
  BY <1>1, <1>2, <1>5, FailDecoded DEF ReadSymlinkBody
<1>6. CASE fail("short") /\ (len > Len(disk.rest)
                             \/ (disk.type = "extSymlink" /\ len + WordSize > Len(disk.rest)))
  <2>1. Needs > Len(disk.rest)
    <3> HIDE DEF link, ext, len
    <3>1. PICK z \in Nat : z = disk.field.size /\ z = len
      BY <1>1, <1>2
    <3>2. PICK t \in Nat : t = Len(disk.rest)
      BY <1>1
    <3>3. PICK w \in Nat \ {0} : w = WordSize
      BY DecodeAssumption
    <3>4. CASE disk.type = "basicSymlink"
      <4>1. Needs = z
        BY <3>1, <3>4 DEF Needs, Files
      <4>2. z > t
        BY <1>6, <3>1, <3>2, <3>4
      <4> QED
        BY <3>2, <4>1, <4>2
    <3>5. CASE disk.type = "extSymlink"
      <4>1. Needs = z + w
        BY <3>1, <3>3, <3>5 DEF Needs, Files
      <4>2. z > t \/ z + w > t
        BY <1>6, <3>1, <3>2, <3>3
      <4> QED
        BY <3>2, <4>1, <4>2
    <3> QED
      BY <1>1, <3>4, <3>5 DEF Symlinks
  <2> QED
    BY <1>6, <2>1, FailDecoded
<1>7. CASE disk.type = "basicSymlink" /\ len <= Len(disk.rest) /\ done(link)
  <2> HIDE DEF link, ext, len
  <2>1. DecodesInode'
    BY <1>1, <1>2, <1>3, <1>4, <1>7, TypeClasses DEF done, DecodesInode
  <2> QED
    BY <1>3, <1>7, <2>1, DoneDecoded
<1>8. CASE disk.type = "extSymlink" /\ len <= Len(disk.rest) /\ done(ext)
  <2> HIDE DEF link, ext, len
  <2>1. DecodesInode'
    BY <1>1, <1>2, <1>3, <1>4, <1>8, TypeClasses DEF done, DecodesInode
  <2> QED
    BY <1>3, <1>8, <2>1, DoneDecoded
<1> QED
  BY <1>1, <1>2, <1>5, <1>6, <1>7, <1>8 DEF ReadSymlinkBody, Symlinks

\* readInode's body of a file.
LEMMA FileDecodedBody ==
  ASSUME IInv, DInv, ReadFileBody
  PROVE  DInv'
<1> DEFINE f == fileFields(in)
           c == blockCount(f.size, f.fragIdx # NoFrag)
<1>1. /\ in.type = disk.type /\ disk.type \in Files /\ in.xattr = NoXattr
      /\ disk.field.size \in Nat
  BY DiskAssumption, TypeClasses DEF IInv, DInv, ReadFileBody, ReadingBody
<1>2. FileDecoded(f) /\ f.type = disk.type /\ DOMAIN f = DOMAIN in
  <2>1. CASE disk.type = "basicFile"
    <3>1. /\ u32(0) = disk.field.start /\ u32(4) = disk.field.fragIdx
          /\ u32(8) = disk.field.offset
      BY <2>1, BasicFileFields DEF u32
    <3>2. fileSize(disk) = disk.field.size
      BY <1>1, FileSizeField
    <3> QED
      BY <1>1, <2>1, <3>1, <3>2 DEF fileFields, FileDecoded, DInv
  <2>2. CASE disk.type = "extFile"
    <3>1. /\ u64(0) = disk.field.start /\ u32(28) = disk.field.fragIdx
          /\ u32(32) = disk.field.offset /\ u32(36) = disk.field.xattr
      BY <2>2, ExtFileFields DEF u32, u64
    <3>2. fileSize(disk) = disk.field.size
      BY <1>1, FileSizeField
    <3> QED
      BY <1>1, <2>2, <3>1, <3>2 DEF fileFields, FileDecoded, DInv
  <2> QED
    BY <1>1, <2>1, <2>2 DEF Files
<1> HIDE DEF f
<1>3. CASE c > MaxBlocks
  <2>1. c = blockCount(disk.field.size, disk.field.fragIdx # NoFrag) /\ c \in Nat
    BY <1>1, <1>2, BlockCountNat DEF FileDecoded
  <2>2. Needs = c * WordSize
    BY <1>1, <2>1, FileNeeds
  <2> HIDE DEF c
  <2>3. MaxBlocks < c
    BY <1>3, <2>1, DecodeAssumption
  <2>4. MaxBlocks * WordSize < c * WordSize
    BY <2>1, <2>3, TimesMono, DecodeAssumption
  <2>5. MaxBlocks * WordSize \in Int /\ c * WordSize \in Int
    BY <2>1, DecodeAssumption
  <2>6. Needs > MaxBlocks * WordSize
    BY <2>2, <2>4, <2>5
  <2>7. fail("corrupt")
    BY <1>3 DEF ReadFileBody, c, f
  <2> QED
    BY <1>1, <2>6, <2>7, FailDecoded
<1>4. CASE ~(c > MaxBlocks)
  <2>1. /\ pc' = "list" /\ in' = [f EXCEPT !.blocks = <<>>] /\ UNCHANGED <<disk, err>>
    BY <1>4 DEF ReadFileBody, emptyList, c, f
  <2>2. FileDecoded(in') /\ in'.type = disk.type /\ DOMAIN in' = DOMAIN in
    BY <1>2, <2>1 DEF FileDecoded, DInv
  <2>3. err' = "pending"
    BY <2>1 DEF IInv, ReadFileBody, ReadingBody
  <2> QED
    BY <1>1, <2>1, <2>2, <2>3 DEF DInv, FileDecoded, DecodesInode, SoundInodeDecodes
<1> QED
  BY <1>3, <1>4

\* Every step of readInode keeps the decoded inode what it is on disk.
LEMMA NextDecoded == IInv /\ DInv /\ [Next]_vars => DInv'
<1> SUFFICES ASSUME IInv, DInv, [Next]_vars PROVE DInv'
  OBVIOUS
<1>1. CASE ReadHeader
  <2> DEFINE i == [in EXCEPT !.type = disk.type, !.mode = typeBits(disk.type)]
  <2>1. i.xattr = NoXattr /\ DOMAIN i = DOMAIN in /\ i.type = disk.type
    BY <1>1 DEF DInv, ReadHeader
  <2>2. CASE done(i) /\ disk.type \in Special
    <3> HIDE DEF i
    <3>1. DecodesInode'
      BY <2>1, <2>2, TypeClasses DEF done, DecodesInode, Special, HasXattr
    <3> QED
      BY <2>1, <2>2, <3>1, DoneDecoded
  <2>3. CASE pc' = "body" /\ in' = i /\ UNCHANGED <<disk, n, err>> /\ disk.type \in Known
    <3>1. err' = "pending"
      BY <1>1, <2>3 DEF IInv, ReadHeader
    <3> HIDE DEF i
    <3> QED
      BY <2>1, <2>3, <3>1 DEF DInv, DecodesInode, SoundInodeDecodes
  <2>4. CASE fail("short") /\ disk.cut = "header"
    BY <2>4, FailDecoded
  <2>5. CASE fail("corrupt") /\ disk.type \notin Known \cup Special
    BY <2>5, FailDecoded
  <2> QED
    BY <1>1, <2>2, <2>3, <2>4, <2>5 DEF ReadHeader, Known
<1>2. CASE BodyEnds
  BY <1>2, FailDecoded DEF BodyEnds
<1>3. CASE ReadDirBody
  BY <1>3, DirDecoded
<1>4. CASE ReadSymlinkBody
  BY <1>4, SymlinkDecoded
<1>5. CASE ReadFileBody
  BY <1>5, FileDecodedBody
<1>6. CASE ReadChunk
  <2>1. /\ UNCHANGED <<disk, n, pc, err>> /\ pc = "list" /\ err = "pending"
        /\ DOMAIN in' = DOMAIN in /\ in'.type = in.type /\ (FileDecoded(in) => FileDecoded(in'))
    BY <1>6 DEF ReadChunk, InList, IInv, DInv, FileDecoded
  <2> QED
    BY <2>1 DEF DInv, FileDecoded, DecodesInode, SoundInodeDecodes
<1>7. CASE ChunkEnds
  <2> DEFINE m == Len(in.blocks) + k
             r == Len(disk.rest)
  <2>1. m \in Nat /\ n \in Nat /\ m <= n /\ r \in Nat
    BY <1>7, DecodeAssumption, DiskAssumption, LenProperties DEF IInv, ChunkEnds, InList, k
  <2>2. ~(m * WordSize <= r)
    BY <1>7 DEF ChunkEnds, Delivered
  <2>3. Needs = n * WordSize
    BY <1>7, FileNeeds DEF ChunkEnds, InList, IInv, DInv, FileDecoded
  <2> HIDE DEF m, r
  <2>4. m * WordSize <= n * WordSize /\ m * WordSize \in Nat /\ n * WordSize \in Nat
    BY <2>1, TimesMono, DecodeAssumption
  <2>5. Needs > r
    BY <2>1, <2>2, <2>3, <2>4
  <2> QED
    BY <1>7, <2>5, FailDecoded DEF ChunkEnds, r
<1>8. CASE EndList
  <2>1. pc = "list" /\ done(in)
    BY <1>8 DEF EndList
  <2>2. DecodesInode'
    BY <2>1, TypeClasses DEF DInv, FileDecoded, done, DecodesInode, Files, HasXattr
  <2> QED
    BY <2>1, <2>2, DoneDecoded
<1>9. CASE ReadFails
  BY <1>9, FailDecoded DEF ReadFails
<1>10. CASE UNCHANGED vars
  BY <1>10 DEF vars, DInv, FileDecoded, DecodesInode, SoundInodeDecodes, Needs
<1> QED
  BY <1>1, <1>2, <1>3, <1>4, <1>5, <1>6, <1>7, <1>8, <1>9, <1>10 DEF Next, Returned

\* For every inode of every type: each field of what readInode returns comes from its
\* own place in the layout, the xattr index of an extended symlink from behind its
\* target.
THEOREM InodeDecoded == Spec => []DecodesInode
<1>1. DInv => DecodesInode
  BY DEF DInv
<1> QED
  BY <1>1, InitInv, NextInv, InitDecoded, NextDecoded, PTL DEF Spec

\* readInode refuses no inode that is whole on disk and within the limits, whatever
\* the size of a chunk and of the list.
THEOREM SoundInodeDecoded == Spec => []SoundInodeDecodes
<1>1. DInv => SoundInodeDecodes
  BY DEF DInv
<1> QED
  BY <1>1, InitInv, NextInv, InitDecoded, NextDecoded, PTL DEF Spec
=============================================================================
