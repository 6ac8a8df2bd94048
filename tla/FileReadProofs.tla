--------------------------- MODULE FileReadProofs ---------------------------
(***************************************************************************)
(* The two read paths of FileRead, for every image, every inode and every   *)
(* interleaving of the readers: what ReadAt and ReadFileLimit deliver is the *)
(* file, and a corrupt file is reported only where a byte of it is missing.  *)
(* First the lemmas about the format, which hold of every image and every    *)
(* inode and which both paths share, then FileRead's inductive invariant.    *)
(***************************************************************************)
EXTENDS FileRead, DataLemmas

\* Go's slice expression within the bounds of a buffer.
LEMMA SliceIs ==
  ASSUME NEW s \in Seq(Nat), NEW from \in Nat, NEW n \in Nat, from + n <= Len(s)
  PROVE  /\ Slice(s, from, n) \in Seq(Nat)
         /\ Len(Slice(s, from, n)) = n
         /\ \A j \in 1..n : Slice(s, from, n)[j] = s[from + j]
<1>1. Min({from + n, Len(s)}) = from + n
  BY MinOf
<1>2. Slice(s, from, n) = SubSeq(s, from + 1, from + n)
  BY <1>1, Zenon DEF Slice
<1> QED
  BY <1>2

\* A sparse block reads as zeros.
LEMMA ZerosIs ==
  ASSUME NEW n \in Nat
  PROVE  /\ Zeros(n) \in Seq(Nat)
         /\ Len(Zeros(n)) = n
         /\ \A j \in 1..n : Zeros(n)[j] = 0
BY DEF Zeros

\* A file inode: its fields have the types of the record readInode fills, and its
\* block list does not reach past the end of the file.
LEMMA InodeIs ==
  ASSUME NEW i \in Inodes
  PROVE  /\ i.size \in Nat /\ int64(i.start) \in Int /\ i.fragOffset \in Nat
         /\ i.fragIdx = NoFrag \/ i.fragIdx \in Nat
         /\ i.blocks \in Seq(Nat) /\ Len(i.blocks) \in Nat
         /\ \A k \in 1..Len(i.blocks) : i.blocks[k] \in Nat
         /\ Len(i.blocks) * BlockSize \in Nat
         /\ Len(i.blocks) * BlockSize <= i.size + BlockSize - 1
<1>1. /\ i.size \in 0..(SizeLimit - 1) /\ i.start \in 0..(SizeLimit - 1)
      /\ i.fragIdx = NoFrag \/ i.fragIdx \in Nat
      /\ i.fragOffset \in Nat
      /\ i.blocks \in Seq(Nat)
      /\ Len(i.blocks) = blockCount(i.size, i.fragIdx # NoFrag)
      /\ Len(i.blocks) \in Nat
      /\ \A k \in 1..Len(i.blocks) : i.blocks[k] \in Nat
  BY InodesAssumption
<1>2. PICK b \in Nat \ {0} : b = BlockSize
  BY BlockSizeAssumption
<1>3. PICK z \in Nat, l \in Nat : z = i.size /\ l = Len(i.blocks)
  BY <1>1, BlockSizeAssumption
<1>4. l * b \in Nat /\ l * b <= z + b - 1
  <2>1. ASSUME NEW v \in Nat PROVE (v \div b) * b <= v
    BY DivOf
  <2>2. CASE i.fragIdx # NoFrag
    <3>1. l = z \div b
      BY <1>1, <1>2, <1>3, <2>2 DEF blockCount
    <3> QED
      BY <2>1, <3>1
  <2>3. CASE i.fragIdx = NoFrag
    <3>1. l = ((z + b - 1) % SizeLimit) \div b
      BY <1>1, <1>2, <1>3, <2>3 DEF blockCount
    <3>2. z + b - 1 \in Nat
      OBVIOUS
    <3>3. (z + b - 1) % SizeLimit \in Nat /\ (z + b - 1) % SizeLimit <= z + b - 1
      BY <3>2, BlockSizeAssumption
    <3> QED
      BY <2>1, <3>1, <3>3
  <2> QED
    BY <2>2, <2>3
<1>5. int64(i.start) \in Int
  BY <1>1, BlockSizeAssumption DEF int64
<1> QED
  BY <1>1, <1>2, <1>3, <1>4, <1>5

\* Clearing the uncompressed bit of a size word leaves a length.
LEMMA StoredNat ==
  ASSUME NEW w \in Nat
  PROVE  blockOnDiskBytes(w) \in Nat
<1>1. PICK b \in Nat \ {0} : b = RawBit
  BY SizesAssumption
<1>2. w < b => w \div b = 0
  OBVIOUS
<1>3. (w \div b) % 2 = 1 => w >= b
  BY <1>2
<1> QED
  BY <1>1, <1>3 DEF blockOnDiskBytes

-----------------------------------------------------------------------------
\* The recursion of blockOffsets, over the first m blocks.
Prefix(i, m, g) ==
  g = [k \in 1..m |-> IF k = 1 THEN int64(i.start)
                      ELSE g[k - 1] + blockOnDiskBytes(i.blocks[k - 1])]

\* The recursion of blockOffsets has a solution.
LEMMA PrefixExists ==
  ASSUME NEW i, NEW m \in Nat
  PROVE  \E g : Prefix(i, m, g)
<1> DEFINE P == {x \in Nat : \E g : Prefix(i, x, g)}
<1>1. 0 \in P
  <2> DEFINE g == [j \in 1..0 |-> 0]
  <2>1. Prefix(i, 0, g)
    BY DEF Prefix
  <2> QED
    BY <2>1
<1>2. ASSUME NEW x \in Nat, x \in P PROVE x + 1 \in P
  <2>1. PICK g : Prefix(i, x, g)
    BY <1>2
  <2> DEFINE v(j) == IF j = 1 THEN int64(i.start) ELSE g[j - 1] + blockOnDiskBytes(i.blocks[j - 1])
             h == [j \in 1..(x + 1) |-> v(j)]
  <2>0. \A j \in 1..x : g[j] = v(j)
    BY <2>1, Zenon DEF Prefix
  <2>2. \A j \in 1..x : h[j] = g[j]
    <3>1. \A j \in 1..x : j \in 1..(x + 1)
      OBVIOUS
    <3> HIDE DEF v
    <3> QED
      BY <2>0, <3>1
  <2>3. ASSUME NEW j \in 1..(x + 1)
        PROVE  h[j] = IF j = 1 THEN int64(i.start) ELSE h[j - 1] + blockOnDiskBytes(i.blocks[j - 1])
    <3>1. CASE j = 1
      BY <3>1
    <3>2. CASE j # 1
      <4>1. j - 1 \in 1..x
        BY <3>2
      <4>2. h[j] = g[j - 1] + blockOnDiskBytes(i.blocks[j - 1])
        BY <3>2
      <4> HIDE DEF h
      <4> QED
        BY <2>2, <3>2, <4>1, <4>2
    <3> QED
      BY <3>1, <3>2
  <2>4. h = [j \in 1..(x + 1) |-> h[j]]
    OBVIOUS
  <2> HIDE DEF h
  <2>5. Prefix(i, x + 1, h)
    BY <2>3, <2>4, Zenon DEF Prefix
  <2>6. x + 1 \in Nat
    OBVIOUS
  <2> QED
    BY <2>5, <2>6
<1> HIDE DEF P
<1>3. Nat \subseteq P
  BY <1>1, <1>2, SetInduction
<1> QED
  BY <1>3 DEF P

\* The blocks of a file lie one behind the other.
LEMMA StartNext ==
  ASSUME NEW i \in Inodes
  PROVE  /\ BlockStart(i, 1) = int64(i.start)
         /\ \A k \in 1..Len(i.blocks) :
              /\ Stored(i, k) \in Nat
              /\ BlockStart(i, k + 1) = BlockStart(i, k) + Stored(i, k)
<1> DEFINE f == [j \in 1..Len(i.blocks) |-> Stored(i, j)]
           S(k) == SumFunctionOnSet(f, 1..(k - 1))
<1>0. /\ int64(i.start) \in Int /\ Len(i.blocks) \in Nat
      /\ \A k \in 1..Len(i.blocks) : Stored(i, k) \in Nat
  BY InodeIs, StoredNat, Zenon DEF Stored
<1>1. \A k : BlockStart(i, k) = int64(i.start) + S(k)
  BY DEF BlockStart
<1>2. S(1) = 0
  <2>1. 1..(1 - 1) = {}
    OBVIOUS
  <2> QED
    BY <2>1, SumEmpty
<1>3. ASSUME NEW k \in 1..Len(i.blocks)
      PROVE  S(k + 1) = S(k) + Stored(i, k) /\ S(k) \in Int
  <2>1. k - 1 \in Nat /\ (k - 1) + 1 = k /\ (k + 1) - 1 = k /\ 1 <= k
    OBVIOUS
  <2>2. \A y \in 1..k : f[y] \in Int
    BY <1>0
  <2>3. f[k] = Stored(i, k)
    OBVIOUS
  <2> HIDE DEF f
  <2>4. /\ SumFunctionOnSet(f, 1..((k - 1) + 1)) = SumFunctionOnSet(f, 1..(k - 1)) + f[(k - 1) + 1]
        /\ SumFunctionOnSet(f, 1..(k - 1)) \in Int
    BY <2>1, <2>2, SumNext
  <2> QED
    BY <2>1, <2>3, <2>4
<1> HIDE DEF S
<1>4. BlockStart(i, 1) = int64(i.start)
  BY <1>0, <1>1, <1>2
<1>5. ASSUME NEW k \in 1..Len(i.blocks)
      PROVE  BlockStart(i, k + 1) = BlockStart(i, k) + Stored(i, k)
  BY <1>0, <1>1, <1>3
<1> QED
  BY <1>0, <1>4, <1>5

\* The place where a block starts is an int64.
LEMMA StartInt ==
  ASSUME NEW i \in Inodes, NEW k \in 1..(Len(i.blocks) + 1)
  PROVE  BlockStart(i, k) \in Int
<1> DEFINE f == [j \in 1..Len(i.blocks) |-> Stored(i, j)]
<1>1. int64(i.start) \in Int /\ Len(i.blocks) \in Nat
  BY InodeIs
<1>2. \A y \in 1..(k - 1) : f[y] \in Nat
  <2>1. \A y \in 1..(k - 1) : y \in 1..Len(i.blocks)
    BY <1>1
  <2> QED
    BY <2>1, StartNext
<1>3. BlockStart(i, k) = int64(i.start) + SumFunctionOnSet(f, 1..(k - 1))
  BY DEF BlockStart
<1> HIDE DEF f
<1>4. IsFiniteSet(1..(k - 1))
  BY FS_Interval, <1>1
<1>5. SumFunctionOnSet(f, 1..(k - 1)) \in Nat
  BY <1>2, <1>4, SumNat
<1> QED
  BY <1>1, <1>3, <1>5

\* newFile's prefix sum is where the blocks of the file are.
LEMMA OffsetsAre ==
  ASSUME in \in Inodes
  PROVE  \A k \in 1..Len(in.blocks) : blockOffsets[k] = BlockStart(in, k)
<1> DEFINE L == Len(in.blocks)
           g == CHOOSE h : Prefix(in, L, h)
           P == {x \in Nat : x + 1 \in 1..L => g[x + 1] = BlockStart(in, x + 1)}
<1>0. L \in Nat
  BY InodeIs
<1>1. Prefix(in, L, g)
  BY <1>0, PrefixExists
<1>2. blockOffsets = g
  BY Zenon DEF blockOffsets, Prefix
<1> HIDE DEF g
<1>3. \A k \in 1..L : g[k] = IF k = 1 THEN int64(in.start)
                             ELSE g[k - 1] + blockOnDiskBytes(in.blocks[k - 1])
  BY <1>1, Zenon DEF Prefix
<1>4. 0 \in P
  BY <1>3, StartNext
<1>5. ASSUME NEW x \in Nat, x \in P PROVE x + 1 \in P
  <2>1. SUFFICES ASSUME (x + 1) + 1 \in 1..L PROVE g[(x + 1) + 1] = BlockStart(in, (x + 1) + 1)
    OBVIOUS
  <2>2. x + 1 \in 1..L /\ (x + 1) + 1 # 1 /\ ((x + 1) + 1) - 1 = x + 1
    BY <1>0, <2>1
  <2>3. g[(x + 1) + 1] = g[x + 1] + Stored(in, x + 1)
    BY <1>3, <2>1, <2>2 DEF Stored
  <2>4. g[x + 1] = BlockStart(in, x + 1)
    BY <1>5, <2>2
  <2>5. BlockStart(in, (x + 1) + 1) = BlockStart(in, x + 1) + Stored(in, x + 1)
    BY <2>2, StartNext
  <2> QED
    BY <2>3, <2>4, <2>5
<1> HIDE DEF P
<1>6. Nat \subseteq P
  BY <1>4, <1>5, SetInduction
<1>7. ASSUME NEW k \in 1..L PROVE g[k] = BlockStart(in, k)
  <2>1. k - 1 \in Nat /\ (k - 1) + 1 = k
    BY <1>0
  <2> QED
    BY <1>6, <2>1 DEF P
<1> QED
  BY <1>2, <1>7

-----------------------------------------------------------------------------
\* What a read of block k of a file gives: an I/O error, a corrupt block, or the
\* bytes that the image holds there.
LEMMA BlockAnswer ==
  ASSUME NEW i \in Inodes, NEW k \in 1..Len(i.blocks), Stored(i, k) # 0,
         NEW d \in readBlock(BlockStart(i, k), i.blocks[k])
  PROVE  \/ d = Fail("ioerr")
         \/ d = Fail("corrupt") /\ ~GoodBlock(i, k)
         \/ /\ d.err = "nil" /\ d.data \in Seq(Nat)
            /\ d = Image(BlockStart(i, k), i.blocks[k])
            /\ Stored(i, k) <= BlockSize
            /\ ~OutsideImage(BlockStart(i, k), Stored(i, k))
<1> DEFINE o == BlockStart(i, k)
           n == Stored(i, k)
           a == Image(o, i.blocks[k])
<1>0. n \in Nat /\ BlockSize \in Nat
  BY StartNext, BlockSizeAssumption
<1>1. d = Fail("ioerr") \/ Decoding(d)
  BY DecodingAssumption
<1>2. n = blockOnDiskBytes(i.blocks[k])
  BY DEF Stored
<1>3. d \in (IF n > BlockSize \/ OutsideImage(o, n) THEN {Fail("corrupt")} ELSE {a, Fail("ioerr")})
  BY <1>2 DEF readBlock
<1>4. GoodBlock(i, k) => n <= BlockSize /\ ~OutsideImage(o, n) /\ a.err = "nil"
  BY DEF GoodBlock, Holds
<1> HIDE DEF o, n, a
<1>5. CASE n > BlockSize \/ OutsideImage(o, n)
  <2>1. d = Fail("corrupt") /\ ~GoodBlock(i, k)
    BY <1>0, <1>3, <1>4, <1>5
  <2> QED
    BY <2>1
<1>6. CASE ~(n > BlockSize \/ OutsideImage(o, n))
  <2>1. d = a \/ d = Fail("ioerr")
    BY <1>3, <1>6
  <2>2. CASE d = a /\ a = Fail("corrupt")
    <3>1. a.err # "nil"
      BY <2>2 DEF Fail
    <3> QED
      BY <1>4, <2>2, <3>1
  <2>3. CASE d = a /\ d # Fail("ioerr") /\ a # Fail("corrupt")
    BY <1>0, <1>1, <1>6, <2>3 DEF Decoding, o, n, a
  <2> QED
    BY <2>1, <2>2, <2>3
<1> QED
  BY <1>5, <1>6

\* What a read of a fragment gives: an I/O error, or the one answer the image has.
LEMMA FragAnswer ==
  ASSUME NEW i \in Nat, NEW d \in readFragment(i)
  PROVE  /\ d = Fail("ioerr") \/ Decoding(d)
         /\ d.err # "ioerr" =>
              \A e \in readFragment(i) : e.err # "ioerr" => e = d
<1> DEFINE block == FragTable[(i \div FragPerMetaBlock) + 1]
           at == i % FragPerMetaBlock
           en == block.data[at + 1]
<1>0. /\ FragCount \in Nat /\ FragPerMetaBlock \in Nat \ {0} /\ BlockSize \in Nat
      /\ at \in Nat
  BY SizesAssumption, BlockSizeAssumption
<1>1. Fail("ioerr").err = "ioerr" /\ Fail("corrupt").err = "corrupt"
  BY DEF Fail
<1>2. CASE i >= FragCount
  <2>1. readFragmentEntry(i) = {Fail("corrupt")}
    BY <1>2 DEF readFragmentEntry
  <2>2. readFragment(i) = {Fail("corrupt")}
    BY <1>1, <2>1 DEF readFragment
  <2> QED
    BY <2>2 DEF Decoding
<1>3. CASE ~(i >= FragCount) /\ (block.err # "nil" \/ at >= Len(block.data))
  <2>1. readFragmentEntry(i) = {Fail("ioerr"), Fail("corrupt")}
    BY <1>3 DEF readFragmentEntry
  <2>2. readFragment(i) = {Fail("ioerr"), Fail("corrupt")}
    BY <1>1, <2>1 DEF readFragment
  <2> QED
    BY <1>1, <2>2 DEF Decoding
<1>4. CASE ~(i >= FragCount) /\ ~(block.err # "nil" \/ at >= Len(block.data))
  <2>0. i \in 0..(FragCount - 1)
    BY <1>0, <1>4
  <2>1. \A e \in readFragment(i) : e = Fail("ioerr") \/ Decoding(e)
    BY <2>0, DecodingAssumption
  <2>2. readFragmentEntry(i) = {Fail("ioerr"), Ok(en)}
    BY <1>4 DEF readFragmentEntry
  <2> HIDE DEF en
  <2>3. Ok(en).err = "nil" /\ Ok(en).data = en
    BY DEF Ok
  <2>4. readFragment(i) = {Fail("ioerr")} \cup readBlock(int64(en.start), en.sizeWord)
    BY <1>1, <2>2, <2>3 DEF readFragment
  <2>5. PICK a : readBlock(int64(en.start), en.sizeWord) \subseteq {a, Fail("ioerr")}
    <3>1. \/ readBlock(int64(en.start), en.sizeWord) = {Ok(<<>>)}
          \/ readBlock(int64(en.start), en.sizeWord) = {Fail("corrupt")}
          \/ readBlock(int64(en.start), en.sizeWord) =
               {Image(int64(en.start), en.sizeWord), Fail("ioerr")}
      BY DEF readBlock
    <3> QED
      BY <3>1
  <2>6. \A e \in readFragment(i) : e = a \/ e = Fail("ioerr")
    BY <2>4, <2>5
  <2> QED
    BY <1>1, <2>1, <2>6
<1> QED
  BY <1>2, <1>3, <1>4

\* A byte of a block that does not hold its share of the file does not exist, and
\* every block of the list has a byte of the file.
LEMMA BadBlock ==
  ASSUME NEW i \in Inodes, NEW k \in 1..Len(i.blocks), ~GoodBlock(i, k)
  PROVE  /\ \A p \in Nat : p \div BlockSize = k - 1 => ~Readable(i, p)
         /\ \E p \in 0..(i.size - 1) : ~Readable(i, p)
<1>1. PICK b \in Nat \ {0}, l \in Nat, z \in Nat : b = BlockSize /\ l = Len(i.blocks) /\ z = i.size
  BY BlockSizeAssumption, InodeIs, Zenon
<1>2. PICK q \in Nat : q = k - 1 /\ q + 1 <= l /\ q + 1 = k
  BY <1>1
<1>3. ASSUME NEW p \in Nat, p \div BlockSize = q PROVE ~Readable(i, p)
  <2>1. p \div BlockSize < Len(i.blocks) /\ (p \div BlockSize) + 1 = k
    BY <1>1, <1>2, <1>3
  <2> QED
    BY <2>1 DEF Readable
<1>4. PICK Q \in Nat : Q = q * b
  OBVIOUS
<1>5. Q < z
  <2>1. l * b \in Nat /\ l * b <= z + b - 1
    BY <1>1, InodeIs
  <2>2. (q + 1) * b <= l * b
    BY <1>2
  <2>3. (q + 1) * b = Q + b
    BY <1>4
  <2> QED
    BY <2>1, <2>2, <2>3
<1>6. Q \div b = q
  <2>1. PICK t \in 0..(b - 1) : t = 0 /\ q * b + t = Q
    BY <1>4
  <2>2. (q * b + t) \div b = q
    BY DivMod
  <2> QED
    BY <2>1, <2>2
<1>7. Q \in 0..(i.size - 1) /\ ~Readable(i, Q)
  <2>1. Q \in 0..(z - 1) /\ Q \div BlockSize = q
    BY <1>1, <1>5, <1>6
  <2> QED
    BY <1>1, <1>3, <2>1
<1> QED
  BY <1>2, <1>3, <1>7

\* The bytes of a block that holds its share.
LEMMA BlockBytes ==
  ASSUME NEW i \in Inodes, NEW p \in Nat, p \div BlockSize < Len(i.blocks), Plausible(i),
         NEW k, k = (p \div BlockSize) + 1, GoodBlock(i, k)
  PROVE  /\ Readable(i, p)
         /\ Byte(i, p) = IF Stored(i, k) = 0 THEN 0
                         ELSE Image(BlockStart(i, k), i.blocks[k]).data[(p % BlockSize) + 1]
<1>1. Readable(i, p)
  BY DEF Readable
<1>2. p \div BlockSize \in Nat /\ Len(i.blocks) \in Nat
  BY InodeIs, DivOf, BlockSizeAssumption, Zenon
<1>3. ~(k > Len(i.blocks))
  BY <1>2
<1> QED
  BY <1>1, <1>3 DEF Byte

\* The bytes past the block list, when the fragment holds them all.
LEMMA TailBytes ==
  ASSUME NEW i \in Inodes, NEW p \in Nat, p \div BlockSize >= Len(i.blocks), Plausible(i),
         i.fragIdx # NoFrag, NEW d \in readFragment(i.fragIdx), d.err = "nil",
         i.fragOffset + i.size - Len(i.blocks) * BlockSize <= Len(d.data)
  PROVE  /\ Readable(i, p)
         /\ Byte(i, p) = d.data[i.fragOffset + p - Len(i.blocks) * BlockSize + 1]
<1>0. i.fragIdx \in Nat /\ d.err # "ioerr"
  BY InodeIs
<1>1. \A e \in readFragment(i.fragIdx) : e.err # "ioerr" => e = d
  BY <1>0, FragAnswer
<1>2. p \div BlockSize \in Nat /\ Len(i.blocks) \in Nat
  BY InodeIs, DivOf, BlockSizeAssumption
<1>3. d.data \in Seq(Nat)
  BY <1>0, FragAnswer DEF Decoding, Fail
<1>4. Holds(d, i.fragOffset + i.size - Len(i.blocks) * BlockSize)
  <2>1. PICK n : n = i.fragOffset + i.size - Len(i.blocks) * BlockSize
    OBVIOUS
  <2>2. n \in Int
    BY <2>1, InodeIs
  <2> QED
    BY <1>3, <2>1, <2>2 DEF Holds
<1>5. GoodTail(i)
  BY <1>1, <1>4 DEF GoodTail
<1>6. ~(p \div BlockSize < Len(i.blocks)) /\ (p \div BlockSize) + 1 > Len(i.blocks)
  BY <1>2
<1>7. Readable(i, p)
  BY <1>5, <1>6 DEF Readable
<1>8. (CHOOSE e \in readFragment(i.fragIdx) : e.err = "nil") = d
  <2>1. \A e \in readFragment(i.fragIdx) : e.err = "nil" => e = d
    <3>1. "nil" # "ioerr"
      OBVIOUS
    <3> QED
      BY <1>1, <3>1
  <2> QED
    BY <2>1
<1> QED
  BY <1>6, <1>7, <1>8, Zenon DEF Byte

\* A byte past the block list does not exist when the fragment is missing, does not
\* decode or is too short.
LEMMA BadTail ==
  ASSUME NEW i \in Inodes, NEW p \in Nat, p \div BlockSize >= Len(i.blocks),
         \/ i.fragIdx = NoFrag
         \/ \E d \in readFragment(i.fragIdx) :
              \/ d.err = "corrupt"
              \/ d.err = "nil" /\ Len(d.data) < i.fragOffset + i.size - Len(i.blocks) * BlockSize
  PROVE  ~Readable(i, p)
<1>2. p \div BlockSize \in Nat /\ Len(i.blocks) \in Nat
  BY InodeIs, DivOf, BlockSizeAssumption
<1>3. ~(p \div BlockSize < Len(i.blocks))
  BY <1>2
<1>4. ~GoodTail(i)
  <2>1. CASE i.fragIdx = NoFrag
    BY <2>1 DEF GoodTail
  <2>2. CASE i.fragIdx # NoFrag
    <3>1. PICK d \in readFragment(i.fragIdx) :
              \/ d.err = "corrupt"
              \/ d.err = "nil" /\ Len(d.data) < i.fragOffset + i.size - Len(i.blocks) * BlockSize
      BY <2>2
    <3>2. PICK n \in Int : n = i.fragOffset + i.size - Len(i.blocks) * BlockSize
      BY InodeIs
    <3>3. d.err = "nil" => d.data \in Seq(Nat)
      <4>1. i.fragIdx \in Nat
        BY <2>2, InodeIs
      <4> QED
        BY <4>1, FragAnswer DEF Decoding, Fail
    <3>4. ~Holds(d, n)
      BY <3>1, <3>2, <3>3 DEF Holds
    <3>5. d.err # "ioerr"
      BY <3>1
    <3> QED
      BY <3>2, <3>4, <3>5 DEF GoodTail
  <2> QED
    BY <2>1, <2>2
<1> QED
  BY <1>3, <1>4 DEF Readable

-----------------------------------------------------------------------------
\* s is the part of the file from offset o on.
FileBytes(i, o, s) == \A j \in 1..Len(s) : Readable(i, o + j - 1) /\ s[j] = Byte(i, o + j - 1)

\* s is the n bytes of the file at offset o.
Part(i, o, s, n) == s \in Seq(Nat) /\ Len(s) = n /\ FileBytes(i, o, s)

\* Where block k is in the file, where the block list ends, and the share of the file
\* that block k holds.
Base(k) == (k - 1) * BlockSize
ListEnd(i) == Len(i.blocks) * BlockSize
Share(i, k) == Min({BlockSize, i.size - Base(k)})

\* A part of the file, longer by the part behind it.
LEMMA Extends ==
  ASSUME NEW i, NEW o \in Int, NEW s \in Seq(Nat), FileBytes(i, o, s),
         NEW d, NEW n \in Nat, Part(i, o + Len(s), d, n)
  PROVE  Part(i, o, s \o d, Len(s) + n)
<1>0. d \in Seq(Nat) /\ Len(d) = n
  BY DEF Part
<1>1. s \o d \in Seq(Nat) /\ Len(s \o d) = Len(s) + n
  BY <1>0
<1>2. ASSUME NEW j \in 1..(Len(s) + n)
      PROVE  Readable(i, o + j - 1) /\ (s \o d)[j] = Byte(i, o + j - 1)
  <2>1. CASE j <= Len(s)
    <3>1. j \in 1..Len(s) /\ (s \o d)[j] = s[j]
      BY <1>0, <2>1
    <3> QED
      BY <3>1 DEF FileBytes
  <2>2. CASE ~(j <= Len(s))
    <3>1. /\ j - Len(s) \in 1..Len(d) /\ (s \o d)[j] = d[j - Len(s)]
          /\ o + Len(s) + (j - Len(s)) - 1 = o + j - 1
      BY <1>0, <2>2
    <3> QED
      BY <3>1 DEF Part, FileBytes
  <2> QED
    BY <2>1, <2>2
<1> QED
  BY <1>1, <1>2 DEF Part, FileBytes

\* Facts of arithmetic for the leaves about calls: lengths, and what is left of them.
LEMMA LengthIs == \A s \in Seq(Nat) : Len(s) \in Nat
OBVIOUS

\* A part taken off leaves a number.
LEMMA Less == \A x, y \in Nat : y < x => x - y \in Nat
OBVIOUS

\* The index after one of a list.
LEMMA NextIndex ==
  ASSUME NEW l \in Nat, NEW k \in 1..l
  PROVE  k \in 1..(l + 1) /\ k + 1 \in 1..(l + 1) /\ k + 1 \in Nat
OBVIOUS

\* Offsets add up to offsets.
LEMMA PlusInt == \A x \in Int, y \in Nat : x + y \in Int
OBVIOUS

\* The start of a file is at offset 0.
LEMMA FromStart == 0 \in Int /\ \A x \in Nat : 0 + x = x
OBVIOUS

\* What a read loop does with block k, when it wants n bytes from place w of the
\* file's share of it: the bytes copied are the file's, or the block is bad.
LEMMA BlockCopy ==
  ASSUME NEW i \in Inodes, Plausible(i), NEW k \in 1..Len(i.blocks),
         NEW sh \in Nat, sh = Share(i, k), NEW w \in Nat, NEW n \in Nat, w + n <= sh,
         NEW o \in Nat, o = Base(k) + w
  PROVE  /\ Stored(i, k) = 0 => Part(i, o, Zeros(n), n)
         /\ Stored(i, k) # 0 =>
              \A d \in readBlock(BlockStart(i, k), i.blocks[k]) :
                \/ d.err = "ioerr"
                \/ d.err = "corrupt" /\ ~GoodBlock(i, k)
                \/ d.err = "nil" /\ Len(d.data) < sh /\ ~GoodBlock(i, k)
                \/ d.err = "nil" /\ ~(Len(d.data) < sh) /\ Part(i, o, Slice(d.data, w, n), n)
<1>1. PICK b \in Nat \ {0}, q \in Nat, l \in Nat, z \in Nat :
        b = BlockSize /\ q = k - 1 /\ q + 1 = k /\ l = Len(i.blocks) /\ z = i.size /\ q < l
  <2>1. BlockSize \in Nat \ {0} /\ Len(i.blocks) \in Nat /\ i.size \in Nat
    BY BlockSizeAssumption, InodeIs
  <2>2. k - 1 \in Nat /\ (k - 1) + 1 = k /\ k - 1 < Len(i.blocks)
    BY <2>1
  <2> QED
    BY <2>1, <2>2
<1>2. sh <= b
  <2>1. q * b \in Nat
    OBVIOUS
  <2>2. sh = Min({b, z - q * b})
    BY <1>1 DEF Share, Base
  <2>3. z - q * b \in Int
    BY <2>1
  <2> QED
    BY <2>2, <2>3, MinOf
<1>3. ASSUME GoodBlock(i, k), NEW j \in 1..n
      PROVE  /\ Readable(i, o + j - 1)
             /\ Byte(i, o + j - 1) =
                  IF Stored(i, k) = 0 THEN 0
                  ELSE Image(BlockStart(i, k), i.blocks[k]).data[w + j]
  <2>1. PICK t \in 0..(b - 1) : t = w + j - 1
    BY <1>2
  <2>2. q * b + t \in Nat /\ (q * b + t) \div b = q /\ (q * b + t) % b = t
    BY DivMod
  <2>3. PICK p \in Nat : p = q * b + t
    BY <2>2
  <2>4. p = o + j - 1
    <3>1. PICK Q \in Nat : Q = q * b
      OBVIOUS
    <3>2. o = Q + w
      BY <1>1, <3>1 DEF Base
    <3> QED
      BY <2>1, <2>3, <3>1, <3>2
  <2>5. /\ k = (p \div BlockSize) + 1 /\ p \div BlockSize < Len(i.blocks)
        /\ (p % BlockSize) + 1 = w + j
    BY <1>1, <2>1, <2>2, <2>3
  <2>6. /\ Readable(i, p)
        /\ Byte(i, p) = IF Stored(i, k) = 0 THEN 0
                        ELSE Image(BlockStart(i, k), i.blocks[k]).data[(p % BlockSize) + 1]
    BY <1>3, <2>5, BlockBytes
  <2> QED
    BY <2>4, <2>5, <2>6
<1>4. ASSUME Stored(i, k) = 0 PROVE Part(i, o, Zeros(n), n)
  <2>1. GoodBlock(i, k)
    BY <1>4 DEF GoodBlock
  <2> QED
    BY <1>3, <1>4, <2>1, ZerosIs DEF Part, FileBytes
<1>5. ASSUME Stored(i, k) # 0, NEW d \in readBlock(BlockStart(i, k), i.blocks[k])
      PROVE  \/ d.err = "ioerr"
             \/ d.err = "corrupt" /\ ~GoodBlock(i, k)
             \/ d.err = "nil" /\ Len(d.data) < sh /\ ~GoodBlock(i, k)
             \/ d.err = "nil" /\ ~(Len(d.data) < sh) /\ Part(i, o, Slice(d.data, w, n), n)
  <2>1. \/ d = Fail("ioerr")
        \/ d = Fail("corrupt") /\ ~GoodBlock(i, k)
        \/ /\ d.err = "nil" /\ d.data \in Seq(Nat)
           /\ d = Image(BlockStart(i, k), i.blocks[k])
           /\ Stored(i, k) <= BlockSize
           /\ ~OutsideImage(BlockStart(i, k), Stored(i, k))
    BY <1>5, BlockAnswer
  <2>2. CASE d = Fail("ioerr")
    BY <2>2 DEF Fail
  <2>3. CASE d = Fail("corrupt") /\ ~GoodBlock(i, k)
    BY <2>3 DEF Fail
  <2>4. CASE /\ d.err = "nil" /\ d.data \in Seq(Nat)
             /\ d = Image(BlockStart(i, k), i.blocks[k])
             /\ Stored(i, k) <= BlockSize
             /\ ~OutsideImage(BlockStart(i, k), Stored(i, k))
    <3>0. Len(d.data) \in Nat
      BY <2>4
    <3>1. CASE Len(d.data) < sh
      <4>1. ~Holds(d, sh)
        BY <3>0, <3>1 DEF Holds
      <4>2. ~GoodBlock(i, k)
        BY <1>5, <2>4, <4>1 DEF GoodBlock, Share, Base
      <4> QED
        BY <2>4, <3>1, <4>2
    <3>2. CASE ~(Len(d.data) < sh)
      <4>1. Holds(d, sh)
        BY <2>4, <3>0, <3>2 DEF Holds
      <4>2. GoodBlock(i, k)
        BY <2>4, <4>1 DEF GoodBlock, Share, Base
      <4>3. w + n <= Len(d.data)
        BY <3>0, <3>2
      <4>4. PICK s : s = Slice(d.data, w, n)
        OBVIOUS
      <4>5. s \in Seq(Nat) /\ Len(s) = n /\ \A j \in 1..n : s[j] = d.data[w + j]
        <5>1. PICK e \in Seq(Nat) : e = d.data
          BY <2>4
        <5>2. w + n <= Len(e)
          BY <4>3, <5>1, Zenon
        <5>3. /\ Slice(e, w, n) \in Seq(Nat) /\ Len(Slice(e, w, n)) = n
              /\ \A j \in 1..n : Slice(e, w, n)[j] = e[w + j]
          BY <5>2, SliceIs
        <5> QED
          BY <4>4, <5>1, <5>3
      <4>6. \A j \in 1..n : Readable(i, o + j - 1) /\ s[j] = Byte(i, o + j - 1)
        BY <1>3, <1>5, <2>4, <4>2, <4>5
      <4>7. Part(i, o, s, n)
        BY <4>5, <4>6 DEF Part, FileBytes
      <4> QED
        BY <2>4, <3>2, <4>4, <4>7
    <3> QED
      BY <3>1, <3>2
  <2> QED
    BY <2>1, <2>2, <2>3, <2>4
<1> QED
  BY <1>4, <1>5

\* What a read path does with the fragment, when it wants n bytes from offset o past
\* the block list (T bytes long): the bytes copied are the file's, or the tail is bad.
LEMMA TailCopy ==
  ASSUME NEW i \in Inodes, Plausible(i), NEW T \in Nat, T = ListEnd(i),
         NEW o \in Nat, NEW n \in Nat, o >= T, o + n <= i.size,
         i.fragIdx # NoFrag, NEW d \in readFragment(i.fragIdx)
  PROVE  \/ d.err = "ioerr"
         \/ d.err = "corrupt" /\ \A p \in Nat : p >= T => ~Readable(i, p)
         \/ /\ d.err = "nil" /\ i.fragOffset + (i.size - T) > Len(d.data)
            /\ \A p \in Nat : p >= T => ~Readable(i, p)
         \/ /\ d.err = "nil" /\ ~(i.fragOffset + (i.size - T) > Len(d.data))
            /\ Part(i, o, Slice(d.data, i.fragOffset + (o - T), n), n)
<1>1. PICK g \in Nat, z \in Nat, l \in Nat :
        g = i.fragOffset /\ z = i.size /\ l = Len(i.blocks) /\ i.fragIdx \in Nat
  BY InodeIs
<1>2. \A p \in Nat : p >= T => p \div BlockSize >= Len(i.blocks)
  BY <1>1, BlockSizeAssumption, PastBlocks, Zenon DEF ListEnd
<1>3. d = Fail("ioerr") \/ d = Fail("corrupt") \/ (d.err = "nil" /\ d.data \in Seq(Nat))
  BY <1>1, FragAnswer DEF Decoding
<1>4. CASE d = Fail("ioerr")
  BY <1>4 DEF Fail
<1>5. CASE d = Fail("corrupt")
  <2>1. d.err = "corrupt"
    BY <1>5 DEF Fail
  <2> QED
    BY <1>2, <2>1, BadTail
<1>6. CASE d.err = "nil" /\ d.data \in Seq(Nat)
  <2>1. PICK D \in Nat : D = Len(d.data)
    BY <1>6
  <2>2. CASE g + (z - T) > D
    <3>1. Len(d.data) < i.fragOffset + i.size - Len(i.blocks) * BlockSize
      <4>1. D < g + z - T
        BY <2>2
      <4> QED
        BY <1>1, <2>1, <4>1 DEF ListEnd
    <3>2. \A p \in Nat : p >= T => ~Readable(i, p)
      BY <1>2, <1>6, <3>1, BadTail
    <3> QED
      BY <1>1, <1>6, <2>1, <2>2, <3>2
  <2>3. CASE ~(g + (z - T) > D)
    <3>1. i.fragOffset + i.size - Len(i.blocks) * BlockSize <= Len(d.data)
      <4>1. g + z - T <= D
        BY <2>3
      <4> QED
        BY <1>1, <2>1, <4>1 DEF ListEnd
    <3>2. PICK a \in Nat : a = g + (o - T)
      OBVIOUS
    <3>3. o + n <= z
      BY <1>1
    <3>4. a + n <= Len(d.data)
      <4>1. ASSUME NEW y \in Nat, NEW x \in Nat, y = g + (o - T), o + n <= x, ~(g + (x - T) > D)
            PROVE  y + n <= D
        BY <4>1
      <4> QED
        BY <2>1, <2>3, <3>2, <3>3, <4>1, Zenon
    <3>5. PICK s : s = Slice(d.data, a, n)
      OBVIOUS
    <3>6. s \in Seq(Nat) /\ Len(s) = n /\ \A j \in 1..n : s[j] = d.data[a + j]
      <4>1. PICK e \in Seq(Nat) : e = d.data
        BY <1>6
      <4>2. a + n <= Len(e)
        BY <3>4, <4>1, Zenon
      <4>3. /\ Slice(e, a, n) \in Seq(Nat) /\ Len(Slice(e, a, n)) = n
            /\ \A j \in 1..n : Slice(e, a, n)[j] = e[a + j]
        BY <4>2, SliceIs
      <4> QED
        BY <3>5, <4>1, <4>3
    <3>7. ASSUME NEW j \in 1..n
          PROVE  Readable(i, o + j - 1) /\ s[j] = Byte(i, o + j - 1)
      <4>1. PICK p \in Nat : p = o + j - 1 /\ p >= T /\ g + p - T + 1 = a + j
        BY <3>2
      <4>2. /\ Readable(i, p)
            /\ Byte(i, p) = d.data[i.fragOffset + p - Len(i.blocks) * BlockSize + 1]
        BY <1>2, <1>6, <3>1, <4>1, TailBytes
      <4>3. i.fragOffset + p - Len(i.blocks) * BlockSize + 1 = a + j
        BY <1>1, <4>1, Zenon DEF ListEnd
      <4> QED
        BY <3>6, <4>1, <4>2, <4>3
    <3>8. Part(i, o, s, n)
      BY <3>6, <3>7 DEF Part, FileBytes
    <3> QED
      BY <1>1, <1>6, <2>1, <2>3, <3>2, <3>5, <3>8
  <2> QED
    BY <2>2, <2>3
<1> QED
  BY <1>3, <1>4, <1>5, <1>6

-----------------------------------------------------------------------------

Errors == {"nil", "EOF", "closed", "negative", "corrupt", "ioerr", "too large"}

\* The calls of ReadAt and of ReadFileLimit.
AtCalls == [at : {"readAt", "returned"}, off : Int, len : Nat, out : Seq(Nat), err : Errors]
FileCalls == [at : {"readFile", "returned"}, max : Int, k : Nat, off : Int, remaining : Nat,
              out : Seq(Nat), err : Errors]

\* ReadAt: a prefix of the range asked for is delivered, and a return explains why
\* it is not all of it.
AtInv(c) ==
  /\ c \in AtCalls
  /\ file = "opened"
  /\ Len(c.out) <= c.len
  /\ FileBytes(in, c.off, c.out)
  /\ c.at = "readAt" => c.off \in Nat /\ c.off + Len(c.out) <= in.size
  /\ c.at = "returned" =>
       /\ Len(c.out) < c.len => c.err # "nil"
       /\ c.err = "EOF" => c.off + Len(c.out) >= in.size
       /\ c.err = "corrupt" => /\ c.off + Len(c.out) < in.size
                               /\ ~Readable(in, c.off + Len(c.out))
       /\ c.err = "closed" => closed /\ c.out = <<>>

\* readFileLimit: before block k the first k - 1 blocks are assembled, the last one
\* clipped to the file, and the running offset is where block k starts.
Assembly(c) ==
  /\ Plausible(in)
  /\ c.k \in 1..(Len(in.blocks) + 1)
  /\ c.off = BlockStart(in, c.k)
  /\ Len(c.out) = Min({in.size, Base(c.k)})
  /\ Len(c.out) + c.remaining = in.size
  /\ FileBytes(in, 0, c.out)

WholeInv(c) ==
  /\ c \in FileCalls
  /\ c.at = "readFile" => Assembly(c)
  /\ c.at = "returned" =>
       /\ c.err = "nil" => Plausible(in) /\ Len(c.out) = in.size /\ FileBytes(in, 0, c.out)
       /\ c.err # "nil" => c.out = <<>>
       /\ c.err = "corrupt" => \E p \in 0..(in.size - 1) : ~Readable(in, p)
       /\ c.err = "too large" => c.max >= 0 /\ in.size > c.max

\* The inductive invariant.
Inv == /\ in \in Inodes
       /\ file \in {"unopened", "opened", "refused"}
       /\ closed \in BOOLEAN
       /\ closed => file = "opened"
       /\ file = "opened" => Plausible(in)
       /\ file = "refused" => ~Plausible(in)
       /\ call \in [Readers -> {Idle} \cup AtCalls \cup FileCalls]
       /\ \A r \in Readers : call[r] = Idle \/ AtInv(call[r]) \/ WholeInv(call[r])

\* The step of one reader that leaves its call as the invariant says.
LEMMA Becomes ==
  ASSUME Inv, NEW r \in Readers, NEW c, become(r, c),
         c = Idle \/ AtInv(c) \/ WholeInv(c)
  PROVE  Inv'
<1>1. in' = in /\ file' = file /\ closed' = closed /\ call' = [call EXCEPT ![r] = c]
  BY DEF become
<1>2. c \in {Idle} \cup AtCalls \cup FileCalls
  BY DEF AtInv, WholeInv
<1>3. call' \in [Readers -> {Idle} \cup AtCalls \cup FileCalls]
  BY <1>1, <1>2 DEF Inv
<1>4. ASSUME NEW e, e = Idle \/ AtInv(e) \/ WholeInv(e)
      PROVE  e = Idle \/ AtInv(e)' \/ WholeInv(e)'
  BY <1>1, <1>4 DEF AtInv, WholeInv, Assembly, FileBytes
<1>5. ASSUME NEW q \in Readers
      PROVE  call'[q] = Idle \/ AtInv(call[q])' \/ WholeInv(call[q])'
  <2>1. call'[q] = c \/ call'[q] = call[q]
    BY <1>1 DEF Inv
  <2>2. \E e : e = call'[q] /\ (e = Idle \/ AtInv(e) \/ WholeInv(e))
    BY <2>1 DEF Inv
  <2>3. PICK e : e = call'[q] /\ (e = Idle \/ AtInv(e) \/ WholeInv(e))
    BY <2>2
  <2>4. e = Idle \/ AtInv(e)' \/ WholeInv(e)'
    BY <1>4, <2>3
  <2>5. AtInv(e)' = AtInv(call[q])' /\ WholeInv(e)' = WholeInv(call[q])'
    BY <2>3 DEF AtInv, WholeInv, Assembly, FileBytes
  <2> QED
    BY <2>3, <2>4, <2>5
<1> QED
  BY <1>1, <1>3, <1>5 DEF Inv

\* An iteration of ReadAt that delivers the next n bytes of the file.
LEMMA Delivers ==
  ASSUME Inv, NEW r \in Readers, AtInv(call[r]), call[r].at = "readAt",
         NEW d, deliver(r, d), NEW n \in Nat, Part(in, cur(r), d, n),
         Len(call[r].out) + n <= call[r].len, cur(r) + n <= in.size
  PROVE  Inv'
<1> DEFINE c == call[r]
           e == [c EXCEPT !.out = @ \o d]
<1>1. /\ c \in AtCalls /\ file = "opened" /\ FileBytes(in, c.off, c.out)
      /\ c.off \in Nat /\ c.off \in Int /\ c.out \in Seq(Nat) /\ Len(c.out) \in Nat
  <2>1. c \in AtCalls /\ file = "opened" /\ FileBytes(in, c.off, c.out) /\ c.off \in Nat
    BY Zenon DEF AtInv
  <2>2. c.off \in Int /\ c.out \in Seq(Nat)
    BY <2>1, Zenon DEF AtCalls
  <2>3. Len(c.out) \in Nat
    BY <2>2, LengthIs, Zenon
  <2> QED
    BY <2>1, <2>2, <2>3, Zenon
<1>2. cur(r) = c.off + Len(c.out)
  BY DEF cur
<1>3. Part(in, c.off, c.out \o d, Len(c.out) + n)
  BY <1>1, <1>2, Extends, Zenon
<1>4. PICK s \in Seq(Nat) : s = c.out \o d /\ Len(s) = Len(c.out) + n /\ FileBytes(in, c.off, s)
  BY <1>3 DEF Part
<1>5. e = [c EXCEPT !.out = s]
  BY <1>4
<1>6. become(r, e)
  BY DEF deliver
<1> HIDE DEF e
<1>7. e \in AtCalls /\ e.at = "readAt" /\ e.off = c.off /\ e.len = c.len /\ e.out = s
  BY <1>1, <1>5 DEF AtCalls
<1>8. AtInv(e)
  <2>1. e.off \in Nat /\ e.off + Len(e.out) <= in.size
    <3>1. c.off + (Len(c.out) + n) = (c.off + Len(c.out)) + n
      BY <1>1
    <3> QED
      BY <1>1, <1>2, <1>4, <1>7, <3>1, Zenon
  <2>2. e.at # "returned"
    BY <1>7
  <2> QED
    BY <1>1, <1>4, <1>7, <2>1, <2>2 DEF AtInv
<1> QED
  BY <1>6, <1>8, Becomes

\* ReadAt returns with what it has.
LEMMA AtReturns ==
  ASSUME Inv, NEW r \in Readers, AtInv(call[r]), call[r].at = "readAt",
         NEW x \in {"nil", "EOF", "corrupt", "ioerr"}, return(r, x),
         x = "nil" => Len(call[r].out) >= call[r].len,
         x = "EOF" => cur(r) >= in.size,
         x = "corrupt" => cur(r) < in.size /\ ~Readable(in, cur(r))
  PROVE  Inv'
<1> DEFINE c == call[r]
           e == [c EXCEPT !.at = "returned", !.err = x]
<1>1. /\ c \in AtCalls /\ file = "opened" /\ Len(c.out) <= c.len
      /\ FileBytes(in, c.off, c.out) /\ c.out \in Seq(Nat) /\ c.len \in Nat
  BY DEF AtInv, AtCalls
<1>2. cur(r) = c.off + Len(c.out)
  BY DEF cur
<1>3. /\ e \in AtCalls /\ e.at = "returned" /\ e.err = x
      /\ e.off = c.off /\ e.len = c.len /\ e.out = c.out
  BY <1>1 DEF AtCalls, Errors
<1>4. become(r, e)
  BY DEF return
<1> HIDE DEF e
<1>5. AtInv(e)
  <2>1. Len(c.out) < c.len => x # "nil"
    BY <1>1
  <2>2. e.at # "readAt" /\ e.err # "closed"
    BY <1>3
  <2> QED
    BY <1>1, <1>2, <1>3, <2>1, <2>2 DEF AtInv
<1> QED
  BY <1>4, <1>5, Becomes

\* The call a step of ReadAt's loop is in.
LEMMA AtCall ==
  ASSUME Inv, NEW r \in Readers, call[r].at = "readAt"
  PROVE  /\ AtInv(call[r]) /\ Plausible(in) /\ in \in Inodes
         /\ cur(r) \in Nat /\ cur(r) <= in.size /\ in.size \in Nat
         /\ call[r].len \in Nat /\ Len(call[r].out) \in Nat /\ call[r].len >= Len(call[r].out)
         /\ cur(r) = call[r].off + Len(call[r].out)
<1>1. call[r] = Idle \/ AtInv(call[r]) \/ WholeInv(call[r])
  BY DEF Inv
<1>2. call[r] # Idle
  BY DEF Idle
<1>3. ~WholeInv(call[r])
  BY DEF WholeInv, FileCalls
<1>4. AtInv(call[r])
  BY <1>1, <1>2, <1>3
<1>5. in \in Inodes /\ in.size \in Nat
  BY InodeIs DEF Inv
<1>6. Plausible(in)
  BY <1>4 DEF Inv, AtInv
<1>7. /\ call[r].len \in Nat /\ call[r].out \in Seq(Nat) /\ call[r].off \in Nat
      /\ call[r].len >= Len(call[r].out) /\ call[r].off + Len(call[r].out) <= in.size
      /\ Len(call[r].out) \in Nat
  BY <1>4 DEF AtInv, AtCalls
<1> QED
  BY <1>4, <1>5, <1>6, <1>7 DEF cur

\* The checks of ReadAt before its loop.
LEMMA ReadAtKeeps ==
  ASSUME Inv, NEW r \in Readers, NEW off \in Offsets, NEW len \in Lengths, ReadAt(r, off, len)
  PROVE  Inv'
<1> DEFINE c == [at |-> "readAt", off |-> off, len |-> len, out |-> <<>>, err |-> "nil"]
           early == IF closed THEN "closed"
                    ELSE IF off < 0 THEN "negative"
                    ELSE IF off >= in.size THEN "EOF" ELSE "nil"
           e == IF early = "nil" THEN c ELSE [c EXCEPT !.at = "returned", !.err = early]
<1>1. off \in Int /\ len \in Nat /\ in.size \in Nat
  BY SizesAssumption, InodeIs DEF Inv
<1>2. become(r, e) /\ file = "opened"
  BY DEF ReadAt
<1>3. /\ e \in AtCalls /\ e.off = off /\ e.len = len /\ e.out = <<>> /\ Len(e.out) = 0
      /\ e.err = early /\ (e.at = "readAt" => early = "nil") /\ (e.at = "returned" => early # "nil")
  <2>1. early \in {"closed", "negative", "EOF", "nil"}
    OBVIOUS
  <2> HIDE DEF early
  <2>2. CASE early = "nil"
    <3>1. e = c
      BY <2>2
    <3> QED
      BY <1>1, <2>2, <3>1 DEF AtCalls, Errors
  <2>3. CASE early # "nil"
    <3>1. e = [c EXCEPT !.at = "returned", !.err = early]
      BY <2>3
    <3> HIDE DEF e
    <3>2. e = [at |-> "returned", off |-> off, len |-> len, out |-> <<>>, err |-> early]
      BY <3>1, Zenon
    <3>3. early \in Errors
      BY <2>1 DEF Errors
    <3> QED
      BY <1>1, <2>3, <3>2, <3>3 DEF AtCalls
  <2> QED
    BY <2>2, <2>3
<1>4. early \notin {"corrupt"} /\ (early = "closed" => closed) /\ (early = "EOF" => off >= in.size)
      /\ (early = "nil" => off \in Nat /\ off < in.size)
  BY <1>1
<1> HIDE DEF e, early
<1>5. FileBytes(in, e.off, e.out)
  BY <1>3 DEF FileBytes
<1>6. AtInv(e)
  <2>1. e.at = "readAt" => e.off \in Nat /\ e.off + Len(e.out) <= in.size
    BY <1>1, <1>3, <1>4
  <2>2. e.at = "returned" =>
         /\ Len(e.out) < e.len => e.err # "nil"
         /\ e.err = "EOF" => e.off + Len(e.out) >= in.size
         /\ e.err # "corrupt"
         /\ e.err = "closed" => closed /\ e.out = <<>>
    BY <1>1, <1>3, <1>4
  <2>3. Len(e.out) <= e.len
    BY <1>1, <1>3
  <2> QED
    BY <1>2, <1>3, <1>5, <2>1, <2>2, <2>3 DEF AtInv
<1> QED
  BY <1>2, <1>6, Becomes

\* The loop ends.
LEMMA ReadAtEndsKeeps ==
  ASSUME Inv, NEW r \in Readers, ReadAtEnds(r)
  PROVE  Inv'
<1>1. call[r].at = "readAt"
  BY DEF ReadAtEnds
<1>2. CASE Len(call[r].out) >= call[r].len /\ return(r, "nil")
  BY <1>1, <1>2, AtCall, AtReturns
<1>3. CASE cur(r) >= in.size /\ return(r, "EOF")
  BY <1>1, <1>3, AtCall, AtReturns
<1> QED
  BY <1>2, <1>3 DEF ReadAtEnds

\* Where an iteration is, in arithmetic: what it may still deliver.
LEMMA LoopAt ==
  ASSUME Inv, NEW r \in Readers, InLoop(r)
  PROVE  /\ unread(r) \in Nat
         /\ Len(call[r].out) + unread(r) <= call[r].len
         /\ cur(r) + unread(r) <= in.size
<1>1. call[r].at = "readAt"
  BY DEF InLoop
<1>2. /\ cur(r) \in Nat /\ cur(r) < in.size /\ in.size \in Nat /\ call[r].len \in Nat
      /\ Len(call[r].out) \in Nat /\ Len(call[r].out) < call[r].len
  BY <1>1, AtCall DEF InLoop
<1> DEFINE a == call[r].len - Len(call[r].out)
           b == in.size - cur(r)
<1>3. a \in Nat /\ b \in Nat
  BY <1>2, Less, Zenon
<1>4. unread(r) = IF a <= b THEN a ELSE b
  BY <1>3, MinOf DEF unread
<1>5. PICK u \in Nat : u = unread(r) /\ u <= a /\ u <= b
  <2> HIDE DEF a, b
  <2> QED
    BY <1>3, <1>4
<1> QED
  BY <1>2, <1>5

\* readFragmentInto.
LEMMA ReadAtFragmentKeeps ==
  ASSUME Inv, NEW r \in Readers, ReadAtFragment(r)
  PROVE  Inv'
<1>1. InLoop(r) /\ call[r].at = "readAt" /\ cur(r) < in.size
  BY DEF ReadAtFragment, AtFragment, InLoop
<1>2. AtInv(call[r]) /\ Plausible(in) /\ in \in Inodes /\ cur(r) \in Nat /\ in.size \in Nat
  BY <1>1, AtCall
<1>3. PICK T \in Nat : T = ListEnd(in)
  BY <1>2, InodeIs DEF ListEnd
<1>4. cur(r) >= T
  <2>1. cur(r) \div BlockSize >= Len(in.blocks)
    BY DEF ReadAtFragment, AtFragment, idx
  <2>2. Len(in.blocks) \in Nat /\ BlockSize \in Nat \ {0}
    BY <1>2, InodeIs, BlockSizeAssumption
  <2> QED
    BY <1>2, <1>3, <2>1, <2>2, PastBlocks, Zenon DEF ListEnd
<1>5. PICK n \in Nat : n = unread(r)
  BY <1>1, LoopAt
<1>6. Len(call[r].out) + n <= call[r].len /\ cur(r) + n <= in.size
  BY <1>1, <1>5, LoopAt
<1>7. CASE in.fragIdx = NoFrag
  <2>1. return(r, "corrupt")
    BY <1>7 DEF ReadAtFragment
  <2>2. cur(r) \div BlockSize >= Len(in.blocks)
    BY DEF ReadAtFragment, AtFragment, idx
  <2>3. ~Readable(in, cur(r))
    BY <1>2, <1>7, <2>2, BadTail
  <2> QED
    BY <1>1, <1>2, <2>1, <2>3, AtReturns
<1>8. CASE in.fragIdx # NoFrag
  <2>1. PICK d \in readFragment(in.fragIdx) : FragmentInto(r, d)
    BY <1>8 DEF ReadAtFragment
  <2>2. \/ d.err = "ioerr"
        \/ d.err = "corrupt" /\ \A p \in Nat : p >= T => ~Readable(in, p)
        \/ /\ d.err = "nil" /\ in.fragOffset + (in.size - T) > Len(d.data)
           /\ \A p \in Nat : p >= T => ~Readable(in, p)
        \/ /\ d.err = "nil" /\ ~(in.fragOffset + (in.size - T) > Len(d.data))
           /\ Part(in, cur(r), Slice(d.data, in.fragOffset + (cur(r) - T), n), n)
    BY <1>2, <1>3, <1>4, <1>6, <1>8, TailCopy, Zenon
  <2>3. pastFragment(d.data) <=> in.fragOffset + (in.size - T) > Len(d.data)
    BY <1>3, Zenon DEF pastFragment, ListEnd
  <2>4. CASE d.err = "ioerr"
    <3>1. return(r, "ioerr")
      BY <2>1, <2>4 DEF FragmentInto
    <3> QED
      BY <1>1, <1>2, <3>1, AtReturns
  <2>5. CASE \/ d.err = "corrupt" /\ \A p \in Nat : p >= T => ~Readable(in, p)
             \/ /\ d.err = "nil" /\ in.fragOffset + (in.size - T) > Len(d.data)
                /\ \A p \in Nat : p >= T => ~Readable(in, p)
    <3>1. return(r, "corrupt")
      BY <2>1, <2>3, <2>5 DEF FragmentInto
    <3>2. ~Readable(in, cur(r))
      BY <1>2, <1>4, <2>5, Zenon
    <3> QED
      BY <1>1, <1>2, <3>1, <3>2, AtReturns
  <2>6. CASE /\ d.err = "nil" /\ ~(in.fragOffset + (in.size - T) > Len(d.data))
             /\ Part(in, cur(r), Slice(d.data, in.fragOffset + (cur(r) - T), n), n)
    <3>1. deliver(r, Slice(d.data, in.fragOffset + (cur(r) - T), n))
      BY <1>3, <1>5, <2>1, <2>3, <2>6, Zenon DEF FragmentInto, ListEnd
    <3> QED
      BY <1>1, <1>2, <1>6, <2>6, <3>1, Delivers, Zenon
  <2> QED
    BY <2>2, <2>4, <2>5, <2>6
<1> QED
  BY <1>7, <1>8

\* An iteration inside the block list, in arithmetic: the bytes it wants lie in the
\* file's share of one block.
LEMMA BlockAt ==
  ASSUME Inv, NEW r \in Readers, AtBlock(r)
  PROVE  /\ idx(r) \in Nat /\ idx(r) + 1 \in 1..Len(in.blocks)
         /\ within(r) \in Nat /\ want(r) \in Nat /\ logical(r) \in Nat
         /\ Len(call[r].out) + want(r) <= call[r].len /\ cur(r) + want(r) <= in.size
         /\ within(r) + want(r) <= logical(r)
         /\ \A k : k = idx(r) + 1 => logical(r) = Share(in, k) /\ cur(r) = Base(k) + within(r)
<1>1. InLoop(r) /\ call[r].at = "readAt" /\ cur(r) < in.size /\ idx(r) < Len(in.blocks)
  BY DEF AtBlock, InLoop
<1>2. PICK b \in Nat \ {0} : b = BlockSize
  BY BlockSizeAssumption
<1>3. PICK c \in Nat, z \in Nat, o \in Nat, l \in Nat :
        c = cur(r) /\ z = in.size /\ o = Len(call[r].out) /\ l = call[r].len
  BY <1>1, AtCall
<1>4. PICK u \in Nat : u = unread(r) /\ o + u <= l /\ c + u <= z
  BY <1>1, <1>3, LoopAt
<1>5. PICK q \in Nat, w \in 0..(b - 1) : q = c \div b /\ w = c % b /\ c = q * b + w /\ q * b \in Nat
  BY DivOf, Zenon
<1>6. idx(r) = q /\ within(r) = w
  BY <1>2, <1>3, <1>5 DEF idx, within
<1>7. PICK n \in Nat : n = want(r) /\ n <= u /\ w + n <= b
  <2>1. b - w \in Int
    OBVIOUS
  <2>2. want(r) = IF u <= b - w THEN u ELSE b - w
    BY <1>2, <1>4, <1>6, <2>1, MinOf DEF want
  <2> QED
    BY <2>2
<1>8. PICK Q \in Nat : Q = q * b
  BY <1>5
<1>9. c = Q + w
  BY <1>5, <1>8
<1>10. logical(r) = Min({b, z - q * b})
  BY <1>2, <1>3, <1>6 DEF logical
<1>11. logical(r) = IF b <= z - Q THEN b ELSE z - Q
  BY <1>8, <1>10, MinOf
<1>12. z - Q \in Nat /\ w + n <= z - Q
  <2>1. c < z /\ c + u <= z /\ n <= u /\ c = Q + w
    BY <1>1, <1>3, <1>4, <1>7, <1>9
  <2> QED
    BY <2>1
<1>13. logical(r) \in Nat /\ w + n <= logical(r)
  BY <1>7, <1>11, <1>12
<1>14. ASSUME NEW k, k = q + 1
       PROVE  logical(r) = Share(in, k) /\ c = Base(k) + w
  <2>1. k - 1 = q
    BY <1>14
  <2>2. Base(k) = q * b
    BY <1>2, <2>1 DEF Base
  <2> QED
    BY <1>2, <1>3, <1>5, <1>10, <2>2, Zenon DEF Share
<1>15. q + 1 \in 1..Len(in.blocks)
  <2>1. Len(in.blocks) \in Nat
    BY InodeIs DEF Inv
  <2> QED
    BY <1>1, <1>6, <2>1
<1>16. o + n <= l /\ c + n <= z
  BY <1>4, <1>7
<1>17. \A k : k = idx(r) + 1 => logical(r) = Share(in, k) /\ cur(r) = Base(k) + within(r)
  BY <1>3, <1>6, <1>14, Zenon
<1> QED
  BY <1>3, <1>6, <1>7, <1>13, <1>15, <1>16, <1>17

\* An iteration of ReadAt inside the block list.
LEMMA ReadAtBlockKeeps ==
  ASSUME Inv, NEW r \in Readers, ReadAtBlock(r)
  PROVE  Inv'
<1>1. AtBlock(r) /\ InLoop(r) /\ call[r].at = "readAt" /\ cur(r) < in.size
  BY DEF ReadAtBlock, AtBlock, InLoop
<1>2. AtInv(call[r]) /\ Plausible(in) /\ in \in Inodes /\ cur(r) \in Nat
  BY <1>1, AtCall
<1>3. PICK k \in 1..Len(in.blocks) : k = idx(r) + 1
  BY <1>1, BlockAt
<1>4. PICK n \in Nat, w \in Nat, sh \in Nat :
        n = want(r) /\ w = within(r) /\ sh = logical(r) /\ w + n <= sh
  BY <1>1, BlockAt
<1>5. /\ Len(call[r].out) + n <= call[r].len /\ cur(r) + n <= in.size
      /\ sh = Share(in, k) /\ cur(r) = Base(k) + w
  BY <1>1, <1>3, <1>4, BlockAt
<1>6. /\ Stored(in, k) = 0 => Part(in, cur(r), Zeros(n), n)
      /\ Stored(in, k) # 0 =>
           \A d \in readBlock(BlockStart(in, k), in.blocks[k]) :
             \/ d.err = "ioerr"
             \/ d.err = "corrupt" /\ ~GoodBlock(in, k)
             \/ d.err = "nil" /\ Len(d.data) < sh /\ ~GoodBlock(in, k)
             \/ d.err = "nil" /\ ~(Len(d.data) < sh) /\ Part(in, cur(r), Slice(d.data, w, n), n)
  BY <1>2, <1>4, <1>5, BlockCopy, Zenon
<1>7. ~GoodBlock(in, k) => ~Readable(in, cur(r))
  <2>1. cur(r) \div BlockSize = k - 1
    BY <1>1, <1>3, BlockAt DEF idx
  <2> QED
    BY <1>2, <2>1, BadBlock, Zenon
<1>8. blockOnDiskBytes(in.blocks[idx(r) + 1]) = Stored(in, k)
  BY <1>3 DEF Stored
<1>9. CASE Stored(in, k) = 0
  <2>1. deliver(r, Zeros(n))
    BY <1>4, <1>8, <1>9 DEF ReadAtBlock
  <2> QED
    BY <1>1, <1>2, <1>5, <1>6, <1>9, <2>1, Delivers, Zenon
<1>10. CASE Stored(in, k) # 0
  <2>1. PICK d \in readBlock(BlockStart(in, k), in.blocks[k]) : BlockInto(r, d)
    <3>1. \E d \in readBlock(blockOffsets[idx(r) + 1], in.blocks[idx(r) + 1]) : BlockInto(r, d)
      BY <1>8, <1>10 DEF ReadAtBlock
    <3>2. blockOffsets[k] = BlockStart(in, k)
      BY <1>2, OffsetsAre
    <3> QED
      BY <1>3, <3>1, <3>2
  <2>2. CASE d.err = "ioerr"
    <3>1. return(r, "ioerr")
      BY <2>1, <2>2 DEF BlockInto
    <3> QED
      BY <1>1, <1>2, <3>1, AtReturns
  <2>3. CASE (d.err = "corrupt" \/ (d.err = "nil" /\ Len(d.data) < sh)) /\ ~GoodBlock(in, k)
    <3>1. return(r, "corrupt")
      BY <1>4, <2>1, <2>3 DEF BlockInto
    <3> QED
      BY <1>1, <1>2, <1>7, <2>3, <3>1, AtReturns
  <2>4. CASE d.err = "nil" /\ ~(Len(d.data) < sh) /\ Part(in, cur(r), Slice(d.data, w, n), n)
    <3>1. deliver(r, Slice(d.data, w, n))
      BY <1>4, <2>1, <2>4, Zenon DEF BlockInto
    <3> QED
      BY <1>1, <1>2, <1>5, <2>4, <3>1, Delivers, Zenon
  <2> QED
    BY <1>6, <1>10, <2>2, <2>3, <2>4
<1> QED
  BY <1>9, <1>10

-----------------------------------------------------------------------------
\* The call a step of readFileLimit is in.
LEMMA FileCall ==
  ASSUME Inv, NEW r \in Readers, call[r].at = "readFile"
  PROVE  /\ call[r] \in FileCalls /\ Assembly(call[r]) /\ in \in Inodes /\ Plausible(in)
         /\ in.size \in Nat /\ Len(in.blocks) \in Nat
         /\ call[r].out \in Seq(Nat) /\ Len(call[r].out) \in Nat
         /\ call[r].k \in 1..(Len(in.blocks) + 1)
         /\ call[r].remaining \in Nat /\ Len(call[r].out) + call[r].remaining = in.size
         /\ call[r].off = BlockStart(in, call[r].k)
         /\ Len(call[r].out) = Min({in.size, Base(call[r].k)})
         /\ FileBytes(in, 0, call[r].out)
<1>1. call[r] = Idle \/ AtInv(call[r]) \/ WholeInv(call[r])
  BY DEF Inv
<1>2. call[r] # Idle
  BY DEF Idle
<1>3. ~AtInv(call[r])
  BY DEF AtInv, AtCalls
<1>4. WholeInv(call[r])
  BY <1>1, <1>2, <1>3
<1>5. in \in Inodes /\ in.size \in Nat /\ Len(in.blocks) \in Nat
  BY InodeIs DEF Inv
<1>6. call[r] \in FileCalls /\ Assembly(call[r])
  BY <1>4 DEF WholeInv
<1>7. call[r].out \in Seq(Nat) /\ Len(call[r].out) \in Nat /\ call[r].remaining \in Nat
  BY <1>6 DEF FileCalls
<1> QED
  BY <1>5, <1>6, <1>7 DEF Assembly

\* readFileLimit gives up.
LEMMA Fails ==
  ASSUME Inv, NEW r \in Readers, call[r].at = "readFile",
         NEW x \in {"corrupt", "ioerr"}, fail(r, x),
         x = "corrupt" => \E p \in 0..(in.size - 1) : ~Readable(in, p)
  PROVE  Inv'
<1> DEFINE e == [call[r] EXCEPT !.at = "returned", !.out = <<>>, !.err = x]
<1>1. call[r] \in FileCalls
  BY FileCall
<1>2. e \in FileCalls /\ e.at = "returned" /\ e.out = <<>> /\ e.err = x
  <2>1. x \in Errors
    BY DEF Errors
  <2>5. <<>> \in Seq(Nat)
    BY EmptyIsSeq
  <2>2. PICK s \in Seq(Nat) : s = <<>>
    BY <2>5, Zenon
  <2>3. e = [call[r] EXCEPT !.at = "returned", !.out = s, !.err = x]
    BY <2>2
  <2> HIDE DEF e
  <2>4. e \in FileCalls /\ e.at = "returned" /\ e.out = s /\ e.err = x
    BY <1>1, <2>1, <2>3, Zenon DEF FileCalls
  <2> QED
    BY <2>2, <2>4
<1>3. become(r, e)
  BY DEF fail
<1> HIDE DEF e
<1>4. e.at # "readFile" /\ e.err # "nil" /\ e.err # "too large"
  BY <1>2
<1>5. WholeInv(e)
  BY <1>2, <1>4 DEF WholeInv
<1> QED
  BY <1>3, <1>5, Becomes

\* readFileLimit returns the whole file, or finds it incomplete.
LEMMA Finishes ==
  ASSUME Inv, NEW r \in Readers, call[r].at = "readFile",
         NEW out \in Seq(Nat), finish(r, out), FileBytes(in, 0, out),
         Len(out) # in.size => \E p \in 0..(in.size - 1) : ~Readable(in, p)
  PROVE  Inv'
<1> DEFINE s == IF Len(out) = in.size THEN out ELSE <<>>
           x == IF Len(out) = in.size THEN "nil" ELSE "corrupt"
           e == [call[r] EXCEPT !.at = "returned", !.out = s, !.err = x]
<1>1. call[r] \in FileCalls /\ Plausible(in)
  BY FileCall
<1>2. s \in Seq(Nat) /\ x \in {"nil", "corrupt"}
  OBVIOUS
<1>3. /\ x = "nil" => Len(out) = in.size /\ s = out
      /\ x # "nil" => s = <<>>
      /\ x = "corrupt" => Len(out) # in.size
  OBVIOUS
<1>4. become(r, e)
  BY DEF finish
<1> HIDE DEF s, x
<1>5. e \in FileCalls /\ e.at = "returned" /\ e.out = s /\ e.err = x
  BY <1>1, <1>2 DEF FileCalls, Errors
<1> HIDE DEF e
<1>6. e.at # "readFile" /\ e.err # "too large"
  BY <1>2, <1>5
<1>7. WholeInv(e)
  BY <1>1, <1>3, <1>5, <1>6 DEF WholeInv
<1> QED
  BY <1>4, <1>7, Becomes

\* A block of the assembly, in arithmetic: the output is a whole number of blocks,
\* short of the end of the file, and the clipped block is the file's share of it.
LEMMA AssemblyAt ==
  ASSUME Inv, NEW r \in Readers, Assembling(r), NEW k, k = call[r].k
  PROVE  /\ k \in 1..Len(in.blocks)
         /\ clip(r) \in Nat /\ clip(r) <= call[r].remaining /\ clip(r) = Share(in, k)
         /\ \A w : w = 0 => Len(call[r].out) = Base(k) + w
         /\ Len(call[r].out) + clip(r) = Min({in.size, Base(k + 1)})
<1>1. call[r].at = "readFile" /\ k <= Len(in.blocks)
  BY DEF Assembling
<1>2. PICK b \in Nat \ {0} : b = BlockSize
  BY BlockSizeAssumption
<1>3. PICK z \in Nat, o \in Nat, l \in Nat, m \in Nat :
        z = in.size /\ o = Len(call[r].out) /\ l = Len(in.blocks) /\ m = call[r].remaining
  BY <1>1, FileCall
<1>4. PICK q \in Nat : q = k - 1 /\ q + 1 <= l /\ k \in 1..l
  <2>1. k \in 1..(l + 1) /\ k <= l
    BY <1>1, <1>3, FileCall
  <2> QED
    BY <2>1
<1>5. PICK Q \in Nat : Q = q * b /\ Q = Base(k) /\ Q + b = Base(k + 1)
  <2>1. q * b \in Nat /\ (q + 1) * b = q * b + b /\ (k + 1) - 1 = q + 1
    BY <1>4
  <2> QED
    BY <1>2, <1>4, <2>1, Zenon DEF Base
<1>6. o = Min({z, Q}) /\ o + m = z
  BY <1>1, <1>3, <1>5, FileCall
<1>7. Q < z
  <2>1. l * b \in Nat /\ l * b <= z + b - 1
    BY <1>2, <1>3, InodeIs DEF Inv
  <2>2. (q + 1) * b <= l * b
    BY <1>4
  <2>3. (q + 1) * b = Q + b
    BY <1>5
  <2> QED
    BY <2>1, <2>2, <2>3
<1>8. o = Q /\ m = z - Q
  BY <1>6, <1>7, MinOf
<1>9. PICK c \in Nat : c = clip(r) /\ c = Min({b, z - Q}) /\ c = IF b <= z - Q THEN b ELSE z - Q
  <2>1. clip(r) = Min({b, z - Q})
    BY <1>2, <1>3, <1>8 DEF clip
  <2> QED
    BY <1>7, <2>1, MinOf
<1>10. o + c = Min({z, Q + b})
  BY <1>8, <1>9, MinOf
<1>11. c <= m
  BY <1>8, <1>9
<1>12. \A w : w = 0 => o = Q + w
  BY <1>8
<1>13. c = Share(in, k)
  BY <1>2, <1>3, <1>5, <1>9, Zenon DEF Share
<1> QED
  BY <1>3, <1>4, <1>5, <1>9, <1>10, <1>11, <1>12, <1>13, Zenon

\* What is appended is no longer remaining.
LEMMA Shift ==
  ASSUME NEW a \in Nat, NEW x \in Nat, NEW n \in Nat, n <= x
  PROVE  x - n \in Nat /\ (a + n) + (x - n) = a + x
OBVIOUS

\* A block is appended.
LEMMA Appends ==
  ASSUME Inv, NEW r \in Readers, Assembling(r), NEW d,
         append(r, d, Stored(in, call[r].k)), Part(in, Len(call[r].out), d, clip(r))
  PROVE  Inv'
<1> DEFINE c == call[r]
           e == [c EXCEPT !.out = @ \o d, !.k = @ + 1, !.off = @ + Stored(in, c.k),
                          !.remaining = @ - Len(d)]
<1>1. c.at = "readFile"
  BY DEF Assembling
<1>2. /\ c \in FileCalls /\ in \in Inodes /\ Plausible(in) /\ c.out \in Seq(Nat)
      /\ Len(c.out) \in Nat /\ c.remaining \in Nat /\ Len(c.out) + c.remaining = in.size
      /\ c.off = BlockStart(in, c.k) /\ FileBytes(in, 0, c.out) /\ in.size \in Nat
  BY <1>1, FileCall
<1>3. PICK n \in Nat : n = clip(r) /\ n <= c.remaining /\ n = Len(d)
  BY AssemblyAt DEF Part
<1>4. /\ c.k \in 1..Len(in.blocks) /\ Len(in.blocks) \in Nat
      /\ Len(c.out) + n = Min({in.size, Base(c.k + 1)})
  BY <1>1, <1>3, AssemblyAt, FileCall
<1>5. PICK s \in Seq(Nat) : s = c.out \o d /\ Len(s) = Len(c.out) + n /\ FileBytes(in, 0, s)
  <2>0. 0 \in Int /\ 0 + Len(c.out) = Len(c.out)
    BY <1>2, FromStart, Zenon
  <2>1. PICK o \in Int, u \in Seq(Nat) : o = 0 /\ u = c.out /\ o + Len(u) = Len(u)
    BY <1>2, <2>0, Zenon
  <2>2. FileBytes(in, o, u) /\ Part(in, o + Len(u), d, n)
    BY <1>2, <1>3, <2>1
  <2>3. Part(in, o, u \o d, Len(u) + n)
    BY <2>2, Extends
  <2> QED
    BY <2>1, <2>3, Zenon DEF Part
<1>6. PICK y \in Nat, o \in Int, m \in Nat :
        /\ y = c.k + 1 /\ o = c.off + Stored(in, c.k) /\ m = c.remaining - n
        /\ o = BlockStart(in, y) /\ y \in 1..(Len(in.blocks) + 1) /\ Len(s) + m = in.size
  <2>1. c.k \in 1..(Len(in.blocks) + 1) /\ c.k + 1 \in 1..(Len(in.blocks) + 1) /\ c.k + 1 \in Nat
    BY <1>4, NextIndex, Zenon
  <2>2. /\ Stored(in, c.k) \in Nat /\ BlockStart(in, c.k) \in Int
        /\ BlockStart(in, c.k + 1) = BlockStart(in, c.k) + Stored(in, c.k)
    BY <1>2, <1>4, <2>1, StartNext, StartInt
  <2>3. c.off + Stored(in, c.k) \in Int /\ c.off + Stored(in, c.k) = BlockStart(in, c.k + 1)
    BY <1>2, <2>2, PlusInt, Zenon
  <2>4. c.remaining - n \in Nat /\ Len(s) + (c.remaining - n) = in.size
    <3>1. PICK a \in Nat, x \in Nat, z \in Nat :
            a = Len(c.out) /\ x = c.remaining /\ z = in.size /\ a + x = z /\ Len(s) = a + n /\ n <= x
      BY <1>2, <1>3, <1>5
    <3>2. n <= x
      BY <3>1
    <3>3. x - n \in Nat /\ (a + n) + (x - n) = a + x
      BY <3>2, Shift, Zenon
    <3>4. c.remaining - n = x - n /\ Len(s) = a + n /\ a + x = in.size
      BY <3>1
    <3> QED
      BY <3>3, <3>4
  <2> QED
    BY <2>1, <2>3, <2>4, Zenon
<1>7. become(r, e)
  BY DEF append
<1>8. e = [c EXCEPT !.out = s, !.k = y, !.off = o, !.remaining = m]
  BY <1>3, <1>5, <1>6
<1> HIDE DEF e
<1>9. e \in FileCalls /\ e.at = "readFile" /\ e.out = s /\ e.k = y /\ e.off = o /\ e.remaining = m
  BY <1>1, <1>2, <1>8, Zenon DEF FileCalls
<1>10. Assembly(e)
  <2>1. Len(s) = Min({in.size, Base(y)})
    BY <1>4, <1>5, <1>6, Zenon
  <2> QED
    BY <1>2, <1>5, <1>6, <1>9, <2>1, Zenon DEF Assembly
<1>11. WholeInv(e)
  <2>1. e.at # "returned"
    BY <1>9
  <2> QED
    BY <1>9, <1>10, <2>1 DEF WholeInv
<1> QED
  BY <1>7, <1>11, Becomes

\* One block of the assembly loop.
LEMMA ReadFileBlockKeeps ==
  ASSUME Inv, NEW r \in Readers, ReadFileBlock(r)
  PROVE  Inv'
<1>1. Assembling(r) /\ call[r].at = "readFile"
  BY DEF ReadFileBlock, Assembling
<1>2. PICK o \in Nat : /\ o = Len(call[r].out) /\ in \in Inodes /\ Plausible(in)
                       /\ call[r].off = BlockStart(in, call[r].k)
  BY <1>1, FileCall
<1>3. PICK k \in 1..Len(in.blocks) : k = call[r].k
  BY <1>1, AssemblyAt
<1>4. PICK n \in Nat, w \in Nat : n = clip(r) /\ n = Share(in, k) /\ w = 0 /\ w + n <= n
  <2>1. PICK n \in Nat : n = clip(r) /\ n = Share(in, k)
    BY <1>1, <1>3, AssemblyAt, Zenon
  <2>2. 0 \in Nat /\ 0 + n <= n
    OBVIOUS
  <2> QED
    BY <2>1, <2>2
<1>5. o = Base(k) + w
  BY <1>1, <1>2, <1>3, <1>4, AssemblyAt, Zenon
<1>6. /\ Stored(in, k) = 0 => Part(in, o, Zeros(n), n)
      /\ Stored(in, k) # 0 =>
           \A d \in readBlock(BlockStart(in, k), in.blocks[k]) :
             \/ d.err = "ioerr"
             \/ d.err = "corrupt" /\ ~GoodBlock(in, k)
             \/ d.err = "nil" /\ Len(d.data) < n /\ ~GoodBlock(in, k)
             \/ d.err = "nil" /\ ~(Len(d.data) < n) /\ Part(in, o, Slice(d.data, w, n), n)
  <2>1. PICK sh \in Nat : sh = n /\ sh = Share(in, k) /\ w + n <= sh
    BY <1>4, Zenon
  <2>2. /\ Stored(in, k) = 0 => Part(in, o, Zeros(n), n)
        /\ Stored(in, k) # 0 =>
             \A d \in readBlock(BlockStart(in, k), in.blocks[k]) :
               \/ d.err = "ioerr"
               \/ d.err = "corrupt" /\ ~GoodBlock(in, k)
               \/ d.err = "nil" /\ Len(d.data) < sh /\ ~GoodBlock(in, k)
               \/ d.err = "nil" /\ ~(Len(d.data) < sh) /\ Part(in, o, Slice(d.data, w, n), n)
    BY <1>2, <1>5, <2>1, BlockCopy, Zenon
  <2> QED
    BY <2>1, <2>2, Zenon
<1>7. blockOnDiskBytes(in.blocks[k]) = Stored(in, k)
  BY DEF Stored
<1>8. CASE Stored(in, k) = 0
  <2>1. append(r, Zeros(n), Stored(in, call[r].k))
    BY <1>3, <1>4, <1>7, <1>8 DEF ReadFileBlock
  <2> QED
    BY <1>1, <1>2, <1>4, <1>6, <1>8, <2>1, Appends, Zenon
<1>9. CASE Stored(in, k) # 0
  <2>1. PICK d \in readBlock(BlockStart(in, k), in.blocks[k]) : AppendBlock(r, d)
    BY <1>2, <1>3, <1>7, <1>9 DEF ReadFileBlock
  <2>2. CASE d.err = "ioerr"
    <3>1. fail(r, "ioerr")
      BY <2>1, <2>2 DEF AppendBlock
    <3> QED
      BY <1>1, <3>1, Fails
  <2>3. CASE (d.err = "corrupt" \/ (d.err = "nil" /\ Len(d.data) < n)) /\ ~GoodBlock(in, k)
    <3>1. fail(r, "corrupt")
      BY <1>4, <2>1, <2>3 DEF AppendBlock
    <3>2. \E p \in 0..(in.size - 1) : ~Readable(in, p)
      BY <1>2, <2>3, BadBlock, Zenon
    <3> QED
      BY <1>1, <3>1, <3>2, Fails
  <2>4. CASE d.err = "nil" /\ ~(Len(d.data) < n) /\ Part(in, o, Slice(d.data, w, n), n)
    <3>1. append(r, Slice(d.data, w, n), Stored(in, call[r].k))
      BY <1>3, <1>4, <1>7, <2>1, <2>4, Zenon DEF AppendBlock
    <3> QED
      BY <1>1, <1>2, <1>4, <2>4, <3>1, Appends, Zenon
  <2> QED
    BY <1>6, <1>9, <2>2, <2>3, <2>4
<1> QED
  BY <1>8, <1>9

\* The end of the assembly, in arithmetic: what is left of the file is what lies behind
\* the block list.
LEMMA AssembledAt ==
  ASSUME Inv, NEW r \in Readers, Assembled(r), NEW T \in Nat, T = ListEnd(in)
  PROVE  call[r].remaining # 0 =>
           Len(call[r].out) = T /\ T < in.size /\ call[r].remaining = in.size - T
<1>1. call[r].at = "readFile" /\ call[r].k > Len(in.blocks)
  BY DEF Assembled
<1>2. PICK z \in Nat, o \in Nat, l \in Nat, m \in Nat :
        z = in.size /\ o = Len(call[r].out) /\ l = Len(in.blocks) /\ m = call[r].remaining
  BY <1>1, FileCall
<1>3. call[r].k - 1 = l
  <2>1. call[r].k \in 1..(l + 1) /\ call[r].k > l
    BY <1>1, <1>2, FileCall
  <2> QED
    BY <2>1
<1>4. o = Min({z, T}) /\ o + m = z
  <2>1. Base(call[r].k) = T
    BY <1>2, <1>3, Zenon DEF Base, ListEnd
  <2> QED
    BY <1>1, <1>2, <2>1, FileCall
<1>5. o = IF z <= T THEN z ELSE T
  BY <1>4, MinOf
<1>6. m # 0 => o = T /\ T < z /\ m = z - T
  BY <1>4, <1>5
<1> QED
  BY <1>2, <1>6

\* The tail fragment, and the check of the assembled length.
LEMMA ReadFileTailKeeps ==
  ASSUME Inv, NEW r \in Readers, ReadFileTail(r)
  PROVE  Inv'
<1>1. Assembled(r) /\ call[r].at = "readFile"
  BY DEF ReadFileTail, Assembled
<1>2. PICK z \in Nat, m \in Nat, s \in Seq(Nat) :
        /\ z = in.size /\ m = call[r].remaining /\ s = call[r].out /\ Len(s) + m = z
        /\ in \in Inodes /\ Plausible(in) /\ FileBytes(in, 0, s)
  BY <1>1, FileCall
<1>3. PICK T \in Nat, g \in Nat : T = ListEnd(in) /\ g = in.fragOffset
  BY <1>2, InodeIs DEF ListEnd
<1>4. m # 0 => Len(s) = T /\ T < z /\ m = z - T
  BY <1>1, <1>2, <1>3, AssembledAt
<1>5. m # 0 => T \in 0..(in.size - 1) /\ T >= T
  BY <1>2, <1>4
<1>6. CASE NoTail(r)
  <2>1. finish(r, s)
    BY <1>2, <1>6 DEF ReadFileTail
  <2>2. ASSUME Len(s) # in.size
        PROVE  \E p \in 0..(in.size - 1) : ~Readable(in, p)
    <3>1. m # 0
      BY <1>2, <2>2
    <3>2. in.fragIdx = NoFrag
      BY <1>2, <1>6, <3>1 DEF NoTail
    <3>3. T \div BlockSize >= Len(in.blocks)
      <4>1. Len(in.blocks) \in Nat /\ BlockSize \in Nat \ {0}
        BY <1>2, InodeIs, BlockSizeAssumption
      <4> QED
        BY <1>3, <1>5, <3>1, <4>1, PastBlocks, Zenon DEF ListEnd
    <3>4. ~Readable(in, T)
      BY <1>2, <3>2, <3>3, BadTail
    <3> QED
      BY <1>5, <3>1, <3>4
  <2> QED
    BY <1>1, <1>2, <2>1, <2>2, Finishes
<1>7. CASE ~NoTail(r)
  <2>1. m # 0 /\ in.fragIdx # NoFrag
    BY <1>2, <1>7 DEF NoTail
  <2>2. PICK d \in readFragment(in.fragIdx) : AppendTail(r, d)
    BY <1>7 DEF ReadFileTail
  <2>3. T + m <= in.size /\ T >= T
    BY <1>2, <1>4, <2>1
  <2>4. \/ d.err = "ioerr"
        \/ d.err = "corrupt" /\ \A p \in Nat : p >= T => ~Readable(in, p)
        \/ /\ d.err = "nil" /\ in.fragOffset + (in.size - T) > Len(d.data)
           /\ \A p \in Nat : p >= T => ~Readable(in, p)
        \/ /\ d.err = "nil" /\ ~(in.fragOffset + (in.size - T) > Len(d.data))
           /\ Part(in, T, Slice(d.data, in.fragOffset + (T - T), m), m)
    BY <1>2, <1>3, <2>1, <2>3, TailCopy, Zenon
  <2>5. in.fragOffset + (in.size - T) = g + m /\ in.fragOffset + (T - T) = g
    BY <1>2, <1>3, <1>4, <2>1
  <2>6. CASE d.err = "ioerr"
    <3>1. fail(r, "ioerr")
      BY <2>2, <2>6 DEF AppendTail
    <3> QED
      BY <1>1, <3>1, Fails
  <2>7. CASE /\ d.err = "corrupt" \/ (d.err = "nil" /\ g + m > Len(d.data))
             /\ \A p \in Nat : p >= T => ~Readable(in, p)
    <3>1. fail(r, "corrupt")
      BY <1>2, <1>3, <2>2, <2>7, Zenon DEF AppendTail, tailAt
    <3>2. \E p \in 0..(in.size - 1) : ~Readable(in, p)
      BY <1>5, <2>1, <2>7, Zenon
    <3> QED
      BY <1>1, <3>1, <3>2, Fails
  <2>8. CASE d.err = "nil" /\ ~(g + m > Len(d.data)) /\ Part(in, T, Slice(d.data, g, m), m)
    <3>1. finish(r, s \o Slice(d.data, g, m))
      BY <1>2, <1>3, <2>2, <2>8, Zenon DEF AppendTail, tailAt
    <3>2. PICK u \in Seq(Nat) : /\ u = s \o Slice(d.data, g, m) /\ Len(u) = Len(s) + m
                                /\ FileBytes(in, 0, u)
      <4>1. PICK o \in Int : o = 0 /\ o + Len(s) = T
        BY <1>4, <2>1
      <4>2. Part(in, o, s \o Slice(d.data, g, m), Len(s) + m)
        BY <1>2, <2>8, <4>1, Extends, Zenon
      <4> QED
        BY <4>1, <4>2, Zenon DEF Part
    <3>3. Len(u) = in.size
      BY <1>2, <3>2
    <3> QED
      BY <1>1, <3>1, <3>2, <3>3, Finishes
  <2> QED
    BY <2>4, <2>5, <2>6, <2>7, <2>8
<1> QED
  BY <1>6, <1>7

\* The checks of ReadFileLimit before the assembly.
LEMMA ReadFileKeeps ==
  ASSUME Inv, NEW r \in Readers, NEW max \in Ceilings, ReadFile(r, max)
  PROVE  Inv'
<1> DEFINE c == [at |-> "readFile", max |-> max, k |-> 1, off |-> int64(in.start),
                 remaining |-> in.size, out |-> <<>>, err |-> "nil"]
           early == IF in.size > maxBytes THEN "corrupt"
                    ELSE IF max >= 0 /\ in.size > max THEN "too large"
                    ELSE IF ExtentsRefused THEN "corrupt" ELSE "nil"
           e == IF early = "nil" THEN c ELSE [c EXCEPT !.at = "returned", !.err = early]
<1>1. max \in Int /\ in.size \in Nat /\ in \in Inodes /\ int64(in.start) \in Int
  BY SizesAssumption, InodeIs DEF Inv
<1>2. become(r, e)
  BY DEF ReadFile
<1>3. early \in {"corrupt", "too large", "nil"}
  OBVIOUS
<1>4. early = "too large" => max >= 0 /\ in.size > max
  OBVIOUS
<1>5. early = "nil" => ~(in.size > maxBytes)
  OBVIOUS
<1>6. early = "corrupt" => in.size > maxBytes \/ ExtentsRefused
  OBVIOUS
<1> HIDE DEF early
<1>7. PICK B \in Nat : B = maxBytes /\ B > 0
  <2>1. PICK b \in Nat \ {0}, l \in Nat : b = BlockSize /\ l = Len(in.blocks)
    BY <1>1, InodeIs, BlockSizeAssumption
  <2>2. (l + 1) * b \in Nat /\ (l + 1) * b > 0
    OBVIOUS
  <2> QED
    BY <2>1, <2>2 DEF maxBytes
<1>8. Plausible(in) <=> ~(in.size > maxBytes)
  BY <1>1, <1>7 DEF Plausible, maxBytes
<1>9. early = "corrupt" => \E p \in 0..(in.size - 1) : ~Readable(in, p)
  <2>1. CASE in.size > maxBytes
    <3>1. 0 \in 0..(in.size - 1)
      BY <1>1, <1>7, <2>1
    <3>2. ~Readable(in, 0)
      BY <1>8, <2>1 DEF Readable
    <3> QED
      BY <3>1, <3>2
  <2>2. CASE ExtentsRefused
    <3>1. PICK k \in 1..Len(in.blocks) :
            LET n == blockOnDiskBytes(in.blocks[k])
            IN  n > 0 /\ (n > BlockSize \/ OutsideImage(blockOffsets[k], n))
      BY <2>2 DEF ExtentsRefused
    <3>2. PICK n \in Nat : n = Stored(in, k)
      BY <1>1, StartNext
    <3>3. n > 0 /\ (n > BlockSize \/ OutsideImage(BlockStart(in, k), n))
      <4>1. blockOffsets[k] = BlockStart(in, k)
        BY <1>1, OffsetsAre
      <4> QED
        BY <3>1, <3>2, <4>1 DEF Stored
    <3>4. ~GoodBlock(in, k)
      <4>1. n # 0 /\ ~(n <= BlockSize /\ ~OutsideImage(BlockStart(in, k), n))
        BY <3>3, BlockSizeAssumption
      <4> QED
        BY <3>2, <4>1 DEF GoodBlock
    <3> QED
      BY <1>1, <3>4, BadBlock, Zenon
  <2> QED
    BY <1>6, <2>1, <2>2
<1>10. <<>> \in Seq(Nat)
  BY EmptyIsSeq
<1>11. CASE early = "nil"
  <2>1. e = c
    BY <1>11
  <2> HIDE DEF e
  <2>2. /\ e \in FileCalls /\ e.at = "readFile" /\ e.out = <<>> /\ e.k = 1
        /\ e.off = int64(in.start) /\ e.remaining = in.size
    BY <1>1, <1>10, <2>1 DEF FileCalls, Errors
  <2>3. Len(e.out) = 0 /\ FileBytes(in, 0, e.out)
    BY <2>2 DEF FileBytes
  <2>4. Min({in.size, Base(e.k)}) = 0
    <3>1. Base(e.k) = 0
      BY <2>2, BlockSizeAssumption DEF Base
    <3>2. Min({in.size, 0}) = 0
      BY <1>1, MinOf
    <3> QED
      BY <3>1, <3>2
  <2>5. e.off = BlockStart(in, e.k) /\ e.k \in 1..(Len(in.blocks) + 1)
    <3>1. Len(in.blocks) \in Nat
      BY <1>1, InodeIs
    <3> QED
      BY <1>1, <2>2, <3>1, StartNext
  <2>6. Assembly(e)
    BY <1>1, <1>5, <1>8, <1>11, <2>2, <2>3, <2>4, <2>5 DEF Assembly
  <2>7. e.at # "returned"
    BY <2>2
  <2>8. WholeInv(e)
    BY <2>2, <2>6, <2>7 DEF WholeInv
  <2> QED
    BY <1>2, <2>8, Becomes
<1>12. CASE early # "nil"
  <2>1. e = [c EXCEPT !.at = "returned", !.err = early]
    BY <1>12
  <2> HIDE DEF e
  <2>2. e = [at |-> "returned", max |-> max, k |-> 1, off |-> int64(in.start),
             remaining |-> in.size, out |-> <<>>, err |-> early]
    BY <2>1, Zenon
  <2>3. early \in Errors
    BY <1>3 DEF Errors
  <2>4. e \in FileCalls /\ e.at = "returned" /\ e.out = <<>> /\ e.err = early /\ e.max = max
    BY <1>1, <1>10, <2>2, <2>3 DEF FileCalls
  <2>5. e.at # "readFile"
    BY <2>4
  <2>6. WholeInv(e)
    BY <1>4, <1>9, <1>12, <2>4, <2>5 DEF WholeInv
  <2> QED
    BY <1>2, <2>6, Becomes
<1> QED
  BY <1>11, <1>12

-----------------------------------------------------------------------------
\* Before its first call a reader has read nothing.
LEMMA InitInv == Init => Inv
BY Zenon DEF Init, Inv

\* Opening refuses exactly the implausible inodes.
LEMMA OpenKeeps ==
  ASSUME Inv, OpenFile
  PROVE  Inv'
<1>1. in' = in /\ closed' = closed /\ call' = call /\ file = "unopened"
  BY DEF OpenFile
<1>2. closed = FALSE
  BY <1>1 DEF Inv
<1>3. /\ file' \in {"opened", "refused"}
      /\ file' = "opened" <=> ~(in.size > maxBytes)
      /\ file' = "refused" <=> in.size > maxBytes
  BY DEF OpenFile
<1>4. Plausible(in) <=> ~(in.size > maxBytes)
  <2>1. PICK b \in Nat \ {0}, l \in Nat, z \in Nat : b = BlockSize /\ l = Len(in.blocks) /\ z = in.size
    BY InodeIs, BlockSizeAssumption, Zenon DEF Inv
  <2>2. (l + 1) * b \in Nat
    OBVIOUS
  <2>3. z <= (l + 1) * b <=> ~(z > (l + 1) * b)
    BY <2>2
  <2> QED
    BY <2>1, <2>3 DEF Plausible, maxBytes
<1>5. ASSUME NEW r \in Readers
      PROVE  call'[r] = Idle \/ AtInv(call[r])' \/ WholeInv(call[r])'
  <2>1. call[r] = Idle \/ AtInv(call[r]) \/ WholeInv(call[r])
    BY DEF Inv
  <2>2. ~AtInv(call[r])
    BY <1>1 DEF AtInv
  <2>3. WholeInv(call[r]) => WholeInv(call[r])'
    BY <1>1 DEF WholeInv, Assembly, FileBytes
  <2> QED
    BY <1>1, <2>1, <2>2, <2>3
<1> QED
  BY <1>1, <1>2, <1>3, <1>4, <1>5 DEF Inv

\* A Close overtakes any number of calls.
LEMMA CloseKeeps ==
  ASSUME Inv, Close
  PROVE  Inv'
<1>1. in' = in /\ file' = file /\ call' = call /\ file = "opened" /\ closed' = TRUE
  BY DEF Close
<1>2. ASSUME NEW r \in Readers
      PROVE  call'[r] = Idle \/ AtInv(call[r])' \/ WholeInv(call[r])'
  <2>1. call[r] = Idle \/ AtInv(call[r]) \/ WholeInv(call[r])
    BY DEF Inv
  <2>2. AtInv(call[r]) => AtInv(call[r])'
    BY <1>1 DEF AtInv, FileBytes
  <2>3. WholeInv(call[r]) => WholeInv(call[r])'
    BY <1>1 DEF WholeInv, Assembly, FileBytes
  <2> QED
    BY <1>1, <2>1, <2>2, <2>3
<1> QED
  BY <1>1, <1>2 DEF Inv

\* Every step of every reader keeps the inductive invariant.
LEMMA NextInv == Inv /\ [Next]_vars => Inv'
<1> SUFFICES ASSUME Inv, [Next]_vars PROVE Inv'
  OBVIOUS
<1>1. CASE OpenFile
  BY <1>1, OpenKeeps
<1>2. CASE Close
  BY <1>2, CloseKeeps
<1>3. ASSUME NEW r \in Readers, Step(r) PROVE Inv'
  <2>1. CASE ReadAtEnds(r)
    BY <2>1, ReadAtEndsKeeps
  <2>2. CASE ReadAtFragment(r)
    BY <2>2, ReadAtFragmentKeeps
  <2>3. CASE ReadAtBlock(r)
    BY <2>3, ReadAtBlockKeeps
  <2>4. CASE ReadFileBlock(r)
    BY <2>4, ReadFileBlockKeeps
  <2>5. CASE ReadFileTail(r)
    BY <2>5, ReadFileTailKeeps
  <2> QED
    BY <1>3, <2>1, <2>2, <2>3, <2>4, <2>5 DEF Step
<1>4. ASSUME NEW r \in Readers, Take(r) PROVE Inv'
  BY <1>4, Becomes DEF Take
<1>5. ASSUME NEW r \in Readers, NEW off \in Offsets, NEW len \in Lengths, ReadAt(r, off, len)
      PROVE  Inv'
  BY <1>5, ReadAtKeeps
<1>6. ASSUME NEW r \in Readers, NEW max \in Ceilings, ReadFile(r, max) PROVE Inv'
  BY <1>6, ReadFileKeeps
<1>7. CASE UNCHANGED vars
  <2>0. in' = in /\ file' = file /\ call' = call /\ closed' = closed
    BY <1>7 DEF vars
  <2>1. ASSUME NEW r \in Readers
        PROVE  call'[r] = Idle \/ AtInv(call[r])' \/ WholeInv(call[r])'
    <3>1. call[r] = Idle \/ AtInv(call[r]) \/ WholeInv(call[r])
      BY DEF Inv
    <3>2. AtInv(call[r]) => AtInv(call[r])'
      BY <2>0 DEF AtInv, FileBytes
    <3>3. WholeInv(call[r]) => WholeInv(call[r])'
      BY <2>0 DEF WholeInv, Assembly, FileBytes
    <3> QED
      BY <2>0, <3>1, <3>2, <3>3
  <2> QED
    BY <2>0, <2>1 DEF Inv
<1> QED
  BY <1>1, <1>2, <1>3, <1>4, <1>5, <1>6, <1>7 DEF Next

\* The invariant holds in every behaviour, whatever the readers do.
THEOREM Invariance == Spec => []Inv
BY InitInv, NextInv, PTL DEF Spec

\* The types, and with them that the unsigned remaining of readFileLimit never wraps.
THEOREM TypesHold == Spec => []TypeOK
<1>1. Inv => TypeOK
  <2> SUFFICES ASSUME Inv PROVE TypeOK
    OBVIOUS
  <2>1. ASSUME NEW r \in Readers, AtInv(call[r])
        PROVE  /\ call[r].at \in {"readAt", "readFile", "returned"}
               /\ call[r].out \in Seq(Nat)
               /\ call[r].err \in Errors
               /\ call[r].at # "readFile"
    BY <2>1 DEF AtInv, AtCalls
  <2>2. ASSUME NEW r \in Readers, WholeInv(call[r])
        PROVE  /\ call[r].at \in {"readAt", "readFile", "returned"}
               /\ call[r].out \in Seq(Nat)
               /\ call[r].err \in Errors
               /\ call[r].remaining \in Nat
               /\ call[r].at = "readFile" => Len(call[r].out) + call[r].remaining = in.size
    BY <2>2 DEF WholeInv, FileCalls, Assembly
  <2> QED
    BY <2>1, <2>2 DEF Inv, TypeOK, Errors
<1> QED
  BY <1>1, Invariance, PTL

\* The two kinds of call have different fields.
LEMMA AtDomain == \A c \in AtCalls : "max" \notin DOMAIN c
<1>1. ASSUME NEW c \in AtCalls PROVE DOMAIN c = {"at", "off", "len", "out", "err"}
  BY DEF AtCalls
<1>2. "max" \notin {"at", "off", "len", "out", "err"}
  OBVIOUS
<1> QED
  BY <1>1, <1>2, Zenon

\* A ReadFileLimit call carries no length, which tells it from a ReadAt call.
LEMMA FileDomain == \A c \in FileCalls : "len" \notin DOMAIN c
<1>1. ASSUME NEW c \in FileCalls
      PROVE  DOMAIN c = {"at", "max", "k", "off", "remaining", "out", "err"}
  BY DEF FileCalls
<1>2. "len" \notin {"at", "max", "k", "off", "remaining", "out", "err"}
  OBVIOUS
<1> QED
  BY <1>1, <1>2, Zenon

\* ReadAt is an io.ReaderAt on every image: also for damaged ones, and however
\* Close and the calls of other goroutines fall between its iterations.
THEOREM ReadAtIsReaderAt == Spec => []ReadAtContract
<1>1. Inv => ReadAtContract
  <2> SUFFICES ASSUME Inv, NEW r \in Readers, Returned(r, "len")
               PROVE  LET c == call[r]
                          n == Len(c.out)
                      IN  /\ n <= c.len
                          /\ n < c.len => c.err # "nil"
                          /\ \A j \in 1..n : /\ Readable(in, c.off + j - 1)
                                             /\ c.out[j] = Byte(in, c.off + j - 1)
                          /\ c.err = "EOF" => c.off + n >= in.size
                          /\ c.err = "corrupt" => c.off + n < in.size /\ ~Readable(in, c.off + n)
                          /\ c.err = "closed" => closed /\ n = 0
    BY DEF ReadAtContract
  <2>1. call[r].at = "returned" /\ "len" \in DOMAIN call[r]
    BY DEF Returned
  <2>2. call[r] # Idle
    BY <2>1 DEF Idle
  <2>3. ~WholeInv(call[r])
    BY <2>1, FileDomain DEF WholeInv
  <2>4. AtInv(call[r])
    BY <2>2, <2>3 DEF Inv
  <2>5. call[r].out = <<>> => Len(call[r].out) = 0
    OBVIOUS
  <2>6. /\ Len(call[r].out) <= call[r].len
        /\ Len(call[r].out) < call[r].len => call[r].err # "nil"
        /\ call[r].err = "EOF" => call[r].off + Len(call[r].out) >= in.size
        /\ call[r].err = "corrupt" => /\ call[r].off + Len(call[r].out) < in.size
                                     /\ ~Readable(in, call[r].off + Len(call[r].out))
        /\ call[r].err = "closed" => closed /\ call[r].out = <<>>
    BY <2>1, <2>4 DEF AtInv
  <2>7. \A j \in 1..Len(call[r].out) : /\ Readable(in, call[r].off + j - 1)
                                      /\ call[r].out[j] = Byte(in, call[r].off + j - 1)
    BY <2>4 DEF AtInv, FileBytes
  <2> QED
    BY <2>5, <2>6, <2>7, Zenon
<1> QED
  BY <1>1, Invariance, PTL

\* ReadFileLimit returns the whole file or nothing, and calls a file corrupt only
\* when a byte of it is missing.
THEOREM ReadFileIsExact == Spec => []ReadFileExact
<1>1. Inv => ReadFileExact
  <2> SUFFICES ASSUME Inv, NEW r \in Readers, Returned(r, "max")
               PROVE  LET c == call[r]
                      IN  /\ c.err = "nil" => /\ Len(c.out) = in.size
                                              /\ \A p \in 0..(in.size - 1) :
                                                   Readable(in, p) /\ c.out[p + 1] = Byte(in, p)
                          /\ c.err # "nil" => c.out = <<>>
                          /\ c.err = "corrupt" => \E p \in 0..(in.size - 1) : ~Readable(in, p)
                          /\ c.err = "too large" => c.max >= 0 /\ in.size > c.max
    BY DEF ReadFileExact
  <2>1. call[r].at = "returned" /\ "max" \in DOMAIN call[r]
    BY DEF Returned
  <2>2. call[r] # Idle
    BY <2>1 DEF Idle
  <2>3. ~AtInv(call[r])
    BY <2>1, AtDomain DEF AtInv
  <2>4. WholeInv(call[r])
    BY <2>2, <2>3 DEF Inv
  <2>5. ASSUME call[r].err = "nil", NEW p \in 0..(in.size - 1)
        PROVE  Readable(in, p) /\ call[r].out[p + 1] = Byte(in, p)
    <3>1. Len(call[r].out) = in.size /\ FileBytes(in, 0, call[r].out) /\ in.size \in Nat
      BY <2>1, <2>4, <2>5, InodeIs DEF WholeInv, Inv
    <3>2. PICK j \in 1..Len(call[r].out) : j = p + 1 /\ 0 + j - 1 = p
      BY <3>1
    <3> QED
      BY <3>1, <3>2 DEF FileBytes
  <2> QED
    BY <2>1, <2>4, <2>5 DEF WholeInv
<1> QED
  BY <1>1, Invariance, PTL

\* newFile and readFileLimit agree about which inodes are readable at all.
THEOREM OpenAgrees == Spec => []OpenAgreesWithReadFile
<1>1. Inv => OpenAgreesWithReadFile
  <2> SUFFICES ASSUME Inv, NEW r \in Readers, Returned(r, "max"), call[r].err = "nil"
               PROVE  file # "refused"
    BY DEF OpenAgreesWithReadFile
  <2>1. call[r].at = "returned" /\ "max" \in DOMAIN call[r]
    BY DEF Returned
  <2>2. call[r] # Idle
    BY <2>1 DEF Idle
  <2>3. ~AtInv(call[r])
    BY <2>1, AtDomain DEF AtInv
  <2>4. Plausible(in)
    BY <2>1, <2>2, <2>3 DEF Inv, WholeInv
  <2> QED
    BY <2>4 DEF Inv
<1> QED
  BY <1>1, Invariance, PTL
=============================================================================
