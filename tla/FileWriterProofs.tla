-------------------------- MODULE FileWriterProofs --------------------------
(***************************************************************************)
(* The file data of an image the writer builds, for every tree, every        *)
(* compressor and every block size: each file can be read back, its blocks    *)
(* from the data area and its tail from the fragment block it was packed in.  *)
(***************************************************************************)
EXTENDS FileWriter, DataLemmas

\* A block holds at least one byte.
LEMMA BlockSizeIs == BlockSize \in Nat \ {0}
BY WriterAssumption

\* The size word of a block gives back how many bytes it takes on disk.
LEMMA WordIs ==
  ASSUME NEW n \in 1..BlockSize, NEW s \in 1..n
  PROVE  sizeWord(n, s) \in Nat /\ Format!blockOnDiskBytes(sizeWord(n, s)) = s
<1>1. PICK b \in Nat, c \in Nat \ {0} : b = BlockSize /\ c = RawBit /\ b < c
  BY WriterAssumption
<1>2. n \in Nat /\ s \in Nat /\ n < c /\ s < c
  BY <1>1
<1>3. CASE s = n
  <2>1. sizeWord(n, s) = n + c
    BY <1>1, <1>3 DEF sizeWord
  <2>2. (1 * c + n) \div c = 1
    BY <1>2, DivMod
  <2>3. n + c \in Nat /\ (n + c) \div c = 1 /\ (n + c) - c = n
    BY <1>2, <2>2
  <2>4. PICK w \in Nat : w = n + c /\ w \div c = 1 /\ w - c = n
    BY <2>3
  <2>5. Format!blockOnDiskBytes(w) = n
    BY <1>1, <2>4 DEF Format!blockOnDiskBytes
  <2> QED
    BY <1>3, <2>1, <2>4, <2>5
<1>4. CASE s # n
  <2>1. sizeWord(n, s) = s
    BY <1>4 DEF sizeWord
  <2>2. (0 * c + s) \div c = 0
    BY <1>2, DivMod
  <2>3. s \div c = 0
    BY <1>2, <2>2
  <2>4. Format!blockOnDiskBytes(s) = s
    BY <1>1, <2>3 DEF Format!blockOnDiskBytes
  <2> QED
    BY <1>2, <2>1, <2>4
<1> QED
  BY <1>3, <1>4

\* Whatever the options, a block is not stored longer than it is.
LEMMA CompressIs ==
  ASSUME NEW n \in Nat \ {0}, NEW s \in compress(n)
  PROVE  s \in 1..n
BY DEF compress

\* How many bytes of a file of n bytes go into blocks of its own, and how many blocks.
LEMMA CutIs ==
  ASSUME NEW b \in Nat \ {0}, NEW n \in Nat, NEW f, f = n \/ f = (n \div b) * b
  PROVE  /\ f \in Nat /\ f <= n /\ n - f < b
         /\ (f + b - 1) \div b \in Nat /\ ((f + b - 1) \div b) * b \in Nat
         /\ f <= ((f + b - 1) \div b) * b /\ ((f + b - 1) \div b) * b <= f + b - 1
         /\ f < n => f = ((f + b - 1) \div b) * b
<1>1. PICK q \in Nat, r \in 0..(b - 1) : q = n \div b /\ n = q * b + r /\ q * b \in Nat
  BY DivOf, Zenon
<1>2. f \in Nat /\ f <= n /\ n - f < b
  BY <1>1
<1>3. f + b - 1 \in Nat
  BY <1>2
<1>4. PICK m \in Nat, t \in 0..(b - 1) :
        m = (f + b - 1) \div b /\ f + b - 1 = m * b + t /\ m * b \in Nat
  BY <1>3, DivOf, Zenon
<1>5. f <= m * b /\ m * b <= f + b - 1
  BY <1>2, <1>4
<1>6. f < n => f = m * b
  <2>1. f < n => f = q * b
    BY <1>1
  <2>2. q * b + (b - 1) = (q * b) + b - 1 /\ b - 1 \in 0..(b - 1)
    BY <1>1
  <2>3. (q * b + (b - 1)) \div b = q
    BY <2>2, DivMod
  <2>4. f = q * b => m = q
    BY <1>4, <2>2, <2>3
  <2> QED
    BY <2>1, <2>4
<1> QED
  BY <1>2, <1>4, <1>5, <1>6

\* The rest of a number.
LEMMA Rest ==
  ASSUME NEW a \in Nat, NEW n \in Nat, a <= n
  PROVE  \E c \in Nat : c = n - a /\ n = a + c /\ (c = 0 <=> a = n) /\ (a < n <=> c > 0)
<1>1. n - a \in Nat /\ n = a + (n - a) /\ (n - a = 0 <=> a = n) /\ (a < n <=> n - a > 0)
  OBVIOUS
<1> QED
  BY <1>1

\* Arithmetic on lengths and offsets.
LEMMA SumNatIs == \A a, b \in Nat : a + b \in Nat
OBVIOUS

\* Facts of arithmetic for the leaves about sequences: a natural number is an integer.
LEMMA NatIsInt == \A a \in Nat : a \in Int
OBVIOUS

\* What ends within a part ends within the whole.
LEMMA LeqTrans == \A a, t, m, x \in Nat : a + t <= m /\ m <= x => a + t <= x
OBVIOUS

\* A part of a sequence.
LEMMA SubSeqIs ==
  ASSUME NEW S, NEW s \in Seq(S), NEW a \in Nat, NEW n \in Nat, a + n <= Len(s)
  PROVE  /\ SubSeq(s, a + 1, a + n) \in Seq(S)
         /\ Len(SubSeq(s, a + 1, a + n)) = n
         /\ \A j \in 1..n : SubSeq(s, a + 1, a + n)[j] = s[a + j]
OBVIOUS

\* Sequences of the same length with the same elements.
LEMMA SameSeq ==
  ASSUME NEW s \in Seq(Nat), NEW t \in Seq(Nat), Len(s) = Len(t),
         \A j \in 1..Len(s) : s[j] = t[j]
  PROVE  s = t
<1>1. PICK n \in Nat : n = Len(s) /\ n = Len(t)
  OBVIOUS
<1>2. DOMAIN s = 1..n /\ DOMAIN t = 1..n
  BY <1>1
<1>3. s = [j \in 1..n |-> s[j]] /\ t = [j \in 1..n |-> t[j]]
  BY <1>1, <1>2
<1>4. \A j \in 1..n : s[j] = t[j]
  BY <1>1
<1> QED
  BY <1>3, <1>4

-----------------------------------------------------------------------------
\* The number of blocks of a file, and where block k begins in it.
Count(d) == (fullLen(d) + BlockSize - 1) \div BlockSize
From(k) == (k - 1) * BlockSize

\* The cut of a file in numbers.
LEMMA FileCut ==
  ASSUME NEW d \in Seq(Nat)
  PROVE  /\ fullLen(d) \in Nat /\ fullLen(d) <= Len(d) /\ Len(d) - fullLen(d) < BlockSize
         /\ Count(d) \in Nat /\ Count(d) * BlockSize \in Nat
         /\ fullLen(d) <= Count(d) * BlockSize
         /\ Count(d) * BlockSize <= fullLen(d) + BlockSize - 1
         /\ fullLen(d) < Len(d) => fullLen(d) = Count(d) * BlockSize
<1>1. fullLen(d) = Len(d) \/ fullLen(d) = (Len(d) \div BlockSize) * BlockSize
  BY DEF fullLen
<1>2. PICK b \in Nat \ {0}, n \in Nat, f \in {fullLen(d)} :
        b = BlockSize /\ n = Len(d) /\ f = fullLen(d)
  BY BlockSizeIs
<1>3. f = n \/ f = (n \div b) * b
  BY <1>1, <1>2
<1>4. Count(d) = (f + b - 1) \div b
  BY <1>2 DEF Count
<1> QED
  BY <1>2, <1>3, <1>4, CutIs, Zenon

\* Block k of a file.
LEMMA PieceIs ==
  ASSUME NEW d \in Seq(Nat), NEW k \in 1..Count(d)
  PROVE  /\ From(k) \in Nat /\ From(k) < fullLen(d)
         /\ blocksOf(d)[k] \in Seq(Nat)
         /\ Len(blocksOf(d)[k]) \in 1..BlockSize
         /\ Len(blocksOf(d)[k]) = Min({BlockSize, fullLen(d) - From(k)})
         /\ From(k) + Len(blocksOf(d)[k]) <= fullLen(d)
         /\ \A j \in 1..Len(blocksOf(d)[k]) : blocksOf(d)[k][j] = d[From(k) + j]
<1>1. PICK b \in Nat \ {0}, n \in Nat, f \in Nat, m \in Nat :
        b = BlockSize /\ n = Len(d) /\ f = fullLen(d) /\ m = Count(d) /\ f <= n
  <2>1. /\ BlockSize \in Nat \ {0} /\ Len(d) \in Nat /\ fullLen(d) \in Nat
        /\ Count(d) \in Nat /\ fullLen(d) <= Len(d)
    BY BlockSizeIs, FileCut
  <2> QED
    BY <2>1, Zenon
<1>2. m * b \in Nat /\ m * b <= f + b - 1
  BY <1>1, FileCut
<1>3. PICK q \in Nat : q = k - 1 /\ k = q + 1 /\ q + 1 <= m
  BY <1>1
<1>4. PICK F \in Nat : F = q * b
  OBVIOUS
<1>5. k * b = F + b /\ From(k) = F /\ F + b <= m * b
  <2>1. (q + 1) * b = F + b
    BY <1>4
  <2>2. (q + 1) * b <= m * b
    BY <1>3
  <2>3. k * b = F + b /\ From(k) = F
    BY <1>1, <1>3, <1>4, <2>1, Zenon DEF From
  <2> QED
    BY <2>1, <2>2, <2>3
<1>6. F < f
  BY <1>2, <1>5
<1>7. PICK e \in Nat : e = Min({k * b, f}) /\ e = IF F + b <= f THEN F + b ELSE f
  <2>1. PICK u \in Nat : u = F + b /\ u = k * b
    BY <1>5, Zenon, SumNatIs
  <2>2. Min({u, f}) = IF u <= f THEN u ELSE f
    BY MinOf, NatIsInt, Zenon
  <2>3. (IF u <= f THEN u ELSE f) \in Nat
    OBVIOUS
  <2> QED
    BY <2>1, <2>2, <2>3, Zenon
<1>8. blocksOf(d)[k] = SubSeq(d, F + 1, e)
  <2>1. blocksOf(d)[k] = SubSeq(d, (k - 1) * BlockSize + 1, Min({k * BlockSize, fullLen(d)}))
    BY Zenon DEF blocksOf, Count
  <2> QED
    BY <1>1, <1>3, <1>4, <1>7, <2>1, Zenon
<1>9. PICK c \in 1..b : e = F + c /\ F + c <= n /\ F + c <= f /\ c = Min({b, f - F})
  <2>1. f - F \in Int /\ Min({b, f - F}) = IF b <= f - F THEN b ELSE f - F
    BY MinOf
  <2>2. F <= e
    BY <1>6, <1>7
  <2>3. PICK c \in Nat : c = e - F /\ e = F + c
    BY <2>2, Rest, Zenon
  <2>4. c \in 1..b /\ c = (IF b <= f - F THEN b ELSE f - F) /\ F + c <= f /\ F + c <= n
    <3>1. e = (IF F + b <= f THEN F + b ELSE f) /\ f <= n
      BY <1>1, <1>7, Zenon
    <3> QED
      BY <1>6, <2>3, <3>1
  <2> QED
    BY <2>1, <2>3, <2>4
<1>10. c \in Nat /\ F + c <= Len(d)
  BY <1>1, <1>9
<1>11. PICK p \in Seq(Nat) : /\ p = SubSeq(d, F + 1, F + c) /\ Len(p) = c
                              /\ \A j \in 1..c : p[j] = d[F + j]
  <2>1. /\ SubSeq(d, F + 1, F + c) \in Seq(Nat) /\ Len(SubSeq(d, F + 1, F + c)) = c
        /\ \A j \in 1..c : SubSeq(d, F + 1, F + c)[j] = d[F + j]
    BY <1>10, SubSeqIs
  <2> QED
    BY <2>1, Zenon
<1> QED
  BY <1>1, <1>5, <1>6, <1>8, <1>9, <1>11, Zenon

\* The list of blocks.
LEMMA PiecesAre ==
  ASSUME NEW d \in Seq(Nat)
  PROVE  blocksOf(d) \in Seq(Seq(Nat)) /\ Len(blocksOf(d)) = Count(d)
<1>1. Count(d) \in Nat
  BY FileCut
<1>2. /\ DOMAIN blocksOf(d) = 1..Count(d)
      /\ blocksOf(d) = [k \in 1..Count(d) |-> blocksOf(d)[k]]
  BY Zenon DEF blocksOf, Count
<1>3. \A k \in 1..Count(d) : blocksOf(d)[k] \in Seq(Nat)
  BY PieceIs, Zenon
<1>4. PICK m \in Nat : m = Count(d)
  BY <1>1
<1>5. PICK s : s = blocksOf(d) /\ s \in [1..m -> Seq(Nat)]
  BY <1>2, <1>3, <1>4
<1>6. s \in Seq(Seq(Nat)) /\ Len(s) = m
  BY <1>5
<1> QED
  BY <1>4, <1>5, <1>6

\* The tail of a file.
LEMMA TailIs ==
  ASSUME NEW d \in Seq(Nat)
  PROVE  /\ tailOf(d) \in Seq(Nat)
         /\ Len(tailOf(d)) = Len(d) - fullLen(d) /\ Len(tailOf(d)) \in Nat
         /\ Len(tailOf(d)) < BlockSize
         /\ \A j \in 1..Len(tailOf(d)) : tailOf(d)[j] = d[fullLen(d) + j]
         /\ tailOf(d) = <<>> <=> fullLen(d) = Len(d)
<1>1. PICK n \in Nat, f \in Nat : n = Len(d) /\ f = fullLen(d) /\ f <= n
  BY FileCut
<1>2. PICK c \in Nat : c = n - f /\ n = f + c /\ (c = 0 <=> f = n)
  <2>1. f <= n
    BY <1>1
  <2>2. \E c \in Nat : c = n - f /\ n = f + c /\ (c = 0 <=> f = n) /\ (f < n <=> c > 0)
    BY <2>1, Rest
  <2> QED
    BY <2>2, Zenon
<1>3. PICK t \in Seq(Nat) : /\ t = tailOf(d) /\ Len(t) = c
                             /\ \A j \in 1..c : t[j] = d[f + j]
  <2>1. tailOf(d) = SubSeq(d, f + 1, f + c)
    BY <1>1, <1>2, Zenon DEF tailOf
  <2>2. f + c <= Len(d)
    BY <1>1, <1>2
  <2>3. /\ SubSeq(d, f + 1, f + c) \in Seq(Nat) /\ Len(SubSeq(d, f + 1, f + c)) = c
        /\ \A j \in 1..c : SubSeq(d, f + 1, f + c)[j] = d[f + j]
    BY <2>2, SubSeqIs
  <2> QED
    BY <2>1, <2>3, Zenon
<1>4. t = <<>> <=> c = 0
  BY <1>3
<1>6. n - f < BlockSize
  BY <1>1, FileCut
<1> QED
  BY <1>1, <1>2, <1>3, <1>4, <1>6, Zenon

\* Each byte of a file is in the block its offset falls into, or else in the tail.
LEMMA ByteIs ==
  ASSUME NEW d \in Seq(Nat), NEW p \in 0..(Len(d) - 1),
         NEW k \in Nat \ {0}, k = (p \div BlockSize) + 1
  PROVE  /\ k <= Count(d) =>
              /\ (p % BlockSize) + 1 \in 1..Len(blocksOf(d)[k])
              /\ blocksOf(d)[k][(p % BlockSize) + 1] = d[p + 1]
         /\ k > Count(d) =>
              /\ fullLen(d) < Len(d) /\ fullLen(d) <= p
              /\ (p - fullLen(d)) + 1 \in 1..Len(tailOf(d))
              /\ tailOf(d)[(p - fullLen(d)) + 1] = d[p + 1]
<1>1. PICK b \in Nat \ {0}, n \in Nat, f \in Nat, m \in Nat :
        b = BlockSize /\ n = Len(d) /\ f = fullLen(d) /\ m = Count(d) /\ f <= n
  <2>1. /\ BlockSize \in Nat \ {0} /\ Len(d) \in Nat /\ fullLen(d) \in Nat
        /\ Count(d) \in Nat /\ fullLen(d) <= Len(d)
    BY BlockSizeIs, FileCut
  <2> QED
    BY <2>1, Zenon
<1>2. PICK M \in Nat : M = m * b /\ f <= M /\ M <= f + b - 1 /\ (f < n => f = M)
  BY <1>1, FileCut
<1>3. p \in Nat /\ p < n
  BY <1>1
<1>4. PICK q \in Nat, w \in 0..(b - 1), Q \in Nat :
        q = p \div b /\ w = p % b /\ p = Q + w /\ Q = q * b
  BY <1>3, DivOf, Zenon
<1>5. k = q + 1 /\ k - 1 = q
  BY <1>1, <1>4
<1>6. ASSUME k <= m
      PROVE  w + 1 \in 1..Len(blocksOf(d)[k]) /\ blocksOf(d)[k][w + 1] = d[p + 1]
  <2>1. k \in 1..Count(d)
    BY <1>1, <1>6
  <2>2. PICK c \in Nat : c = Len(blocksOf(d)[k])
    <3>1. blocksOf(d)[k] \in Seq(Nat)
      BY <2>1, PieceIs, Zenon
    <3> QED
      BY <3>1
  <2>3. From(k) = Q
    BY <1>1, <1>4, <1>5 DEF From
  <2>4. c = Min({b, f - Q}) /\ \A j \in 1..c : blocksOf(d)[k][j] = d[Q + j]
    BY <1>1, <2>1, <2>2, <2>3, PieceIs, Zenon
  <2>5. Q + b <= M
    <3>1. (q + 1) * b <= m * b
      BY <1>5, <1>6
    <3>2. q * b = Q
      BY <1>4
    <3>3. (q + 1) * b = Q + b
      BY <3>2
    <3> QED
      BY <1>2, <3>1, <3>3
  <2>6. c = IF b <= f - Q THEN b ELSE f - Q
    BY <2>4, MinOf
  <2>7. w + 1 \in 1..c
    BY <1>2, <1>3, <1>4, <2>5, <2>6
  <2>8. Q + (w + 1) = p + 1
    BY <1>4
  <2> QED
    BY <2>2, <2>4, <2>7, <2>8, Zenon
<1>7. ASSUME k > m
      PROVE  /\ f < n /\ f <= p
             /\ (p - f) + 1 \in 1..Len(tailOf(d)) /\ tailOf(d)[(p - f) + 1] = d[p + 1]
  <2>1. Q >= M
    <3>1. q >= m
      BY <1>5, <1>7
    <3>2. q * b >= m * b
      BY <3>1
    <3> QED
      BY <1>2, <1>4, <3>2
  <2>2. f < n /\ f <= p
    BY <1>2, <1>3, <1>4, <2>1
  <2>3. PICK t \in Nat : t = Len(tailOf(d)) /\ t = n - f
    BY <1>1, TailIs
  <2>4. PICK j \in 1..t : j = (p - f) + 1 /\ f + j = p + 1
    BY <1>3, <2>2, <2>3
  <2>5. tailOf(d)[j] = d[f + j]
    BY <1>1, <2>3, TailIs, Zenon
  <2> QED
    BY <2>2, <2>3, <2>4, <2>5
<1> QED
  BY <1>1, <1>4, <1>6, <1>7, Zenon

\* The block list of a file is as long as its size calls for, and each block holds its
\* share of the file.
LEMMA CountIs ==
  ASSUME NEW d \in Seq(Nat)
  PROVE  /\ tailOf(d) = <<>> /\ Len(d) + BlockSize <= SizeLimit =>
              Format!blockCount(Len(d), FALSE) = Count(d)
         /\ tailOf(d) # <<>> => Format!blockCount(Len(d), TRUE) = Count(d)
         /\ Len(d) <= (Count(d) + 1) * BlockSize
<1>1. PICK b \in Nat \ {0}, n \in Nat, f \in Nat, m \in Nat :
        b = BlockSize /\ n = Len(d) /\ f = fullLen(d) /\ m = Count(d) /\ f <= n
  <2>1. /\ BlockSize \in Nat \ {0} /\ Len(d) \in Nat /\ fullLen(d) \in Nat
        /\ Count(d) \in Nat /\ fullLen(d) <= Len(d)
    BY BlockSizeIs, FileCut
  <2> QED
    BY <2>1, Zenon
<1>2. PICK M \in Nat : M = m * b /\ f <= M /\ (f < n => f = M) /\ n - f < b
  BY <1>1, FileCut
<1>3. ASSUME tailOf(d) = <<>>, n + b <= SizeLimit
      PROVE  Format!blockCount(n, FALSE) = m
  <2>1. f = n
    BY <1>1, <1>3, TailIs
  <2>2. m = (n + b - 1) \div b
    BY <1>1, <2>1 DEF Count
  <2>3. PICK L \in Nat \ {0} : L = SizeLimit
    BY WriterAssumption
  <2>4. (n + b - 1) % L = n + b - 1
    <3>1. n + b - 1 \in 0..(L - 1)
      BY <1>3, <2>3
    <3>2. (0 * L + (n + b - 1)) % L = n + b - 1
      BY <3>1, DivMod, Zenon
    <3> QED
      BY <3>2
  <2> QED
    BY <1>1, <2>2, <2>3, <2>4, Zenon DEF Format!blockCount
<1>4. ASSUME tailOf(d) # <<>>
      PROVE  Format!blockCount(n, TRUE) = m
  <2>1. f # n
    BY <1>1, <1>4, TailIs
  <2>2. PICK r \in 0..(b - 1) : n = m * b + r
    <3>1. f < n
      BY <1>1, <2>1
    <3>2. n - f \in 0..(b - 1) /\ n = M + (n - f)
      BY <1>2, <3>1
    <3> QED
      BY <1>2, <3>2
  <2>3. n \div b = m
    BY <2>2, DivMod
  <2> QED
    BY <1>1, <2>3 DEF Format!blockCount
<1>5. n <= (m + 1) * b
  <2>1. (m + 1) * b = M + b
    BY <1>2
  <2> QED
    BY <1>2, <2>1
<1> QED
  BY <1>1, <1>3, <1>4, <1>5, Zenon

\* Block k holds all that the file has at its place.
LEMMA ShareIs ==
  ASSUME NEW d \in Seq(Nat), NEW k \in 1..Count(d)
  PROVE  Len(blocksOf(d)[k]) = Min({BlockSize, Len(d) - From(k)})
<1>1. PICK b \in Nat \ {0}, n \in Nat, f \in Nat, m \in Nat, F \in Nat :
        /\ b = BlockSize /\ n = Len(d) /\ f = fullLen(d) /\ m = Count(d) /\ f <= n
        /\ F = From(k)
  <2>1. /\ BlockSize \in Nat \ {0} /\ Len(d) \in Nat /\ fullLen(d) \in Nat
        /\ Count(d) \in Nat /\ fullLen(d) <= Len(d)
    BY BlockSizeIs, FileCut
  <2>2. From(k) \in Nat
    BY PieceIs, Zenon
  <2> QED
    BY <2>1, <2>2, Zenon
<1>2. PICK M \in Nat : M = m * b /\ (f < n => f = M)
  BY <1>1, FileCut
<1>3. Len(blocksOf(d)[k]) = Min({b, f - F})
  BY <1>1, PieceIs, Zenon
<1>4. F + b <= M
  <2>1. PICK q \in Nat : q = k - 1 /\ q + 1 <= m
    BY <1>1
  <2>2. F = q * b
    BY <1>1, <2>1 DEF From
  <2>3. (q + 1) * b <= m * b
    BY <2>1
  <2>4. (q + 1) * b = F + b
    BY <2>2
  <2> QED
    BY <1>2, <2>3, <2>4
<1>5. Min({b, f - F}) = (IF b <= f - F THEN b ELSE f - F)
  BY MinOf
<1>6. Min({b, n - F}) = (IF b <= n - F THEN b ELSE n - F)
  BY MinOf
<1>7. Min({b, f - F}) = Min({b, n - F})
  <2>1. CASE f = n
    BY <2>1, Zenon
  <2>2. CASE f < n
    <3>1. F + b <= f
      BY <1>2, <1>4, <2>2, Zenon
    <3>2. b <= f - F /\ b <= n - F
      BY <2>2, <3>1
    <3> QED
      BY <1>5, <1>6, <3>2, Zenon
  <2>3. f <= n
    BY <1>1
  <2> QED
    BY <2>1, <2>2, <2>3
<1> QED
  BY <1>1, <1>3, <1>7, Zenon

-----------------------------------------------------------------------------
Blocks == [at : Nat, sizeWord : Nat, payload : Seq(Nat)]
Entries == [start : Nat, sizeWord : Nat]
Inodes == [start : Nat, size : Nat, blocks : Seq(Nat), fragIdx : Nat \cup {NoFrag},
           fragOffset : Nat]

\* The bytes a block takes on disk.
Taken(b) == Format!blockOnDiskBytes(b.sizeWord)

\* The data area dk of l bytes: whole blocks one behind the other.
Area(dk, l) ==
  /\ dk \in Seq(Blocks) /\ l \in Nat /\ DataStart <= l
  /\ \A q \in 1..Len(dk) : /\ DataStart <= dk[q].at /\ Len(dk[q].payload) \in 1..BlockSize
                           /\ Taken(dk[q]) \in 1..BlockSize /\ dk[q].at + Taken(dk[q]) <= l
  /\ \A q, u \in 1..Len(dk) : q < u => dk[q].at + Taken(dk[q]) <= dk[u].at

\* A block with payload p is at offset a, under size word w.
OnDisk(dk, a, w, p) ==
  \E q \in 1..Len(dk) : dk[q].at = a /\ dk[q].sizeWord = w /\ dk[q].payload = p

\* The blocks of file d are where inode i says, one behind the other from st on.
BlocksPlaced(dk, i, d) ==
  \E st \in Nat, s \in [1..Count(d) -> Nat] :
    /\ i.start = st % Width /\ Len(i.blocks) = Count(d)
    /\ \A k \in 1..Count(d) :
         /\ s[k] \in 1..Len(blocksOf(d)[k])
         /\ i.blocks[k] = sizeWord(Len(blocksOf(d)[k]), s[k])
         /\ OnDisk(dk, st + SumFunctionOnSet(s, 1..(k - 1)), i.blocks[k], blocksOf(d)[k])

\* The fragment block that index x names, pending or written.
FragmentIs(dk, ents, buf, x, p) ==
  /\ x = Len(ents) => p = buf
  /\ x # Len(ents) => OnDisk(dk, ents[x + 1].start, ents[x + 1].sizeWord, p)

\* The tail of file d is where inode i says.
TailPlaced(dk, ents, buf, i, d) ==
  IF tailOf(d) = <<>> THEN i.fragIdx = NoFrag
  ELSE /\ i.fragIdx \in 0..Len(ents)
       /\ \E p \in Seq(Nat) :
            /\ FragmentIs(dk, ents, buf, i.fragIdx, p)
            /\ i.fragOffset + Len(tailOf(d)) <= Len(p)
            /\ \A j \in 1..Len(tailOf(d)) : p[i.fragOffset + j] = tailOf(d)[j]

FileInv(i, d) == /\ i \in Inodes /\ i.size = Len(d) % Width
                 /\ BlocksPlaced(disk, i, d) /\ TailPlaced(disk, fragEntries, fragBuf, i, d)

\* The inductive invariant.
Inv == /\ files \in Trees /\ opts \in Options /\ done \in BOOLEAN
       /\ Area(disk, len)
       /\ fragBuf \in Seq(Nat) /\ Len(fragBuf) <= BlockSize
       /\ fragEntries \in Seq(Entries)
       /\ inodes \in Seq(Inodes) /\ Len(inodes) <= Len(files)
       /\ \A f \in 1..Len(inodes) : FileInv(inodes[f], files[f])
       /\ done => fragBuf = <<>> /\ fragTable = tableOf(fragEntries) /\ Len(inodes) = Len(files)

-----------------------------------------------------------------------------
\* A block the writer puts at offset a.
LEMMA BlockIs ==
  ASSUME NEW a \in Nat, NEW p \in Seq(Nat), Len(p) \in 1..BlockSize, NEW s \in 1..Len(p)
  PROVE  /\ BlockAt(a, p, s) \in Blocks
         /\ BlockAt(a, p, s).at = a /\ BlockAt(a, p, s).payload = p
         /\ BlockAt(a, p, s).sizeWord = sizeWord(Len(p), s)
         /\ Taken(BlockAt(a, p, s)) = s /\ s \in 1..BlockSize /\ s \in Nat
<1>1. sizeWord(Len(p), s) \in Nat /\ Format!blockOnDiskBytes(sizeWord(Len(p), s)) = s
  BY WordIs
<1>2. PICK w \in Nat : w = sizeWord(Len(p), s)
  BY <1>1
<1>3. BlockAt(a, p, s) = [at |-> a, sizeWord |-> w, payload |-> p]
  BY <1>2 DEF BlockAt
<1>4. s \in 1..BlockSize /\ s \in Nat
  BY BlockSizeIs
<1> QED
  BY <1>1, <1>2, <1>3, <1>4 DEF Blocks, Taken

\* The data area with a stretch of blocks added that begins where it ended.
LEMMA AreaGrows ==
  ASSUME NEW dk, NEW l, Area(dk, l), NEW x \in Seq(Blocks), NEW e \in Nat, l <= e,
         \A q \in 1..Len(x) : /\ l <= x[q].at /\ Len(x[q].payload) \in 1..BlockSize
                              /\ Taken(x[q]) \in 1..BlockSize /\ x[q].at + Taken(x[q]) <= e,
         \A q, u \in 1..Len(x) : q < u => x[q].at + Taken(x[q]) <= x[u].at
  PROVE  Area(dk \o x, e)
<1>1. /\ dk \in Seq(Blocks) /\ l \in Nat /\ DataStart <= l /\ DataStart \in Nat
      /\ Len(dk) \in Nat /\ Len(x) \in Nat
  BY WriterAssumption DEF Area
<1>2. /\ dk \o x \in Seq(Blocks) /\ Len(dk \o x) = Len(dk) + Len(x)
      /\ \A q \in 1..Len(dk) : (dk \o x)[q] = dk[q]
      /\ \A q \in 1..Len(x) : (dk \o x)[Len(dk) + q] = x[q]
  BY <1>1
<1>3. PICK y \in Seq(Blocks) : y = dk \o x
  BY <1>2, Zenon
<1>4. PICK n \in Nat, m \in Nat : n = Len(dk) /\ m = Len(x) /\ Len(y) = n + m
  BY <1>1, <1>2, <1>3
<1>5. \A q \in 1..(n + m) : q \in 1..n \/ (q - n \in 1..m /\ q = n + (q - n))
  OBVIOUS
<1>6. /\ \A q \in 1..n : y[q] = dk[q]
      /\ \A q \in 1..m : y[n + q] = x[q]
  BY <1>2, <1>3, <1>4
<1>7. \A q \in 1..(n + m) : \/ q \in 1..n /\ y[q] = dk[q]
                            \/ \E u \in 1..m : q = n + u /\ y[q] = x[u]
  BY <1>5, <1>6
<1>8. /\ \A q \in 1..n : dk[q].at \in Nat /\ Taken(dk[q]) \in Nat
      /\ \A q \in 1..m : x[q].at \in Nat /\ Taken(x[q]) \in Nat
  <2>1. /\ \A q \in 1..n : dk[q] \in Blocks /\ Taken(dk[q]) \in 1..BlockSize
        /\ \A q \in 1..m : x[q] \in Blocks /\ Taken(x[q]) \in 1..BlockSize
    BY <1>1, <1>4 DEF Area
  <2> QED
    BY <2>1, BlockSizeIs DEF Blocks
<1>9. ASSUME NEW q \in 1..(n + m)
      PROVE  /\ DataStart <= y[q].at /\ Len(y[q].payload) \in 1..BlockSize
             /\ Taken(y[q]) \in 1..BlockSize /\ y[q].at + Taken(y[q]) <= e
  <2>1. CASE q \in 1..n /\ y[q] = dk[q]
    <3>1. /\ DataStart <= dk[q].at /\ Len(dk[q].payload) \in 1..BlockSize
          /\ Taken(dk[q]) \in 1..BlockSize /\ dk[q].at + Taken(dk[q]) <= l
      BY <1>4, <2>1 DEF Area
    <3>2. dk[q].at + Taken(dk[q]) <= e
      <4>1. dk[q].at \in Nat /\ Taken(dk[q]) \in Nat
        BY <1>8, <2>1, Zenon
      <4> QED
        BY <1>1, <3>1, <4>1, LeqTrans, Zenon
    <3> QED
      BY <2>1, <3>1, <3>2, Zenon
  <2>2. CASE \E u \in 1..m : q = n + u /\ y[q] = x[u]
    <3>1. PICK u \in 1..m : y[q] = x[u]
      BY <2>2
    <3>2. /\ l <= x[u].at /\ Len(x[u].payload) \in 1..BlockSize
          /\ Taken(x[u]) \in 1..BlockSize /\ x[u].at + Taken(x[u]) <= e
      BY <1>4
    <3>3. DataStart <= x[u].at
      BY <1>1, <1>8, <3>2
    <3> QED
      BY <3>1, <3>2, <3>3, Zenon
  <2> QED
    BY <1>7, <2>1, <2>2
<1>10. ASSUME NEW q \in 1..(n + m), NEW u \in 1..(n + m), q < u
       PROVE  y[q].at + Taken(y[q]) <= y[u].at
  <2>1. CASE q \in 1..n /\ y[q] = dk[q] /\ u \in 1..n /\ y[u] = dk[u]
    <3>1. dk[q].at + Taken(dk[q]) <= dk[u].at
      BY <1>4, <1>10, <2>1 DEF Area
    <3> QED
      BY <2>1, <3>1, Zenon
  <2>2. CASE q \in 1..n /\ y[q] = dk[q] /\ \E v \in 1..m : u = n + v /\ y[u] = x[v]
    <3>1. PICK v \in 1..m : y[u] = x[v]
      BY <2>2
    <3>2. dk[q].at + Taken(dk[q]) <= l
      BY <1>4, <2>2 DEF Area
    <3>3. l <= x[v].at
      BY <1>4
    <3>4. dk[q].at + Taken(dk[q]) <= x[v].at
      <4>1. PICK A \in Nat, T \in Nat, X \in Nat :
              A = dk[q].at /\ T = Taken(dk[q]) /\ X = x[v].at /\ A + T <= l /\ l <= X
        BY <1>8, <2>2, <3>2, <3>3, Zenon
      <4>2. A + T <= X
        BY <1>1, <4>1, LeqTrans, Zenon
      <4> QED
        BY <4>1, <4>2
    <3> QED
      BY <2>2, <3>1, <3>4, Zenon
  <2>3. CASE \E v \in 1..m : q = n + v /\ y[q] = x[v]
    <3>1. PICK v \in 1..m : q = n + v /\ y[q] = x[v]
      BY <2>3
    <3>2. ~(u \in 1..n)
      BY <1>10, <3>1
    <3>3. PICK z \in 1..m : u = n + z /\ y[u] = x[z]
      BY <1>7, <3>2
    <3>4. v < z
      BY <1>10, <3>1, <3>3
    <3>5. x[v].at + Taken(x[v]) <= x[z].at
      BY <1>4, <3>4
    <3> QED
      BY <3>1, <3>3, <3>5, Zenon
  <2> QED
    BY <1>7, <2>1, <2>2, <2>3
<1>11. DataStart <= e
  BY <1>1
<1> QED
  BY <1>3, <1>4, <1>9, <1>10, <1>11, Zenon DEF Area

\* What is read at a block of the data area.
LEMMA ImageIs ==
  ASSUME Area(disk, len), NEW a, NEW w, NEW p, OnDisk(disk, a, w, p)
  PROVE  /\ DiskImage(a, w) = [err |-> "nil", data |-> p]
         /\ a \in Nat /\ Format!blockOnDiskBytes(w) \in 1..BlockSize
         /\ a + Format!blockOnDiskBytes(w) <= len
<1>1. PICK q \in 1..Len(disk) : disk[q].at = a /\ disk[q].sizeWord = w /\ disk[q].payload = p
  BY DEF OnDisk
<1>2. \A u \in 1..Len(disk) : disk[u].at \in Nat /\ Taken(disk[u]) \in 1..BlockSize
  <2>1. \A u \in 1..Len(disk) : disk[u] \in Blocks /\ Taken(disk[u]) \in 1..BlockSize
    BY DEF Area
  <2> QED
    BY <2>1 DEF Blocks
<1>3. ASSUME NEW u \in 1..Len(disk), disk[u].at = a
      PROVE  u = q
  <2>1. Len(disk) \in Nat
    BY DEF Area
  <2>2. PICK A \in Nat, T \in Nat, S \in Nat :
          /\ A = disk[u].at /\ A = disk[q].at /\ T = Taken(disk[u]) /\ S = Taken(disk[q])
          /\ T >= 1 /\ S >= 1
    BY <1>1, <1>2, <1>3, BlockSizeIs
  <2>3. u < q => A + T <= A
    BY <2>2, Zenon DEF Area
  <2>4. q < u => A + S <= A
    BY <2>2, Zenon DEF Area
  <2> QED
    BY <2>1, <2>2, <2>3, <2>4
<1>4. (CHOOSE u \in 1..Len(disk) : disk[u].at = a) = q
  BY <1>1, <1>3, Zenon
<1>5. DiskImage(a, w) = [err |-> "nil", data |-> disk[q].payload]
  BY <1>1, <1>4, Zenon DEF DiskImage
<1>6. disk[q].at + Taken(disk[q]) <= len
  BY DEF Area
<1> QED
  BY <1>1, <1>2, <1>5, <1>6 DEF Taken

\* The offsets of blocks stored one behind the other.
LEMMA SumsAre ==
  ASSUME NEW m \in Nat, NEW s \in [1..m -> Nat]
  PROVE  /\ \A k \in 1..(m + 1) : SumFunctionOnSet(s, 1..(k - 1)) \in Nat
         /\ \A k \in 1..m : SumFunctionOnSet(s, 1..k) = SumFunctionOnSet(s, 1..(k - 1)) + s[k]
         /\ \A k \in 1..(m + 1) : \A j \in 1..k :
              SumFunctionOnSet(s, 1..(j - 1)) <= SumFunctionOnSet(s, 1..(k - 1))
         /\ SumFunctionOnSet(s, 1..0) = 0
         /\ SumFunction(s) = SumFunctionOnSet(s, 1..m) /\ SumFunction(s) \in Nat
<1>1. ASSUME NEW k \in 1..(m + 1)
      PROVE  /\ IsFiniteSet(1..(k - 1)) /\ \A y \in 1..(k - 1) : s[y] \in Nat
             /\ SumFunctionOnSet(s, 1..(k - 1)) \in Nat
  <2>1. IsFiniteSet(1..(k - 1))
    BY FS_Interval
  <2>2. \A y \in 1..(k - 1) : s[y] \in Nat
    OBVIOUS
  <2> QED
    BY <2>1, <2>2, SumNat
<1>2. ASSUME NEW k \in 1..m
      PROVE  SumFunctionOnSet(s, 1..k) = SumFunctionOnSet(s, 1..(k - 1)) + s[k]
  <2>1. PICK b \in Nat : b = k - 1 /\ b + 1 = k
    OBVIOUS
  <2>2. 1 \in Int /\ b \in Int /\ 1 <= b + 1 /\ \A y \in 1..(b + 1) : s[y] \in Int
    BY <2>1
  <2>3. SumFunctionOnSet(s, 1..(b + 1)) = SumFunctionOnSet(s, 1..b) + s[b + 1]
    BY <2>2, SumNext, Zenon
  <2> QED
    BY <2>1, <2>3
<1>3. ASSUME NEW k \in 1..(m + 1), NEW j \in 1..k
      PROVE  SumFunctionOnSet(s, 1..(j - 1)) <= SumFunctionOnSet(s, 1..(k - 1))
  <2>1. 1..(j - 1) \in SUBSET (1..(k - 1))
    OBVIOUS
  <2> QED
    BY <1>1, <2>1, SumMono
<1>4. SumFunctionOnSet(s, 1..0) = 0
  <2>1. 1..0 = {}
    OBVIOUS
  <2> QED
    BY <2>1, SumEmpty
<1>5. SumFunction(s) = SumFunctionOnSet(s, 1..m)
  BY DEF SumFunction
<1>6. SumFunctionOnSet(s, 1..m) \in Nat
  <2>1. m + 1 \in 1..(m + 1) /\ (m + 1) - 1 = m
    OBVIOUS
  <2> QED
    BY <1>1, <2>1, Zenon
<1> QED
  BY <1>1, <1>2, <1>3, <1>4, <1>5, <1>6

\* The choices of stored lengths that emitFileInode can come to.
LEMMA StoredIs ==
  ASSUME NEW d \in Seq(Nat), NEW s \in Stored(d)
  PROVE  /\ s \in [1..Count(d) -> Nat]
         /\ \A k \in 1..Count(d) : s[k] \in 1..Len(blocksOf(d)[k])
<1>1. Len(blocksOf(d)) = Count(d)
  BY PiecesAre
<1>2. /\ s \in [1..Count(d) -> 1..BlockSize]
      /\ \A k \in 1..Count(d) : s[k] \in compress(Len(blocksOf(d)[k]))
  BY <1>1 DEF Stored
<1>3. ASSUME NEW k \in 1..Count(d)
      PROVE  s[k] \in 1..Len(blocksOf(d)[k]) /\ s[k] \in Nat
  <2>1. Len(blocksOf(d)[k]) \in Nat \ {0}
    <3>1. Len(blocksOf(d)[k]) \in 1..BlockSize
      BY PieceIs, Zenon
    <3> QED
      BY <3>1, BlockSizeIs
  <2>2. s[k] \in 1..Len(blocksOf(d)[k])
    BY <1>2, <2>1, CompressIs
  <2> QED
    BY <2>1, <2>2
<1> QED
  BY <1>2, <1>3

\* The blocks of a file as they are written at the end of the data area.
LEMMA WrittenAre ==
  ASSUME len \in Nat, NEW d \in Seq(Nat), NEW s \in Stored(d)
  PROVE  /\ BlocksWritten(d, s) \in Seq(Blocks) /\ Len(BlocksWritten(d, s)) = Count(d)
         /\ \A k \in 1..Count(d) :
              /\ BlocksWritten(d, s)[k].at = len + SumFunctionOnSet(s, 1..(k - 1))
              /\ BlocksWritten(d, s)[k].sizeWord = sizeWord(Len(blocksOf(d)[k]), s[k])
              /\ BlocksWritten(d, s)[k].sizeWord \in Nat
              /\ BlocksWritten(d, s)[k].payload = blocksOf(d)[k]
              /\ Taken(BlocksWritten(d, s)[k]) = s[k]
<1>1. PICK m \in Nat : m = Count(d)
  BY FileCut
<1>2. s \in [1..m -> Nat] /\ \A k \in 1..m : s[k] \in 1..Len(blocksOf(d)[k])
  BY <1>1, StoredIs
<1>3. PICK new : /\ new = BlocksWritten(d, s)
                 /\ new = [k \in 1..m |-> BlockAt(len + SumFunctionOnSet(s, 1..(k - 1)),
                                                  blocksOf(d)[k], s[k])]
  BY <1>1, PiecesAre, Zenon DEF BlocksWritten
<1>4. ASSUME NEW k \in 1..m
      PROVE  /\ new[k] \in Blocks /\ new[k].at = len + SumFunctionOnSet(s, 1..(k - 1))
             /\ new[k].sizeWord = sizeWord(Len(blocksOf(d)[k]), s[k])
             /\ new[k].payload = blocksOf(d)[k] /\ Taken(new[k]) = s[k]
  <2>1. PICK a \in Nat : a = len + SumFunctionOnSet(s, 1..(k - 1))
    <3>1. k \in 1..(m + 1)
      OBVIOUS
    <3>2. SumFunctionOnSet(s, 1..(k - 1)) \in Nat
      BY <1>2, <3>1, SumsAre, Zenon
    <3> QED
      BY <3>2
  <2>2. new[k] = BlockAt(a, blocksOf(d)[k], s[k])
    BY <1>3, <2>1
  <2>3. PICK p \in Seq(Nat) : p = blocksOf(d)[k] /\ Len(p) \in 1..BlockSize
    BY <1>1, PieceIs, Zenon
  <2>4. s[k] \in 1..Len(p)
    BY <1>2, <2>3
  <2> QED
    BY <2>1, <2>2, <2>3, <2>4, BlockIs
<1>5. new \in [1..m -> Blocks]
  BY <1>3, <1>4
<1>6. new \in Seq(Blocks) /\ Len(new) = m
  BY <1>5
<1>7. \A k \in 1..m : new[k].sizeWord \in Nat
  BY <1>4 DEF Blocks
<1> QED
  BY <1>1, <1>3, <1>4, <1>6, <1>7

\* The data area with the blocks of a file.
LEMMA AreaWithFile ==
  ASSUME Area(disk, len), NEW d \in Seq(Nat), NEW s \in Stored(d)
  PROVE  Area(disk \o BlocksWritten(d, s), len + SumFunction(s))
<1>1. PICK m \in Nat, x \in Seq(Blocks) : m = Count(d) /\ x = BlocksWritten(d, s) /\ Len(x) = m
  BY FileCut, WrittenAre DEF Area
<1>2. PICK l \in Nat : l = len
  BY DEF Area
<1>3. s \in [1..m -> Nat] /\ \A k \in 1..m : s[k] \in 1..Len(blocksOf(d)[k])
  BY <1>1, StoredIs
<1> DEFINE S(k) == SumFunctionOnSet(s, 1..(k - 1))
<1>4. /\ \A k \in 1..(m + 1) : S(k) \in Nat
      /\ \A k \in 1..(m + 1) : \A j \in 1..k : S(j) <= S(k)
      /\ S(m + 1) = SumFunction(s)
  <2>1. (m + 1) - 1 = m
    OBVIOUS
  <2> QED
    BY <1>3, <2>1, SumsAre, Zenon
<1>5. \A k \in 1..m : S(k + 1) = S(k) + s[k]
  <2> SUFFICES ASSUME NEW k \in 1..m
               PROVE  S(k + 1) = S(k) + s[k]
    OBVIOUS
  <2>1. (k + 1) - 1 = k
    OBVIOUS
  <2>2. SumFunctionOnSet(s, 1..k) = SumFunctionOnSet(s, 1..(k - 1)) + s[k]
    BY <1>3, SumsAre, Zenon
  <2> QED
    BY <2>1, <2>2, Zenon
<1>6. \A k \in 1..m : x[k].at = l + S(k) /\ x[k].payload = blocksOf(d)[k] /\ Taken(x[k]) = s[k]
  BY <1>1, <1>2, WrittenAre, Zenon
<1> HIDE DEF S
<1>7. PICK T \in Nat : T = S(m + 1) /\ T = SumFunction(s) /\ l + T \in Nat /\ l <= l + T
  <2>1. m + 1 \in 1..(m + 1)
    OBVIOUS
  <2> QED
    BY <1>4, <2>1
<1>8. ASSUME NEW q \in 1..m
      PROVE  /\ l <= x[q].at /\ Len(x[q].payload) \in 1..BlockSize
             /\ Taken(x[q]) \in 1..BlockSize /\ x[q].at + Taken(x[q]) <= l + T
             /\ \A u \in 1..m : q < u => x[q].at + Taken(x[q]) <= x[u].at
  <2>1. q \in 1..(m + 1) /\ q + 1 \in 1..(m + 1) /\ m + 1 \in 1..(m + 1) /\ q + 1 \in 1..(m + 1)
    OBVIOUS
  <2>2. PICK A \in Nat, B \in Nat, t \in Nat :
          A = S(q) /\ B = S(q + 1) /\ t = s[q] /\ B = A + t /\ B <= T
    BY <1>3, <1>4, <1>5, <1>7, <2>1, Zenon
  <2>3. x[q].at = l + A /\ Taken(x[q]) = t
    BY <1>6, <2>2
  <2>4. Len(x[q].payload) \in 1..BlockSize /\ t \in 1..Len(x[q].payload)
    BY <1>1, <1>3, <1>6, <2>2, PieceIs, Zenon
  <2>5. ASSUME NEW u \in 1..m, q < u
        PROVE  x[q].at + Taken(x[q]) <= x[u].at
    <3>1. u \in 1..(m + 1) /\ q + 1 \in 1..u
      BY <2>5
    <3>2. PICK C \in Nat : C = S(u) /\ B <= C
      BY <1>4, <2>2, <3>1
    <3>3. x[u].at = l + C
      BY <1>6, <3>2
    <3>4. l + A + t <= l + C
      <4>1. B = A + t /\ B <= C
        BY <2>2, <3>2
      <4> QED
        BY <4>1
    <3> QED
      BY <2>3, <3>3, <3>4
  <2>6. l <= l + A /\ l + A + t <= l + T
    BY <2>2
  <2>7. t \in 1..BlockSize
    BY <2>4, BlockSizeIs
  <2> QED
    BY <2>3, <2>4, <2>5, <2>6, <2>7
<1>9. Area(disk \o x, l + T)
  BY <1>1, <1>2, <1>7, <1>8, AreaGrows, Zenon
<1> QED
  BY <1>1, <1>2, <1>7, <1>9

-----------------------------------------------------------------------------
\* What the invariant says of a file after a step, in the values after the step.
LEMMA FileInvNext ==
  ASSUME opts' = opts, NEW dk, dk = disk', NEW ents, ents = fragEntries',
         NEW buf, buf = fragBuf', NEW i, NEW d
  PROVE  FileInv(i, d)' <=> /\ i \in Inodes /\ i.size = Len(d) % Width
                            /\ BlocksPlaced(dk, i, d) /\ TailPlaced(dk, ents, buf, i, d)
<1>1. fullLen(d)' = fullLen(d)
  BY DEF fullLen
<1>2. Count(d)' = Count(d) /\ blocksOf(d)' = blocksOf(d) /\ tailOf(d)' = tailOf(d)
  BY <1>1 DEF Count, blocksOf, tailOf
<1>3. BlocksPlaced(disk, i, d)' <=> BlocksPlaced(dk, i, d)
  BY <1>2 DEF BlocksPlaced, OnDisk, sizeWord
<1>4. TailPlaced(disk, fragEntries, fragBuf, i, d)' <=> TailPlaced(dk, ents, buf, i, d)
  BY <1>2 DEF TailPlaced, FragmentIs, OnDisk
<1> QED
  BY <1>3, <1>4 DEF FileInv, Inodes

\* A block on disk stays where it is when blocks are added behind it.
LEMMA OnDiskKeeps ==
  ASSUME NEW dk \in Seq(Blocks), NEW x \in Seq(Blocks), NEW a, NEW w, NEW p,
         OnDisk(dk, a, w, p)
  PROVE  OnDisk(dk \o x, a, w, p)
<1>1. PICK q \in 1..Len(dk) : dk[q].at = a /\ dk[q].sizeWord = w /\ dk[q].payload = p
  BY DEF OnDisk
<1>2. q \in 1..Len(dk \o x) /\ (dk \o x)[q] = dk[q]
  OBVIOUS
<1> QED
  BY <1>1, <1>2, Zenon DEF OnDisk

\* A block added is on disk.
LEMMA OnDiskNew ==
  ASSUME NEW dk \in Seq(Blocks), NEW x \in Seq(Blocks), NEW q \in 1..Len(x)
  PROVE  OnDisk(dk \o x, x[q].at, x[q].sizeWord, x[q].payload)
<1>1. Len(dk) + q \in 1..Len(dk \o x) /\ (dk \o x)[Len(dk) + q] = x[q]
  OBVIOUS
<1> QED
  BY <1>1, Zenon DEF OnDisk

\* So the blocks of a file written earlier stay placed,
LEMMA BlocksKeep ==
  ASSUME NEW dk \in Seq(Blocks), NEW x \in Seq(Blocks), NEW i, NEW d, BlocksPlaced(dk, i, d)
  PROVE  BlocksPlaced(dk \o x, i, d)
BY OnDiskKeeps, Zenon DEF BlocksPlaced

\* and its tail stays placed while more tails are packed behind it,
LEMMA TailKeeps ==
  ASSUME NEW dk \in Seq(Blocks), NEW x \in Seq(Blocks), NEW ents, NEW buf \in Seq(Nat),
         NEW t \in Seq(Nat), NEW i, i.fragOffset \in Nat, NEW d \in Seq(Nat),
         TailPlaced(dk, ents, buf, i, d)
  PROVE  TailPlaced(dk \o x, ents, buf \o t, i, d)
<1>1. CASE tailOf(d) = <<>>
  BY <1>1 DEF TailPlaced
<1>2. CASE tailOf(d) # <<>>
  <2>1. PICK p \in Seq(Nat) :
          /\ FragmentIs(dk, ents, buf, i.fragIdx, p)
          /\ i.fragOffset + Len(tailOf(d)) <= Len(p)
          /\ \A j \in 1..Len(tailOf(d)) : p[i.fragOffset + j] = tailOf(d)[j]
    BY <1>2 DEF TailPlaced
  <2>2. i.fragIdx \in 0..Len(ents)
    BY <1>2 DEF TailPlaced
  <2>3. CASE i.fragIdx = Len(ents)
    <3>1. p = buf
      BY <2>1, <2>3 DEF FragmentIs
    <3>2. PICK o \in Nat, n \in Nat : o = i.fragOffset /\ n = Len(tailOf(d)) /\ o + n <= Len(p)
      BY <2>1, TailIs
    <3>3. PICK z \in Seq(Nat) : /\ z = buf \o t /\ Len(p) <= Len(z)
                                /\ \A j \in 1..Len(p) : z[j] = p[j]
      <4>1. /\ buf \o t \in Seq(Nat) /\ Len(buf) <= Len(buf \o t)
            /\ \A j \in 1..Len(buf) : (buf \o t)[j] = buf[j]
        OBVIOUS
      <4> QED
        BY <3>1, <4>1, Zenon
    <3>4. o + n <= Len(z) /\ \A j \in 1..n : z[o + j] = p[o + j]
      <4>1. PICK u \in Nat, v \in Nat : u = Len(p) /\ v = Len(z) /\ u <= v /\ o + n <= u
        BY <3>2, <3>3
      <4>2. o + n <= v /\ \A j \in 1..n : o + j \in 1..u
        BY <4>1
      <4> QED
        BY <3>3, <4>1, <4>2, Zenon
    <3>5. FragmentIs(dk \o x, ents, z, i.fragIdx, z)
      BY <2>3 DEF FragmentIs
    <3> QED
      BY <1>2, <2>1, <2>2, <3>2, <3>3, <3>4, <3>5, Zenon DEF TailPlaced
  <2>4. CASE i.fragIdx # Len(ents)
    <3>1. FragmentIs(dk \o x, ents, buf \o t, i.fragIdx, p)
      BY <2>1, <2>4, OnDiskKeeps DEF FragmentIs
    <3> QED
      BY <1>2, <2>1, <2>2, <3>1, Zenon DEF TailPlaced
  <2> QED
    BY <2>3, <2>4
<1> QED
  BY <1>1, <1>2

\* and when the pending block is written under the next index.
LEMMA TailFlushed ==
  ASSUME NEW dk \in Seq(Blocks), NEW x \in Seq(Blocks), NEW ents \in Seq(Entries),
         NEW e \in Entries, NEW buf \in Seq(Nat), NEW new, NEW i, NEW d,
         OnDisk(dk \o x, e.start, e.sizeWord, buf), TailPlaced(dk, ents, buf, i, d)
  PROVE  TailPlaced(dk \o x, Append(ents, e), new, i, d)
<1>1. CASE tailOf(d) = <<>>
  BY <1>1 DEF TailPlaced
<1>2. CASE tailOf(d) # <<>>
  <2>1. PICK p \in Seq(Nat) :
          /\ FragmentIs(dk, ents, buf, i.fragIdx, p)
          /\ i.fragOffset + Len(tailOf(d)) <= Len(p)
          /\ \A j \in 1..Len(tailOf(d)) : p[i.fragOffset + j] = tailOf(d)[j]
    BY <1>2 DEF TailPlaced
  <2>2. PICK y \in 0..Len(ents) : y = i.fragIdx
    BY <1>2 DEF TailPlaced
  <2>3. PICK z \in Seq(Entries) : /\ z = Append(ents, e) /\ Len(z) = Len(ents) + 1
                                  /\ z[Len(ents) + 1] = e
                                  /\ \A j \in 1..Len(ents) : z[j] = ents[j]
    <3>1. /\ Append(ents, e) \in Seq(Entries) /\ Len(Append(ents, e)) = Len(ents) + 1
          /\ Append(ents, e)[Len(ents) + 1] = e
          /\ \A j \in 1..Len(ents) : Append(ents, e)[j] = ents[j]
      OBVIOUS
    <3> QED
      BY <3>1, Zenon
  <2>4. y \in 0..Len(z) /\ y # Len(z) /\ (y # Len(ents) => z[y + 1] = ents[y + 1])
    BY <2>3
  <2>5. OnDisk(dk \o x, z[y + 1].start, z[y + 1].sizeWord, p)
    <3>1. CASE y = Len(ents)
      <4>1. p = buf /\ z[y + 1] = e
        BY <2>1, <2>2, <2>3, <3>1 DEF FragmentIs
      <4> QED
        BY <4>1
    <3>2. CASE y # Len(ents)
      <4>1. OnDisk(dk, ents[y + 1].start, ents[y + 1].sizeWord, p)
        BY <2>1, <2>2, <3>2 DEF FragmentIs
      <4>2. z[y + 1] = ents[y + 1]
        BY <2>4, <3>2
      <4> QED
        BY <4>1, <4>2, OnDiskKeeps, Zenon
    <3> QED
      BY <3>1, <3>2
  <2>6. FragmentIs(dk \o x, z, new, y, p)
    BY <2>4, <2>5, Zenon DEF FragmentIs
  <2> QED
    BY <1>2, <2>1, <2>2, <2>3, <2>4, <2>6, Zenon DEF TailPlaced
<1> QED
  BY <1>1, <1>2


\* The blocks of the file just written are where its inode says.
LEMMA NewBlocks ==
  ASSUME Area(disk, len), NEW d \in Seq(Nat), NEW s \in Stored(d), NEW i,
         i.start = len % Width,
         i.blocks = [k \in 1..Len(BlocksWritten(d, s)) |-> BlocksWritten(d, s)[k].sizeWord]
  PROVE  i.blocks \in Seq(Nat) /\ BlocksPlaced(disk \o BlocksWritten(d, s), i, d)
<1>1. PICK m \in Nat, x \in Seq(Blocks) : m = Count(d) /\ x = BlocksWritten(d, s) /\ Len(x) = m
  BY FileCut, WrittenAre DEF Area
<1>2. len \in Nat /\ disk \in Seq(Blocks)
  BY DEF Area
<1>3. s \in [1..m -> Nat] /\ \A k \in 1..m : s[k] \in 1..Len(blocksOf(d)[k])
  BY <1>1, StoredIs
<1>4. \A k \in 1..m :
        /\ x[k].at = len + SumFunctionOnSet(s, 1..(k - 1)) /\ x[k].payload = blocksOf(d)[k]
        /\ x[k].sizeWord = sizeWord(Len(blocksOf(d)[k]), s[k]) /\ x[k].sizeWord \in Nat
  <2> SUFFICES ASSUME NEW k \in 1..Count(d)
               PROVE  /\ x[k].at = len + SumFunctionOnSet(s, 1..(k - 1))
                      /\ x[k].payload = blocksOf(d)[k] /\ x[k].sizeWord \in Nat
                      /\ x[k].sizeWord = sizeWord(Len(blocksOf(d)[k]), s[k])
    BY <1>1
  <2> QED
    BY <1>1, <1>2, WrittenAre, Zenon
<1>5. i.blocks = [k \in 1..m |-> x[k].sizeWord]
  BY <1>1
<1>6. i.blocks \in Seq(Nat) /\ Len(i.blocks) = m
  <2>1. i.blocks \in [1..m -> Nat]
    BY <1>4, <1>5, Zenon
  <2> QED
    BY <2>1
<1>7. \A k \in 1..m : i.blocks[k] = x[k].sizeWord
  BY <1>5
<1>8. ASSUME NEW k \in 1..m
      PROVE  /\ s[k] \in 1..Len(blocksOf(d)[k])
             /\ i.blocks[k] = sizeWord(Len(blocksOf(d)[k]), s[k])
             /\ OnDisk(disk \o x, len + SumFunctionOnSet(s, 1..(k - 1)), i.blocks[k],
                       blocksOf(d)[k])
  <2>1. OnDisk(disk \o x, x[k].at, x[k].sizeWord, x[k].payload)
    BY <1>1, <1>2, OnDiskNew, Zenon
  <2> QED
    BY <1>3, <1>4, <1>7, <2>1, Zenon
<1> QED
  BY <1>1, <1>2, <1>3, <1>6, <1>8, Zenon DEF BlocksPlaced

\* The size words of blocks.
LEMMA WordsAre ==
  ASSUME NEW x \in Seq(Blocks)
  PROVE  [k \in 1..Len(x) |-> x[k].sizeWord] \in Seq(Nat)
<1>1. PICK n \in Nat : n = Len(x)
  OBVIOUS
<1>2. \A k \in 1..n : x[k] \in Blocks
  BY <1>1
<1>3. \A k \in 1..n : x[k].sizeWord \in Nat
  BY <1>2 DEF Blocks
<1>4. [k \in 1..n |-> x[k].sizeWord] \in [1..n -> Nat]
  BY <1>3
<1> QED
  BY <1>1, <1>4

\* An inode of a file.
LEMMA InodeIs ==
  ASSUME len \in Nat, NEW d \in Seq(Nat), NEW w \in Seq(Nat), NEW x \in Nat \cup {NoFrag},
         NEW o \in Nat
  PROVE  /\ fileInode(d, w, x, o) \in Inodes
         /\ fileInode(d, w, x, o).start = len % Width
         /\ fileInode(d, w, x, o).size = Len(d) % Width
         /\ fileInode(d, w, x, o).blocks = w
         /\ fileInode(d, w, x, o).fragIdx = x
         /\ fileInode(d, w, x, o).fragOffset = o
<1>1. len % Width \in Nat /\ Len(d) % Width \in Nat
  BY WriterAssumption
<1> QED
  BY <1>1 DEF fileInode, Inodes

\* The invariant after a file was written, from what it says of each file.
LEMMA Emitted ==
  ASSUME Inv, Emitting, opts' = opts, files' = files, fragTable' = fragTable, done' = done,
         Area(disk, len)', fragBuf' \in Seq(Nat), Len(fragBuf') <= BlockSize,
         fragEntries' \in Seq(Entries), NEW i \in Inodes, inodes' = Append(inodes, i),
         NEW d, d = current, FileInv(i, d)',
         \A j, c : (\E f \in 1..Len(inodes) : j = inodes[f] /\ c = files[f]) => FileInv(j, c)'
  PROVE  Inv'
<1>1. inodes \in Seq(Inodes) /\ files \in Seq(Seq(Nat)) /\ Len(inodes) < Len(files)
  BY WriterAssumption DEF Inv, Emitting
<1>2. PICK n \in Nat : n = Len(inodes) /\ n < Len(files) /\ d = files[n + 1]
  BY <1>1 DEF current
<1>3. PICK z \in Seq(Inodes) : /\ z = inodes' /\ Len(z) = n + 1 /\ z[n + 1] = i
                               /\ \A f \in 1..n : z[f] = inodes[f]
  <2>1. /\ Append(inodes, i) \in Seq(Inodes) /\ Len(Append(inodes, i)) = n + 1
        /\ Append(inodes, i)[n + 1] = i /\ \A f \in 1..n : Append(inodes, i)[f] = inodes[f]
    BY <1>1, <1>2
  <2> QED
    BY <2>1, Zenon
<1>4. ASSUME NEW f \in 1..(n + 1)
      PROVE  FileInv(inodes[f], files[f])'
  <2>1. PICK j, c : j = z[f] /\ c = files[f]
    OBVIOUS
  <2>2. CASE f = n + 1
    <3>1. FileInv(j, c)'
      BY <1>2, <1>3, <2>1, <2>2
    <3> QED
      BY <1>3, <2>1, <3>1
  <2>3. CASE f # n + 1
    <3>1. f \in 1..n
      BY <2>3
    <3>2. FileInv(j, c)'
      BY <1>2, <1>3, <2>1, <3>1
    <3> QED
      BY <1>3, <2>1, <3>2
  <2> QED
    BY <2>2, <2>3, Zenon
<1>5. ~done
  BY <1>1 DEF Inv
<1>6. files' \in Trees /\ opts' \in Options /\ done' \in BOOLEAN /\ ~done'
  BY <1>5, Zenon DEF Inv
<1>7. Len(inodes') = n + 1 /\ inodes' \in Seq(Inodes) /\ Len(inodes') <= Len(files')
  BY <1>1, <1>2, <1>3
<1>8. \A f \in 1..Len(inodes') : FileInv(inodes[f], files[f])'
  BY <1>4, <1>7
<1> QED
  BY <1>6, <1>7, <1>8 DEF Inv


\* The tail of the file just written is in the pending block.
LEMMA NewTail ==
  ASSUME NEW dk, NEW ents, Len(ents) \in Nat, NEW buf \in Seq(Nat), NEW d \in Seq(Nat), NEW i,
         tailOf(d) # <<>>, i.fragIdx = Len(ents), i.fragOffset = Len(buf)
  PROVE  TailPlaced(dk, ents, buf \o tailOf(d), i, d)
<1>1. PICK t \in Seq(Nat) : t = tailOf(d)
  BY TailIs
<1>2. PICK z \in Seq(Nat) : /\ z = buf \o t /\ Len(buf) + Len(t) <= Len(z)
                            /\ \A j \in 1..Len(t) : z[Len(buf) + j] = t[j]
  <2>1. /\ buf \o t \in Seq(Nat) /\ Len(buf) + Len(t) <= Len(buf \o t)
        /\ \A j \in 1..Len(t) : (buf \o t)[Len(buf) + j] = t[j]
    OBVIOUS
  <2> QED
    BY <2>1, Zenon
<1>3. FragmentIs(dk, ents, z, Len(ents), z) /\ Len(ents) \in 0..Len(ents)
  BY DEF FragmentIs
<1> QED
  BY <1>1, <1>2, <1>3, Zenon DEF TailPlaced

\* The data area after a step, in the values after the step.
LEMMA AreaNext ==
  ASSUME NEW dk, dk = disk', NEW l, l = len', Area(dk, l)
  PROVE  Area(disk, len)'
BY DEF Area, Taken, Format!blockOnDiskBytes, Blocks

\* The inductive invariant holds initially,
LEMMA InitInv == Init => Inv
<1> SUFFICES ASSUME Init PROVE Inv
  OBVIOUS
<1>1. /\ disk \in Seq(Blocks) /\ Len(disk) = 0 /\ fragBuf \in Seq(Nat) /\ Len(fragBuf) = 0
      /\ fragEntries \in Seq(Entries) /\ inodes \in Seq(Inodes) /\ Len(inodes) = 0
  BY EmptyIsSeq DEF Init
<1>2. DataStart \in Nat /\ BlockSize \in Nat /\ files \in Seq(Seq(Nat))
  BY WriterAssumption DEF Init
<1>3. Area(disk, len)
  BY <1>1, <1>2 DEF Init, Area
<1>4. \A f \in 1..Len(inodes) : FileInv(inodes[f], files[f])
  BY <1>1
<1>5. 0 <= BlockSize /\ 0 <= Len(files)
  BY <1>2
<1> QED
  BY <1>1, <1>3, <1>4, <1>5, Zenon DEF Init, Inv

\* and each of its steps preserves it: a file written without a flush,
LEMMA EmitFileKeeps == Inv /\ EmitFile => Inv'
<1> SUFFICES ASSUME Inv, EmitFile PROVE Inv'
  OBVIOUS
<1>1. /\ inodes \in Seq(Inodes) /\ files \in Seq(Seq(Nat)) /\ Len(inodes) < Len(files)
      /\ Area(disk, len) /\ fragBuf \in Seq(Nat) /\ Len(fragBuf) <= BlockSize
      /\ fragEntries \in Seq(Entries)
  BY WriterAssumption DEF Inv, EmitFile, Emitting
<1>2. PICK d \in Seq(Nat) : d = current
  <2>1. Len(inodes) + 1 \in 1..Len(files)
    BY <1>1
  <2> QED
    BY <1>1, <2>1 DEF current
<1>3. PICK s \in Stored(d) :
        /\ disk' = disk \o BlocksWritten(d, s) /\ len' = len + SumFunction(s)
        /\ inodes' = Append(inodes,
             fileInode(d, [k \in 1..Len(BlocksWritten(d, s)) |-> BlocksWritten(d, s)[k].sizeWord],
                       IF tailOf(d) # <<>> THEN Len(fragEntries) ELSE NoFrag,
                       IF tailOf(d) # <<>> THEN Len(fragBuf) ELSE 0))
  BY <1>2, Zenon DEF EmitFile
<1>4. /\ fragBuf' = fragBuf \o tailOf(d) /\ files' = files /\ opts' = opts
      /\ fragEntries' = fragEntries /\ fragTable' = fragTable /\ done' = done
      /\ tailOf(d) = <<>> \/ ~Overflows(d)
  BY <1>2, Zenon DEF EmitFile
<1>5. PICK x \in Seq(Blocks), dk \in Seq(Blocks), l \in Nat :
        x = BlocksWritten(d, s) /\ dk = disk /\ l = len
  BY <1>1, WrittenAre DEF Area
<1>6. PICK i \in Inodes :
        /\ inodes' = Append(inodes, i) /\ i.start = l % Width /\ i.size = Len(d) % Width
        /\ i.blocks = [k \in 1..Len(x) |-> x[k].sizeWord]
        /\ tailOf(d) # <<>> => i.fragIdx = Len(fragEntries) /\ i.fragOffset = Len(fragBuf)
        /\ tailOf(d) = <<>> => i.fragIdx = NoFrag
  <2>1. PICK w : w = [k \in 1..Len(x) |-> x[k].sizeWord]
    BY Zenon
  <2>2. w \in Seq(Nat)
    BY <2>1, WordsAre
  <2>3. PICK y \in Nat \cup {NoFrag}, o \in Nat :
          /\ y = IF tailOf(d) # <<>> THEN Len(fragEntries) ELSE NoFrag
          /\ o = IF tailOf(d) # <<>> THEN Len(fragBuf) ELSE 0
    <3>1. Len(fragEntries) \in Nat /\ Len(fragBuf) \in Nat /\ 0 \in Nat
      BY <1>1
    <3> QED
      BY <3>1, Zenon
  <2>4. inodes' = Append(inodes, fileInode(d, w, y, o))
    BY <1>3, <1>5, <2>1, <2>3, Zenon
  <2>5. PICK i \in Inodes :
          /\ i = fileInode(d, w, y, o) /\ i.start = l % Width /\ i.size = Len(d) % Width
          /\ i.blocks = w /\ i.fragIdx = y /\ i.fragOffset = o
    BY <1>5, <2>2, InodeIs
  <2> QED
    BY <2>1, <2>3, <2>4, <2>5, Zenon
<1>7. PICK D \in Seq(Blocks), B \in Seq(Nat) :
        /\ D = disk' /\ D = dk \o x /\ B = fragBuf' /\ B = fragBuf \o tailOf(d)
        /\ Len(B) = Len(fragBuf) + Len(tailOf(d))
  <2>1. tailOf(d) \in Seq(Nat)
    BY TailIs
  <2>2. /\ dk \o x \in Seq(Blocks) /\ fragBuf \o tailOf(d) \in Seq(Nat)
        /\ Len(fragBuf \o tailOf(d)) = Len(fragBuf) + Len(tailOf(d))
    BY <1>1, <2>1
  <2> QED
    BY <1>3, <1>4, <1>5, <2>2, Zenon
<1>8. FileInv(i, d)'
  <2>1. BlocksPlaced(D, i, d)
    BY <1>1, <1>5, <1>6, <1>7, NewBlocks, Zenon
  <2>2. TailPlaced(D, fragEntries, B, i, d)
    <3>1. CASE tailOf(d) = <<>>
      BY <1>6, <3>1 DEF TailPlaced
    <3>2. CASE tailOf(d) # <<>>
      <4>1. Len(fragEntries) \in Nat
        BY <1>1
      <4> QED
        BY <1>1, <1>6, <1>7, <3>2, <4>1, NewTail, Zenon
    <3> QED
      BY <3>1, <3>2
  <2>3. PICK e : e = fragEntries
    OBVIOUS
  <2> QED
    BY <1>4, <1>6, <1>7, <2>1, <2>2, <2>3, FileInvNext, Zenon
<1>9. ASSUME NEW j, NEW c, NEW f \in 1..Len(inodes), j = inodes[f], c = files[f]
      PROVE  FileInv(j, c)'
  <2>1. FileInv(j, c) /\ c \in Seq(Nat) /\ j \in Inodes
    BY <1>1, <1>9 DEF Inv
  <2>2. BlocksPlaced(D, j, c)
    BY <1>5, <1>7, <2>1, BlocksKeep DEF FileInv
  <2>3. PICK e \in Seq(Entries), b \in Seq(Nat), t \in Seq(Nat) :
          e = fragEntries /\ b = fragBuf /\ t = tailOf(d)
    BY <1>1, TailIs
  <2>4. TailPlaced(dk, e, b, j, c)
    BY <1>5, <2>1, <2>3 DEF FileInv
  <2>5. j.fragOffset \in Nat
    BY <2>1 DEF Inodes
  <2>6. TailPlaced(dk \o x, e, b \o t, j, c)
    BY <2>1, <2>4, <2>5, TailKeeps
  <2>7. TailPlaced(D, e, B, j, c)
    BY <1>7, <2>3, <2>6
  <2>8. j.size = Len(c) % Width
    BY <2>1 DEF FileInv
  <2> QED
    BY <1>4, <1>7, <2>1, <2>2, <2>3, <2>7, <2>8, FileInvNext, Zenon
<1>10. Area(disk, len)'
  <2>1. PICK e \in Nat : e = len' /\ e = l + SumFunction(s) /\ Area(D, e)
    <3>1. Area(disk \o BlocksWritten(d, s), len + SumFunction(s))
      BY <1>1, AreaWithFile
    <3>2. len + SumFunction(s) \in Nat
      BY <3>1 DEF Area
    <3> QED
      BY <1>3, <1>5, <1>7, <3>1, <3>2
  <2> QED
    BY <1>7, <2>1, AreaNext
<1>11. fragBuf' \in Seq(Nat) /\ Len(fragBuf') <= BlockSize /\ fragEntries' \in Seq(Entries)
  <2>1. Len(B) <= BlockSize
    <3>1. CASE tailOf(d) = <<>>
      <4>1. Len(tailOf(d)) = 0 /\ Len(fragBuf) \in Nat
        BY <1>1, <3>1
      <4> QED
        BY <1>1, <1>7, <4>1
    <3>2. CASE ~Overflows(d)
      <4>1. Len(fragBuf) \in Nat /\ Len(tailOf(d)) \in Nat /\ BlockSize \in Nat
        BY <1>1, TailIs, BlockSizeIs
      <4> QED
        BY <1>7, <3>2, <4>1 DEF Overflows
    <3> QED
      BY <1>4, <3>1, <3>2
  <2> QED
    BY <1>1, <1>4, <1>7, <2>1
<1>12. Emitting
  BY DEF EmitFile
<1> QED
  BY <1>2, <1>4, <1>6, <1>8, <1>9, <1>10, <1>11, <1>12, Emitted, Zenon


\* The pending fragment block, written at the end of the data area.
LEMMA FlushIs ==
  ASSUME NEW dk, NEW l, Area(dk, l), NEW buf \in Seq(Nat), Len(buf) \in 1..BlockSize,
         NEW f \in compress(Len(buf)), NEW b, b = BlockAt(l, buf, f)
  PROVE  /\ <<b>> \in Seq(Blocks) /\ Area(dk \o <<b>>, l + f)
         /\ OnDisk(dk \o <<b>>, b.at, b.sizeWord, buf)
         /\ [start |-> b.at, sizeWord |-> b.sizeWord] \in Entries
<1>1. l \in Nat /\ dk \in Seq(Blocks)
  BY DEF Area
<1>2. f \in 1..Len(buf)
  <2>1. Len(buf) \in Nat \ {0}
    BY BlockSizeIs
  <2> QED
    BY <2>1, CompressIs
<1>3. b \in Blocks /\ b.at = l /\ b.payload = buf /\ Taken(b) = f /\ f \in 1..BlockSize /\ f \in Nat
  BY <1>1, <1>2, BlockIs
<1>4. PICK x \in Seq(Blocks) : x = <<b>> /\ Len(x) = 1 /\ x[1] = b
  <2>1. <<b>> \in Seq(Blocks) /\ Len(<<b>>) = 1 /\ <<b>>[1] = b
    BY <1>3
  <2> QED
    BY <2>1, Zenon
<1>5. l + f \in Nat /\ l <= l + f /\ l <= l
  BY <1>1, <1>3
<1>6. \A q \in 1..Len(x) : q = 1 /\ x[q] = b
  BY <1>4
<1>7. Area(dk \o x, l + f)
  <2>1. \A q \in 1..Len(x) : /\ l <= x[q].at /\ Len(x[q].payload) \in 1..BlockSize
                             /\ Taken(x[q]) \in 1..BlockSize /\ x[q].at + Taken(x[q]) <= l + f
    BY <1>1, <1>3, <1>5, <1>6
  <2>2. \A q, u \in 1..Len(x) : q < u => x[q].at + Taken(x[q]) <= x[u].at
    BY <1>4
  <2> QED
    BY <1>5, <2>1, <2>2, AreaGrows
<1>8. OnDisk(dk \o x, b.at, b.sizeWord, buf)
  <2>1. 1 \in 1..Len(x)
    BY <1>4
  <2>2. OnDisk(dk \o x, x[1].at, x[1].sizeWord, x[1].payload)
    BY <1>1, <2>1, OnDiskNew
  <2> QED
    BY <1>3, <1>4, <2>2
<1>9. [start |-> b.at, sizeWord |-> b.sizeWord] \in Entries
  BY <1>3 DEF Blocks, Entries
<1> QED
  BY <1>4, <1>7, <1>8, <1>9

\* a file written with a flush of the pending block before its tail,
LEMMA EmitFileAndFlushKeeps == Inv /\ EmitFileAndFlush => Inv'
<1> SUFFICES ASSUME Inv, EmitFileAndFlush PROVE Inv'
  OBVIOUS
<1>1. /\ inodes \in Seq(Inodes) /\ files \in Seq(Seq(Nat)) /\ Len(inodes) < Len(files)
      /\ Area(disk, len) /\ fragBuf \in Seq(Nat) /\ Len(fragBuf) <= BlockSize
      /\ fragEntries \in Seq(Entries)
  BY WriterAssumption DEF Inv, EmitFileAndFlush, Emitting
<1>2. PICK d \in Seq(Nat) : d = current
  <2>1. Len(inodes) + 1 \in 1..Len(files)
    BY <1>1
  <2> QED
    BY <1>1, <2>1 DEF current
<1>3. PICK s \in Stored(d), f \in compress(Len(fragBuf)) :
        \E b :
          /\ b = BlockAt(len + SumFunction(s), fragBuf, f)
          /\ disk' = disk \o BlocksWritten(d, s) \o <<b>> /\ len' = len + SumFunction(s) + f
          /\ fragEntries' = Append(fragEntries, [start |-> b.at, sizeWord |-> b.sizeWord])
          /\ inodes' = Append(inodes,
               fileInode(d, [k \in 1..Len(BlocksWritten(d, s)) |->
                               BlocksWritten(d, s)[k].sizeWord], flushedIdx, 0))
  BY <1>2, Zenon DEF EmitFileAndFlush
<1>b. PICK b :
        /\ b = BlockAt(len + SumFunction(s), fragBuf, f)
        /\ disk' = disk \o BlocksWritten(d, s) \o <<b>> /\ len' = len + SumFunction(s) + f
        /\ fragEntries' = Append(fragEntries, [start |-> b.at, sizeWord |-> b.sizeWord])
        /\ inodes' = Append(inodes,
             fileInode(d, [k \in 1..Len(BlocksWritten(d, s)) |->
                             BlocksWritten(d, s)[k].sizeWord], flushedIdx, 0))
  BY <1>3, Zenon
<1>4. /\ fragBuf' = tailOf(d) /\ files' = files /\ opts' = opts
      /\ fragTable' = fragTable /\ done' = done /\ tailOf(d) # <<>> /\ Overflows(d)
  BY <1>2, Zenon DEF EmitFileAndFlush
<1>5. PICK x \in Seq(Blocks), dk \in Seq(Blocks), l \in Nat, t \in Seq(Nat), p \in Seq(Nat),
           g \in Seq(Entries) :
        /\ x = BlocksWritten(d, s) /\ dk = disk /\ l = len /\ t = tailOf(d) /\ p = fragBuf
        /\ g = fragEntries
  <2>1. disk \in Seq(Blocks) /\ len \in Nat
    BY <1>1 DEF Area
  <2>2. BlocksWritten(d, s) \in Seq(Blocks) /\ tailOf(d) \in Seq(Nat)
    BY <2>1, WrittenAre, TailIs
  <2> QED
    BY <1>1, <2>1, <2>2, Zenon
<1>6. Len(p) \in 1..BlockSize /\ Len(t) < BlockSize
  <2>1. PICK n \in Nat, m \in Nat, c \in Nat : n = Len(p) /\ m = Len(t) /\ c = BlockSize
    BY BlockSizeIs
  <2>2. n + m > c /\ m < c /\ n <= c
    BY <1>1, <1>4, <1>5, <2>1, TailIs DEF Overflows
  <2> QED
    BY <2>1, <2>2
<1>7. PICK y \in Seq(Blocks), e \in Nat, v \in Entries :
        /\ y = dk \o x /\ e = l + SumFunction(s) /\ Area(y, e) /\ <<b>> \in Seq(Blocks)
        /\ v = [start |-> b.at, sizeWord |-> b.sizeWord]
        /\ Area(y \o <<b>>, e + f) /\ OnDisk(y \o <<b>>, v.start, v.sizeWord, p)
  <2>1. Area(dk \o x, l + SumFunction(s))
    BY <1>1, <1>5, AreaWithFile
  <2>2. dk \o x \in Seq(Blocks) /\ l + SumFunction(s) \in Nat
    BY <2>1 DEF Area
  <2>3. /\ <<b>> \in Seq(Blocks) /\ Area((dk \o x) \o <<b>>, (l + SumFunction(s)) + f)
        /\ OnDisk((dk \o x) \o <<b>>, b.at, b.sizeWord, p)
        /\ [start |-> b.at, sizeWord |-> b.sizeWord] \in Entries
    BY <1>b, <1>5, <1>6, <2>1, FlushIs
  <2>4. PICK v \in Entries : v = [start |-> b.at, sizeWord |-> b.sizeWord]
    BY <2>3, Zenon
  <2>5. v.start = b.at /\ v.sizeWord = b.sizeWord
    BY <2>4
  <2> QED
    BY <2>1, <2>2, <2>3, <2>4, <2>5, Zenon
<1>8. PICK D \in Seq(Blocks), E \in Seq(Entries) :
        D = disk' /\ D = y \o <<b>> /\ E = fragEntries' /\ E = Append(g, v) /\ Len(E) = Len(g) + 1
  <2>1. /\ Append(g, v) \in Seq(Entries) /\ Len(Append(g, v)) = Len(g) + 1
        /\ y \o <<b>> \in Seq(Blocks)
    BY <1>7
  <2> QED
    BY <1>b, <1>5, <1>7, <2>1, Zenon
<1>9. PICK i \in Inodes :
        /\ inodes' = Append(inodes, i) /\ i.start = l % Width /\ i.size = Len(d) % Width
        /\ i.blocks = [k \in 1..Len(x) |-> x[k].sizeWord]
        /\ i.fragIdx = Len(E) /\ i.fragOffset = 0
  <2>1. PICK w \in Seq(Nat), z \in Nat \cup {NoFrag}, o \in Nat :
          w = [k \in 1..Len(x) |-> x[k].sizeWord] /\ z = Len(E) /\ z = flushedIdx /\ o = 0
    <3>1. Len(E) \in Nat /\ 0 \in Nat
      OBVIOUS
    <3> QED
      BY <1>8, <3>1, WordsAre, Zenon DEF flushedIdx
  <2>2. inodes' = Append(inodes, fileInode(d, w, z, o))
    BY <1>b, <1>5, <2>1, Zenon
  <2>3. PICK i \in Inodes :
          /\ i = fileInode(d, w, z, o) /\ i.start = l % Width /\ i.size = Len(d) % Width
          /\ i.blocks = w /\ i.fragIdx = z /\ i.fragOffset = o
    <3>1. len \in Nat
      BY <1>5
    <3>2. /\ fileInode(d, w, z, o) \in Inodes /\ fileInode(d, w, z, o).start = len % Width
          /\ fileInode(d, w, z, o).size = Len(d) % Width
          /\ fileInode(d, w, z, o).blocks = w /\ fileInode(d, w, z, o).fragIdx = z
          /\ fileInode(d, w, z, o).fragOffset = o
      <4>1. len % Width \in Nat /\ Len(d) % Width \in Nat
        BY <3>1, WriterAssumption
      <4> QED
        BY <4>1 DEF fileInode, Inodes
    <3> QED
      BY <1>5, <3>2, Zenon
  <2> QED
    BY <2>1, <2>2, <2>3, Zenon
<1>10. FileInv(i, d)'
  <2>1. BlocksPlaced(y, i, d)
    BY <1>1, <1>5, <1>7, <1>9, NewBlocks, Zenon
  <2>2. BlocksPlaced(D, i, d)
    BY <1>7, <1>8, <2>1, BlocksKeep, Zenon
  <2>3. TailPlaced(D, E, <<>> \o t, i, d)
    <3>1. <<>> \in Seq(Nat) /\ Len(<<>>) = 0 /\ Len(E) \in Nat
      BY EmptyIsSeq
    <3> QED
      BY <1>4, <1>5, <1>9, <3>1, NewTail, Zenon
  <2>4. <<>> \o t = t
    OBVIOUS
  <2>5. TailPlaced(D, E, t, i, d)
    BY <2>3, <2>4, Zenon
  <2> QED
    BY <1>4, <1>5, <1>8, <1>9, <2>2, <2>5, FileInvNext, Zenon
<1>11. ASSUME NEW j, NEW c, NEW h \in 1..Len(inodes), j = inodes[h], c = files[h]
       PROVE  FileInv(j, c)'
  <2>1. FileInv(j, c) /\ c \in Seq(Nat) /\ j \in Inodes
    <3>1. FileInv(inodes[h], files[h])
      BY <1>11, Zenon DEF Inv
    <3>2. files \in Seq(Seq(Nat)) /\ inodes \in Seq(Inodes) /\ Len(inodes) <= Len(files)
      BY WriterAssumption DEF Inv
    <3>3. files[h] \in Seq(Nat) /\ inodes[h] \in Inodes
      BY <3>2
    <3> QED
      BY <1>11, <3>1, <3>3, Zenon
  <2>2. BlocksPlaced(D, j, c)
    <3>1. BlocksPlaced(dk, j, c)
      BY <1>5, <2>1 DEF FileInv
    <3>2. BlocksPlaced(y, j, c)
      BY <1>7, <3>1, BlocksKeep, Zenon
    <3> QED
      BY <1>7, <1>8, <3>2, BlocksKeep, Zenon
  <2>3. TailPlaced(dk, g, p, j, c)
    BY <1>5, <2>1 DEF FileInv
  <2>4. j.fragOffset \in Nat /\ <<>> \in Seq(Nat) /\ p \o <<>> = p
    BY <2>1, EmptyIsSeq DEF Inodes
  <2>5. TailPlaced(dk \o x, g, p \o <<>>, j, c)
    BY <2>1, <2>3, <2>4, TailKeeps, Zenon
  <2>6. TailPlaced(y, g, p, j, c)
    BY <1>7, <2>4, <2>5, Zenon
  <2>7. TailPlaced(D, E, t, j, c)
    BY <1>7, <1>8, <2>6, TailFlushed, Zenon
  <2>8. j.size = Len(c) % Width
    BY <2>1 DEF FileInv
  <2> QED
    BY <1>4, <1>5, <1>8, <2>1, <2>2, <2>7, <2>8, FileInvNext, Zenon
<1>12. Area(disk, len)'
  <2>1. PICK n \in Nat : n = len' /\ Area(D, n)
    <3>1. Area(D, e + f) /\ len' = e + f
      BY <1>b, <1>5, <1>7, <1>8
    <3>2. e + f \in Nat
      BY <3>1 DEF Area
    <3> QED
      BY <3>1, <3>2
  <2> QED
    BY <1>8, <2>1, AreaNext
<1>13. fragBuf' \in Seq(Nat) /\ Len(fragBuf') <= BlockSize /\ fragEntries' \in Seq(Entries)
  <2>1. Len(t) <= BlockSize
    BY <1>6, BlockSizeIs
  <2> QED
    BY <1>4, <1>5, <1>8, <2>1
<1>14. Emitting
  BY DEF EmitFileAndFlush
<1> QED
  BY <1>2, <1>4, <1>9, <1>10, <1>11, <1>12, <1>13, <1>14, Emitted


\* and the end of buildImage, which writes the last fragment block.
LEMMA FinishKeeps == Inv /\ Finish => Inv'
<1> SUFFICES ASSUME Inv, Finish PROVE Inv'
  OBVIOUS
<1>1. /\ inodes \in Seq(Inodes) /\ files \in Seq(Seq(Nat)) /\ Len(inodes) = Len(files)
      /\ Area(disk, len) /\ fragBuf \in Seq(Nat) /\ Len(fragBuf) <= BlockSize
      /\ fragEntries \in Seq(Entries) /\ disk \in Seq(Blocks) /\ len \in Nat
  BY WriterAssumption DEF Inv, Finish, Area
<1>2. /\ files' = files /\ opts' = opts /\ inodes' = inodes /\ fragBuf' = <<>>
      /\ done' = TRUE /\ fragTable' = tableOf(fragEntries')
  BY DEF Finish
<1>3. /\ Area(disk, len)' /\ fragEntries' \in Seq(Entries)
      /\ \A f \in 1..Len(inodes) : FileInv(inodes[f], files[f])'
  <2>1. CASE fragBuf = <<>>
    <3>1. disk' = disk /\ len' = len /\ fragEntries' = fragEntries /\ fragBuf' = fragBuf
      BY <1>2, <2>1 DEF Finish, nothingPending
    <3>2. PICK dk, l, g, b : dk = disk /\ l = len /\ g = fragEntries /\ b = fragBuf
      OBVIOUS
    <3>3. Area(disk, len)'
      BY <1>1, <3>1, <3>2, AreaNext
    <3>4. ASSUME NEW f \in 1..Len(inodes)
          PROVE  FileInv(inodes[f], files[f])'
      <4>1. PICK j, c : j = inodes[f] /\ c = files[f]
        OBVIOUS
      <4>2. FileInv(j, c)
        BY <4>1 DEF Inv
      <4>3. FileInv(j, c)'
        BY <1>2, <3>1, <3>2, <4>2, FileInvNext DEF FileInv
      <4> QED
        BY <1>2, <4>1, <4>3
    <3> QED
      BY <1>1, <3>1, <3>3, <3>4
  <2>2. CASE fragBuf # <<>>
    <3>1. PICK f \in compress(Len(fragBuf)) :
            \E b : /\ b = BlockAt(len, fragBuf, f) /\ disk' = Append(disk, b) /\ len' = len + f
                   /\ fragEntries' = Append(fragEntries, [start |-> b.at, sizeWord |-> b.sizeWord])
      BY <2>2, Zenon DEF Finish, nothingPending
    <3>2. PICK b : /\ b = BlockAt(len, fragBuf, f) /\ disk' = Append(disk, b) /\ len' = len + f
                   /\ fragEntries' = Append(fragEntries, [start |-> b.at, sizeWord |-> b.sizeWord])
      BY <3>1, Zenon
    <3>3. PICK dk \in Seq(Blocks), p \in Seq(Nat), g \in Seq(Entries), l \in Nat :
            dk = disk /\ p = fragBuf /\ g = fragEntries /\ l = len
      BY <1>1, Zenon
    <3>4. Len(p) \in 1..BlockSize
      <4>1. Len(p) \in Nat /\ p # <<>> /\ Len(p) <= BlockSize
        BY <1>1, <2>2, <3>3
      <4>2. Len(p) # 0
        BY <4>1
      <4> QED
        BY <4>1, <4>2, BlockSizeIs
    <3>5. /\ <<b>> \in Seq(Blocks) /\ Area(dk \o <<b>>, l + f)
          /\ OnDisk(dk \o <<b>>, b.at, b.sizeWord, p)
          /\ [start |-> b.at, sizeWord |-> b.sizeWord] \in Entries
      BY <1>1, <3>2, <3>3, <3>4, FlushIs
    <3>6. PICK v \in Entries : /\ v = [start |-> b.at, sizeWord |-> b.sizeWord]
                               /\ OnDisk(dk \o <<b>>, v.start, v.sizeWord, p)
      <4>1. PICK v \in Entries : v = [start |-> b.at, sizeWord |-> b.sizeWord]
        BY <3>5, Zenon
      <4>2. v.start = b.at /\ v.sizeWord = b.sizeWord
        BY <4>1
      <4> QED
        BY <3>5, <4>1, <4>2, Zenon
    <3>7. PICK D \in Seq(Blocks), E \in Seq(Entries), n \in Nat :
            /\ D = disk' /\ D = dk \o <<b>> /\ E = fragEntries' /\ E = Append(g, v)
            /\ n = len' /\ Area(D, n)
      <4>1. Append(disk, b) = disk \o <<b>>
        BY <1>1, <3>5
      <4>2. l + f \in Nat
        BY <3>5 DEF Area
      <4>3. Append(g, v) \in Seq(Entries) /\ dk \o <<b>> \in Seq(Blocks)
        BY <3>5
      <4> QED
        BY <3>2, <3>3, <3>5, <3>6, <4>1, <4>2, <4>3, Zenon
    <3>8. Area(disk, len)'
      BY <3>7, AreaNext
    <3>9. ASSUME NEW h \in 1..Len(inodes)
          PROVE  FileInv(inodes[h], files[h])'
      <4>1. PICK j, c : j = inodes[h] /\ c = files[h]
        OBVIOUS
      <4>2. FileInv(j, c)
        BY <4>1 DEF Inv
      <4>3. BlocksPlaced(dk, j, c) /\ TailPlaced(dk, g, p, j, c)
        BY <3>3, <4>2 DEF FileInv
      <4>4. BlocksPlaced(D, j, c)
        BY <3>5, <3>7, <4>3, BlocksKeep, Zenon
      <4>5. TailPlaced(D, E, <<>>, j, c)
        BY <3>5, <3>6, <3>7, <4>3, TailFlushed, Zenon
      <4>6. j \in Inodes /\ j.size = Len(c) % Width
        BY <4>2 DEF FileInv
      <4>7. PICK z : z = <<>>
        OBVIOUS
      <4>8. FileInv(j, c)'
        BY <1>2, <3>7, <4>4, <4>5, <4>6, <4>7, FileInvNext, Zenon
      <4> QED
        BY <1>2, <4>1, <4>8
    <3> QED
      BY <3>7, <3>8, <3>9
  <2> QED
    BY <2>1, <2>2
<1>4. fragBuf' \in Seq(Nat) /\ Len(fragBuf') <= BlockSize
  <2>1. Len(<<>>) = 0 /\ 0 <= BlockSize
    BY BlockSizeIs
  <2> QED
    BY <1>2, <2>1, EmptyIsSeq
<1>5. Len(inodes') <= Len(files') /\ Len(inodes') = Len(files') /\ inodes' \in Seq(Inodes)
  BY <1>1, <1>2
<1>6. \A f \in 1..Len(inodes') : FileInv(inodes[f], files[f])'
  BY <1>2, <1>3
<1>7. files' \in Trees /\ opts' \in Options /\ done' \in BOOLEAN
  BY <1>2, Zenon DEF Inv
<1>8. fragTable' = tableOf(fragEntries)'
  BY <1>2 DEF tableOf
<1> QED
  BY <1>2, <1>3, <1>4, <1>5, <1>6, <1>7, <1>8 DEF Inv


\* The inductive invariant is preserved by every step.
LEMMA NextInv == Inv /\ [Next]_vars => Inv'
<1> SUFFICES ASSUME Inv, [Next]_vars PROVE Inv'
  OBVIOUS
<1>1. CASE Next
  BY <1>1, EmitFileKeeps, EmitFileAndFlushKeeps, FinishKeeps DEF Next
<1>2. CASE UNCHANGED vars
  <2>1. /\ files' = files /\ opts' = opts /\ disk' = disk /\ len' = len /\ fragBuf' = fragBuf
        /\ fragEntries' = fragEntries /\ inodes' = inodes /\ fragTable' = fragTable
        /\ done' = done
    BY <1>2 DEF vars
  <2>2. PICK dk, l, g, b : dk = disk /\ l = len /\ g = fragEntries /\ b = fragBuf
    OBVIOUS
  <2>3. Area(disk, len)'
    BY <2>1, <2>2, AreaNext DEF Inv
  <2>4. ASSUME NEW f \in 1..Len(inodes)
        PROVE  FileInv(inodes[f], files[f])'
    <3>1. PICK j, c : j = inodes[f] /\ c = files[f]
      OBVIOUS
    <3>2. FileInv(j, c)
      BY <3>1 DEF Inv
    <3>3. FileInv(j, c)'
      BY <2>1, <2>2, <3>2, FileInvNext DEF FileInv
    <3> QED
      BY <2>1, <3>1, <3>3
  <2>5. tableOf(fragEntries)' = tableOf(fragEntries)
    BY <2>1 DEF tableOf
  <2> QED
    BY <2>1, <2>3, <2>4, <2>5 DEF Inv
<1> QED
  BY <1>1, <1>2

\* In every reachable state of a build the blocks of each file emitted so far are on
\* disk, one behind the other from where its inode says, and its tail is in the fragment
\* block its inode names, written or pending.
THEOREM Invariance == Spec => []Inv
BY InitInv, NextInv, PTL DEF Spec

\* The pending fragment block never exceeds a block (addToFragment flushes in time), and
\* what is written lies in the data area.
THEOREM TypesHold == Spec => []TypeOK
<1>1. Inv => TypeOK
  <2> SUFFICES ASSUME Inv PROVE TypeOK
    OBVIOUS
  <2>1. Area(disk, len) /\ len \in Nat /\ DataStart \in Nat /\ DataStart <= len
    BY WriterAssumption DEF Inv, Area
  <2>2. ASSUME NEW k \in 1..Len(disk)
        PROVE  disk[k].at \in DataStart..(len - 1) /\ Len(disk[k].payload) \in 1..BlockSize
    <3>1. /\ disk[k] \in Blocks /\ Taken(disk[k]) \in 1..BlockSize /\ DataStart <= disk[k].at
          /\ disk[k].at + Taken(disk[k]) <= len /\ Len(disk[k].payload) \in 1..BlockSize
      BY <2>1 DEF Area
    <3>2. PICK a \in Nat, t \in Nat \ {0} : a = disk[k].at /\ t = Taken(disk[k])
      <4>1. disk[k].at \in Nat /\ Taken(disk[k]) \in Nat \ {0}
        BY <3>1, BlockSizeIs DEF Blocks
      <4> QED
        BY <4>1
    <3>3. a \in DataStart..(len - 1)
      BY <2>1, <3>1, <3>2
    <3> QED
      BY <3>1, <3>2, <3>3
  <2> QED
    BY <2>1, <2>2 DEF TypeOK, Inv
<1> QED
  BY <1>1, Invariance, PTL

\* addToFragment hands out an index before the block it names exists: at every moment of
\* a build each tail is where its inode says, whichever tails are packed with it and
\* however often the pending block is flushed.
THEOREM TailsHold == Spec => []TailsPlaced
<1>1. Inv => TailsPlaced
  <2> SUFFICES ASSUME Inv, NEW f \in 1..Len(inodes), NEW i, i = inodes[f], NEW d, d = files[f],
                      NEW b, b = IF i.fragIdx = Len(fragEntries) THEN fragBuf
                                 ELSE DiskImage(fragEntries[i.fragIdx + 1].start,
                                                fragEntries[i.fragIdx + 1].sizeWord).data
               PROVE  IF i.fragIdx = NoFrag THEN tailOf(d) = <<>>
                      ELSE /\ i.fragIdx <= Len(fragEntries)
                           /\ SubSeq(b, i.fragOffset + 1, i.fragOffset + Len(tailOf(d)))
                                = tailOf(d)
    BY Zenon DEF TailsPlaced
  <2>1. /\ FileInv(i, d) /\ i \in Inodes /\ d \in Seq(Nat) /\ Area(disk, len)
        /\ fragEntries \in Seq(Entries)
    <3>1. files \in Seq(Seq(Nat)) /\ inodes \in Seq(Inodes) /\ Len(inodes) <= Len(files)
      BY WriterAssumption DEF Inv
    <3>2. f \in 1..Len(files)
      BY <3>1
    <3> QED
      BY <3>1, <3>2 DEF Inv
  <2>2. CASE tailOf(d) = <<>>
    BY <2>1, <2>2 DEF FileInv, TailPlaced
  <2>3. CASE tailOf(d) # <<>>
    <3>1. PICK p \in Seq(Nat) :
            /\ FragmentIs(disk, fragEntries, fragBuf, i.fragIdx, p)
            /\ i.fragOffset + Len(tailOf(d)) <= Len(p)
            /\ \A j \in 1..Len(tailOf(d)) : p[i.fragOffset + j] = tailOf(d)[j]
      BY <2>1, <2>3 DEF FileInv, TailPlaced
    <3>2. i.fragIdx \in 0..Len(fragEntries) /\ Len(fragEntries) \in Nat
      BY <2>1, <2>3 DEF FileInv, TailPlaced
    <3>3. i.fragIdx # NoFrag /\ i.fragIdx <= Len(fragEntries)
      <4>1. PICK n \in Nat, x \in Nat : n = Len(fragEntries) /\ x = i.fragIdx /\ x <= n
        BY <3>2
      <4>2. NoFrag \notin Nat
        BY WriterAssumption
      <4> QED
        BY <4>1, <4>2, Zenon
    <3>4. b = p
      <4>1. CASE i.fragIdx = Len(fragEntries)
        BY <3>1, <4>1 DEF FragmentIs
      <4>2. CASE i.fragIdx # Len(fragEntries)
        <5>1. OnDisk(disk, fragEntries[i.fragIdx + 1].start, fragEntries[i.fragIdx + 1].sizeWord, p)
          BY <3>1, <4>2 DEF FragmentIs
        <5>2. DiskImage(fragEntries[i.fragIdx + 1].start, fragEntries[i.fragIdx + 1].sizeWord)
                = [err |-> "nil", data |-> p]
          BY <2>1, <5>1, ImageIs
        <5> QED
          BY <4>2, <5>2
      <4> QED
        BY <4>1, <4>2
    <3>5. PICK o \in Nat, t \in Seq(Nat) : o = i.fragOffset /\ t = tailOf(d)
      <4>1. i.fragOffset \in Nat /\ tailOf(d) \in Seq(Nat)
        BY <2>1, TailIs DEF Inodes
      <4> QED
        BY <4>1, Zenon
    <3>6. PICK n \in Nat : n = Len(t) /\ o + n <= Len(p) /\ \A j \in 1..n : p[o + j] = t[j]
      BY <3>1, <3>5
    <3>7. PICK z \in Seq(Nat) : /\ z = SubSeq(p, o + 1, o + n) /\ Len(z) = n
                                /\ \A j \in 1..n : z[j] = p[o + j]
      <4>1. o + n <= Len(p)
        BY <3>6
      <4>2. /\ SubSeq(p, o + 1, o + n) \in Seq(Nat) /\ Len(SubSeq(p, o + 1, o + n)) = n
            /\ \A j \in 1..n : SubSeq(p, o + 1, o + n)[j] = p[o + j]
        BY <4>1, SubSeqIs
      <4> QED
        BY <4>2, Zenon
    <3>8. z = t
      BY <3>6, <3>7, SameSeq, Zenon
    <3> QED
      BY <3>3, <3>4, <3>5, <3>6, <3>7, <3>8, Zenon
  <2> QED
    BY <2>2, <2>3, Zenon
<1> QED
  BY <1>1, Invariance, PTL


-----------------------------------------------------------------------------
\* A part of the fragment entries.
LEMMA SubEntriesIs ==
  ASSUME NEW s \in Seq(Entries), NEW a \in Nat, NEW n \in Nat, a + n <= Len(s)
  PROVE  /\ SubSeq(s, a + 1, a + n) \in Seq(Entries)
         /\ Len(SubSeq(s, a + 1, a + n)) = n
         /\ \A j \in 1..n : SubSeq(s, a + 1, a + n)[j] = s[a + j]
BY SubSeqIs

\* Entry x of the fragment table is where the index arithmetic of readFragmentEntry looks.
LEMMA EntryIs ==
  ASSUME NEW ents \in Seq(Entries), NEW x \in 0..(Len(ents) - 1),
         NEW P, P = FragPerMetaBlock, NEW tab, tab = tableOf(ents)
  PROVE  /\ Len(tab) \in Nat /\ (x \div P) + 1 \in 1..Len(tab)
         /\ tab[(x \div P) + 1] \in Seq(Entries)
         /\ x % P \in Nat /\ x % P < Len(tab[(x \div P) + 1])
         /\ tab[(x \div P) + 1][(x % P) + 1] = ents[x + 1]
<1>1. P \in Nat \ {0} /\ x \in Nat
  BY WriterAssumption
<1>2. PICK n \in Nat : n = Len(ents) /\ x < n
  BY <1>1
<1>3. PICK q \in Nat, r \in 0..(P - 1), Q \in Nat :
        q = x \div P /\ r = x % P /\ x = Q + r /\ Q = q * P
  BY <1>1, DivOf, Zenon
<1>4. PICK m \in Nat, t \in 0..(P - 1), M \in Nat :
        m = (n + P - 1) \div P /\ n + P - 1 = M + t /\ M = m * P
  <2>1. PICK h \in Nat : h = n + P - 1
    BY <1>1, <1>2
  <2>2. PICK m \in Nat, t \in 0..(P - 1), M \in Nat :
          m = h \div P /\ h = M + t /\ M = m * P
    BY <1>1, DivOf, Zenon
  <2> QED
    BY <2>1, <2>2, Zenon
<1>5. q + 1 \in 1..m
  <2>1. Q < M
    BY <1>1, <1>2, <1>3, <1>4
  <2>2. m <= q => m * P <= q * P
    BY <1>1
  <2>3. m <= q => M <= Q
    BY <1>3, <1>4, <2>2
  <2> QED
    BY <2>1, <2>3
<1>6. PICK K : K = [k \in 1..m |-> SubSeq(ents, (k - 1) * P + 1, Min({k * P, n}))] /\ tab = K
  BY <1>2, <1>4, Zenon DEF tableOf
<1>7. K[q + 1] = SubSeq(ents, ((q + 1) - 1) * P + 1, Min({(q + 1) * P, n}))
  BY <1>5, <1>6, Zenon
<1>8. ((q + 1) - 1) * P = Q /\ (q + 1) * P = Q + P
  <2>1. q * P = Q
    BY <1>3
  <2>2. (q + 1) - 1 = q /\ (q + 1) * P = q * P + P
    BY <1>1
  <2> QED
    BY <2>1, <2>2
<1>9. PICK c \in Nat : Min({Q + P, n}) = Q + c /\ Q + c <= n /\ r < c
  <2>1. Min({Q + P, n}) = IF Q + P <= n THEN Q + P ELSE n
    BY <1>1, MinOf
  <2>2. CASE Q + P <= n
    <3>1. P \in Nat /\ r < P /\ Min({Q + P, n}) = Q + P
      BY <1>1, <2>1, <2>2
    <3> QED
      BY <2>2, <3>1, Zenon
  <2>3. CASE ~(Q + P <= n)
    <3>1. Q <= n
      BY <1>2, <1>3
    <3>2. PICK c \in Nat : c = n - Q /\ n = Q + c
      BY <3>1, Rest, Zenon
    <3>3. r < c /\ Q + c <= n /\ Min({Q + P, n}) = Q + c
      <4>1. x = Q + r
        BY <1>3
      <4>2. r < c /\ Q + c <= n
        BY <1>2, <3>2, <4>1
      <4>3. Min({Q + P, n}) = n
        BY <2>1, <2>3, Zenon
      <4> QED
        BY <3>2, <4>2, <4>3, Zenon
    <3> QED
      BY <3>3, Zenon
  <2> QED
    BY <2>2, <2>3, Zenon
<1>10. PICK z \in Seq(Entries) : /\ z = K[q + 1] /\ Len(z) = c
                                  /\ \A j \in 1..c : z[j] = ents[Q + j]
  <2>1. Q + c <= Len(ents)
    BY <1>2, <1>9
  <2>2. /\ SubSeq(ents, Q + 1, Q + c) \in Seq(Entries) /\ Len(SubSeq(ents, Q + 1, Q + c)) = c
        /\ \A j \in 1..c : SubSeq(ents, Q + 1, Q + c)[j] = ents[Q + j]
    BY <2>1, SubEntriesIs, Zenon
  <2>3. K[q + 1] = SubSeq(ents, Q + 1, Q + c)
    BY <1>7, <1>8, <1>9, Zenon
  <2> QED
    BY <2>2, <2>3, Zenon
<1>11. Len(tab) = m
  <2>1. DOMAIN tab = 1..m
    BY <1>6
  <2> QED
    BY <2>1
<1>12. z[r + 1] = ents[x + 1] /\ r < Len(z) /\ r \in Nat
  <2>1. r + 1 \in 1..c /\ Q + (r + 1) = x + 1 /\ r \in Nat
    <3>1. r \in Nat
      BY <1>1
    <3>2. x = Q + r /\ r < c
      BY <1>3, <1>9, Zenon
    <3> QED
      BY <3>1, <3>2
  <2>2. z[r + 1] = ents[Q + (r + 1)]
    BY <1>10, <2>1
  <2> QED
    BY <1>9, <1>10, <2>1, <2>2
<1> QED
  BY <1>3, <1>5, <1>6, <1>10, <1>11, <1>12, Zenon

\* What a read of a block on disk can return.
LEMMA ReadIs ==
  ASSUME Area(disk, len), NEW a, NEW w, NEW p, OnDisk(disk, a, w, p)
  PROVE  /\ Format!readBlock(a, w) = {Format!Ok(p), Format!Fail("ioerr")}
         /\ ~Format!OutsideImage(a, Format!blockOnDiskBytes(w))
<1>1. PICK n \in Nat : n = Format!blockOnDiskBytes(w) /\ n # 0 /\ n <= BlockSize
  BY ImageIs, BlockSizeIs
<1>2. a \in Nat /\ a + n <= len /\ len \in Nat
  BY <1>1, ImageIs DEF Area
<1>3. ~(a < 0) /\ ~(a > len - n)
  BY <1>2
<1>4. ~Format!OutsideImage(a, n)
  BY <1>3 DEF Format!OutsideImage
<1>5. ~(n > BlockSize)
  BY <1>1, BlockSizeIs
<1>6. Format!readBlock(a, w) = {DiskImage(a, w), Format!Fail("ioerr")}
  BY <1>1, <1>4, <1>5, Zenon DEF Format!readBlock
<1>7. DiskImage(a, w) = Format!Ok(p)
  BY ImageIs DEF Format!Ok
<1> QED
  BY <1>1, <1>4, <1>6, <1>7

\* An offset below the width of a 32-bit field is itself as an int64.
LEMMA SameInt64 ==
  ASSUME NEW a \in Nat, a < Width
  PROVE  Format!int64(a) = a
<1>1. PICK W \in Nat, L \in Nat : W = Width /\ L = SizeLimit /\ 2 * W <= L
  BY WriterAssumption
<1>2. W <= L \div 2
  BY <1>1
<1>3. a < L \div 2
  BY <1>1, <1>2
<1> QED
  BY <1>1, <1>3 DEF Format!int64

\* A block that is on disk starts below the end of the data area.
LEMMA StartsBelow ==
  ASSUME Area(disk, len), NEW a, NEW w, NEW p, OnDisk(disk, a, w, p), len <= Width
  PROVE  a \in Nat /\ a < Width /\ Format!int64(a) = a
<1>1. PICK n \in Nat : n = Format!blockOnDiskBytes(w) /\ n # 0
  BY ImageIs, BlockSizeIs
<1>2. a \in Nat /\ a + n <= len /\ len \in Nat
  BY <1>1, ImageIs DEF Area
<1>3. a < Width
  BY <1>1, <1>2, WriterAssumption
<1> QED
  BY <1>2, <1>3, SameInt64

\* What a read of a fragment block can return once the table is written.
LEMMA FragmentRead ==
  ASSUME Inv, done, len <= Width, NEW x \in 0..(Len(fragEntries) - 1), NEW p,
         OnDisk(disk, fragEntries[x + 1].start, fragEntries[x + 1].sizeWord, p)
  PROVE  Format!readFragment(x) = {Format!Ok(p), Format!Fail("ioerr")}
<1>1. /\ fragEntries \in Seq(Entries) /\ fragTable = tableOf(fragEntries) /\ Area(disk, len)
  BY DEF Inv
<1>2. PICK P, q, r, e, T : /\ P = FragPerMetaBlock /\ q = (x \div P) + 1 /\ r = x % P
                           /\ e = fragEntries[x + 1] /\ T = fragTable
  OBVIOUS
<1>3. q \in 1..Len(T) /\ r \in Nat /\ r < Len(T[q]) /\ T[q][r + 1] = e
  <2>1. /\ (x \div P) + 1 \in 1..Len(T) /\ x % P \in Nat /\ x % P < Len(T[(x \div P) + 1])
        /\ T[(x \div P) + 1][(x % P) + 1] = fragEntries[x + 1]
    <3>1. PICK ents : ents = fragEntries
      OBVIOUS
    <3>2. /\ ents \in Seq(Entries) /\ x \in 0..(Len(ents) - 1)
          /\ P = FragPerMetaBlock /\ T = tableOf(ents)
      BY <1>1, <1>2, <3>1, Zenon
    <3>3. /\ (x \div P) + 1 \in 1..Len(T) /\ x % P \in Nat /\ x % P < Len(T[(x \div P) + 1])
          /\ T[(x \div P) + 1][(x % P) + 1] = ents[x + 1]
      BY <3>2, EntryIs
    <3> QED
      BY <3>1, <3>3, Zenon
  <2> QED
    BY <1>2, <2>1, Zenon
<1>4. ~(x >= Len(fragEntries)) /\ ~(r >= Len(T[q]))
  <2>1. PICK n \in Nat : n = Len(fragEntries)
    BY <1>1
  <2>2. ~(x >= n)
    BY <2>1
  <2>3. Len(T[q]) \in Nat => ~(r >= Len(T[q]))
    BY <1>3
  <2>4. T[q] \in Seq(Entries)
    BY <1>1, <1>2, EntryIs
  <2> QED
    BY <2>1, <2>2, <2>3, <2>4
<1>5. PICK F : /\ F = [k \in 1..Len(T) |-> [err |-> "nil", data |-> T[k]]]
               /\ F[q] = [err |-> "nil", data |-> T[q]]
  <2>1. PICK F : F = [k \in 1..Len(T) |-> [err |-> "nil", data |-> T[k]]]
    BY Zenon
  <2>2. F[q] = [err |-> "nil", data |-> T[q]]
    BY <1>3, <2>1
  <2> QED
    BY <2>1, <2>2
<1>6. F[q].err = "nil" /\ F[q].data = T[q]
  BY <1>5
<1>7. PICK a, b : a = Format!Fail("ioerr") /\ b = Format!Ok(e)
  OBVIOUS
<1>8. Format!readFragmentEntry(x) = {a, b}
  BY <1>2, <1>3, <1>4, <1>5, <1>6, <1>7, Zenon DEF Format!readFragmentEntry
<1>9. a.err # "nil" /\ b.err = "nil" /\ b.data = e
  BY <1>7 DEF Format!Fail, Format!Ok
<1>10. Format!readBlock(Format!int64(b.data.start), b.data.sizeWord) = {Format!Ok(p), a}
  <2>1. Format!readBlock(e.start, e.sizeWord) = {Format!Ok(p), a}
    BY <1>1, <1>2, <1>7, ReadIs
  <2>2. Format!int64(e.start) = e.start
    BY <1>1, <1>2, StartsBelow
  <2> QED
    BY <1>9, <2>1, <2>2
<1>11. Format!readFragment(x) = {a} \cup {Format!Ok(p), a}
  <2> DEFINE G(y) == IF y.err # "nil" THEN {y}
                     ELSE Format!readBlock(Format!int64(y.data.start), y.data.sizeWord)
  <2>1. Format!readFragment(x) = UNION {G(y) : y \in {a, b}}
    BY <1>8 DEF Format!readFragment
  <2>2. G(a) = {a} /\ G(b) = {Format!Ok(p), a}
    BY <1>9, <1>10
  <2> HIDE DEF G
  <2>3. UNION {G(y) : y \in {a, b}} = G(a) \cup G(b)
    BY Zenon
  <2> QED
    BY <2>1, <2>2, <2>3, Zenon
<1> QED
  BY <1>7, <1>11


\* A number below the width survives its field.
LEMMA FitsField ==
  ASSUME NEW n \in Nat, n < Width
  PROVE  n % Width = n
<1>1. PICK W \in Nat \ {0} : W = Width
  BY WriterAssumption
<1>2. n \in 0..(W - 1)
  BY <1>1
<1>3. (0 * W + n) % W = n
  BY <1>2, DivMod
<1>4. n % W = n
  BY <1>3
<1> QED
  BY <1>1, <1>4

\* The reader decodes the inode that was written.
LEMMA DecodedIs ==
  ASSUME NEW i \in Inodes, NEW d \in Seq(Nat), FileInv(i, d), Len(d) < Width
  PROVE  Decoded(i) = i /\ i.size = Len(d) /\ Len(i.blocks) = Count(d)
<1>1. i.size = Len(d)
  BY FitsField DEF FileInv
<1>2. Len(i.blocks) = Count(d) /\ i.blocks \in Seq(Nat)
  BY DEF FileInv, BlocksPlaced, Inodes
<1>3. Format!blockCount(i.size, i.fragIdx # NoFrag) = Count(d)
  <2>1. CASE tailOf(d) = <<>>
    <3>1. (i.fragIdx # NoFrag) = FALSE
      BY <2>1 DEF FileInv, TailPlaced
    <3>2. Len(d) + BlockSize <= SizeLimit
      BY WriterAssumption
    <3>3. Format!blockCount(Len(d), FALSE) = Count(d)
      BY <2>1, <3>2, CountIs, Zenon
    <3> QED
      BY <1>1, <3>1, <3>3, Zenon
  <2>2. CASE tailOf(d) # <<>>
    <3>1. i.fragIdx \in 0..Len(fragEntries)
      BY <2>2 DEF FileInv, TailPlaced
    <3>2. i.fragIdx \in Nat
      BY <3>1
    <3>3. (i.fragIdx # NoFrag) = TRUE
      BY <3>2, WriterAssumption
    <3>4. Format!blockCount(Len(d), TRUE) = Count(d)
      BY <2>2, CountIs, Zenon
    <3> QED
      BY <1>1, <3>3, <3>4, Zenon
  <2> QED
    BY <2>1, <2>2
<1>4. SubSeq(i.blocks, 1, Count(d)) = i.blocks
  <2>1. PICK w \in Seq(Nat), n \in Nat : w = i.blocks /\ n = Count(d) /\ Len(w) = n
    BY <1>2
  <2>2. /\ SubSeq(w, 1, n) \in Seq(Nat) /\ Len(SubSeq(w, 1, n)) = n
        /\ \A j \in 1..n : SubSeq(w, 1, n)[j] = w[j]
    BY <2>1
  <2>3. SubSeq(w, 1, n) = w
    BY <2>1, <2>2, SameSeq
  <2> QED
    BY <2>1, <2>3
<1>5. Decoded(i) = [i EXCEPT !.blocks = i.blocks]
  BY <1>3, <1>4, Zenon DEF Decoded
<1>6. [i EXCEPT !.blocks = i.blocks] = i
  BY DEF Inodes
<1> QED
  BY <1>1, <1>2, <1>5, <1>6

\* The library operators as the format's instance sees them.
LEMMA SameSum ==
  ASSUME NEW f, NEW S
  PROVE  Format!SumFunctionOnSet(f, S) = SumFunctionOnSet(f, S)
BY DEF SumFunctionOnSet, FoldFunctionOnSet, MapThenFoldSet,
       Format!SumFunctionOnSet, Format!FoldFunctionOnSet, Format!MapThenFoldSet

\* The format's Min, instantiated, is the same operator.
LEMMA SameMin ==
  ASSUME NEW S
  PROVE  Format!Min(S) = Min(S)
BY DEF Min, Format!Min

\* A byte of a file that is in one of its blocks is read back.
LEMMA BlockReads ==
  ASSUME Area(disk, len), len <= Width, NEW i \in Inodes, NEW d \in Seq(Nat),
         FileInv(i, d), i.size = Len(d), NEW k \in 1..Count(d)
  PROVE  /\ Format!GoodBlock(i, k) /\ Format!Stored(i, k) # 0
         /\ DiskImage(Format!BlockStart(i, k), i.blocks[k]).data = blocksOf(d)[k]
<1>1. PICK m \in Nat : m = Count(d)
  BY FileCut
<1>2. PICK st \in Nat, s \in [1..m -> Nat] :
        /\ i.start = st % Width /\ Len(i.blocks) = m
        /\ \A j \in 1..m :
             /\ s[j] \in 1..Len(blocksOf(d)[j])
             /\ i.blocks[j] = sizeWord(Len(blocksOf(d)[j]), s[j])
             /\ OnDisk(disk, st + SumFunctionOnSet(s, 1..(j - 1)), i.blocks[j], blocksOf(d)[j])
  BY <1>1, Zenon DEF FileInv, BlocksPlaced
<1>3. ASSUME NEW j \in 1..m
      PROVE  Format!Stored(i, j) = s[j]
  <2>1. PICK n \in 1..BlockSize : n = Len(blocksOf(d)[j])
    BY <1>1, PieceIs, Zenon
  <2>2. s[j] \in 1..n /\ i.blocks[j] = sizeWord(n, s[j])
    BY <1>2, <2>1
  <2>3. Format!blockOnDiskBytes(sizeWord(n, s[j])) = s[j]
    BY <2>2, WordIs
  <2> QED
    BY <2>2, <2>3 DEF Format!Stored
<1>4. [j \in 1..Len(i.blocks) |-> Format!Stored(i, j)] = s
  BY <1>2, <1>3
<1>5. PICK S \in Nat : S = SumFunctionOnSet(s, 1..(k - 1))
  <2>1. k \in 1..(m + 1)
    BY <1>1
  <2> QED
    BY <2>1, SumsAre, Zenon
<1>6. OnDisk(disk, st + S, i.blocks[k], blocksOf(d)[k])
  BY <1>1, <1>2, <1>5
<1>7. PICK n \in Nat : /\ n = Format!blockOnDiskBytes(i.blocks[k]) /\ n # 0 /\ n <= BlockSize
                       /\ st + S + n <= len /\ ~Format!OutsideImage(st + S, n)
                       /\ DiskImage(st + S, i.blocks[k]) = [err |-> "nil", data |-> blocksOf(d)[k]]
  <2>1. Area(disk, len)
    OBVIOUS
  <2>2. PICK a, w, p : a = st + S /\ w = i.blocks[k] /\ p = blocksOf(d)[k]
    OBVIOUS
  <2>3. OnDisk(disk, a, w, p)
    BY <1>6, <2>2, Zenon
  <2>4. /\ DiskImage(a, w) = [err |-> "nil", data |-> p]
        /\ Format!blockOnDiskBytes(w) \in 1..BlockSize
        /\ a + Format!blockOnDiskBytes(w) <= len
        /\ ~Format!OutsideImage(a, Format!blockOnDiskBytes(w))
    BY <2>1, <2>3, ImageIs, ReadIs, Zenon
  <2>5. \A n \in 1..BlockSize : n \in Nat /\ n # 0 /\ n <= BlockSize
    BY BlockSizeIs
  <2> QED
    BY <2>2, <2>4, <2>5, Zenon
<1>8. i.start = st /\ Format!int64(i.start) = st
  <2>1. st < Width
    BY <1>7, WriterAssumption DEF Area
  <2> QED
    BY <1>2, <2>1, FitsField, SameInt64
<1>9. Format!BlockStart(i, k) = st + S
  <2>1. Format!BlockStart(i, k)
          = Format!int64(i.start)
              + SumFunctionOnSet([j \in 1..Len(i.blocks) |-> Format!Stored(i, j)], 1..(k - 1))
    BY SameSum DEF Format!BlockStart
  <2> QED
    BY <1>4, <1>5, <1>8, <2>1, Zenon
<1>10. Format!Stored(i, k) = n
  BY <1>7 DEF Format!Stored
<1>11. Len(blocksOf(d)[k]) >= Min({BlockSize, i.size - (k - 1) * BlockSize})
  <2>1. Len(blocksOf(d)[k]) = Min({BlockSize, i.size - (k - 1) * BlockSize})
    BY ShareIs DEF From
  <2>2. PICK z \in Nat : z = Len(blocksOf(d)[k])
    <3>1. blocksOf(d)[k] \in Seq(Nat)
      BY PieceIs, Zenon
    <3> QED
      BY <3>1
  <2>3. z >= z
    OBVIOUS
  <2> QED
    BY <2>1, <2>2, <2>3, Zenon
<1>12. Format!GoodBlock(i, k)
  <2>1. PICK v : v = DiskImage(st + S, i.blocks[k]) /\ v.err = "nil" /\ v.data = blocksOf(d)[k]
    BY <1>7
  <2>2. Format!Holds(v, Format!Min({BlockSize, i.size - (k - 1) * BlockSize}))
    BY <1>11, <2>1, SameMin, Zenon DEF Format!Holds
  <2> QED
    BY <1>7, <1>9, <1>10, <2>1, <2>2, Zenon DEF Format!GoodBlock
<1>13. DiskImage(st + S, i.blocks[k]).data = blocksOf(d)[k]
  BY <1>7
<1> QED
  BY <1>7, <1>9, <1>10, <1>12, <1>13, Zenon

\* The tail of a file is read back.
LEMMA TailReads ==
  ASSUME Inv, done, len <= Width, NEW i \in Inodes, NEW d \in Seq(Nat), FileInv(i, d),
         i.size = Len(d), tailOf(d) # <<>>, Len(i.blocks) = Count(d)
  PROVE  /\ Format!GoodTail(i)
         /\ \A j \in 1..Len(tailOf(d)) :
              (CHOOSE r \in Format!readFragment(i.fragIdx) : r.err = "nil").data[i.fragOffset + j]
                = tailOf(d)[j]
<1>1. PICK x \in 0..Len(fragEntries) : x = i.fragIdx /\ Len(fragEntries) \in Nat
  <2>1. i.fragIdx \in 0..Len(fragEntries)
    BY Zenon DEF FileInv, TailPlaced
  <2>2. fragEntries \in Seq(Entries)
    BY DEF Inv
  <2>3. Len(fragEntries) \in Nat
    BY <2>2
  <2> QED
    BY <2>1, <2>3, Zenon
<1>2. PICK p \in Seq(Nat) :
        /\ FragmentIs(disk, fragEntries, fragBuf, x, p)
        /\ i.fragOffset + Len(tailOf(d)) <= Len(p)
        /\ \A j \in 1..Len(tailOf(d)) : p[i.fragOffset + j] = tailOf(d)[j]
  BY <1>1 DEF FileInv, TailPlaced
<1>3. PICK o \in Nat, n \in Nat, f \in Nat : /\ o = i.fragOffset /\ n = Len(tailOf(d)) /\ n # 0
                                             /\ f = fullLen(d) /\ n = Len(d) - f
  <2>1. i.fragOffset \in Nat /\ Len(tailOf(d)) \in Nat /\ fullLen(d) \in Nat
    BY TailIs, FileCut DEF Inodes
  <2>2. Len(tailOf(d)) # 0 /\ Len(tailOf(d)) = Len(d) - fullLen(d)
    BY TailIs
  <2> QED
    BY <2>1, <2>2, Zenon
<1>4. x # Len(fragEntries)
  <2>1. ASSUME x = Len(fragEntries)
        PROVE  FALSE
    <3>1. p = <<>>
      BY <1>2, <2>1 DEF FragmentIs, Inv
    <3>2. Len(p) = 0
      BY <3>1
    <3> QED
      BY <1>2, <1>3, <3>2
  <2> QED
    BY <2>1
<1>5. x \in 0..(Len(fragEntries) - 1)
  BY <1>1, <1>4
<1>6. Format!readFragment(x) = {Format!Ok(p), Format!Fail("ioerr")}
  BY <1>2, <1>4, <1>5, FragmentRead DEF FragmentIs
<1>7. PICK a, b : /\ a = Format!Ok(p) /\ b = Format!Fail("ioerr") /\ a.err = "nil" /\ a.data = p
                  /\ b.err = "ioerr" /\ b.err # "nil"
  <2>1. PICK a, b : a = Format!Ok(p) /\ b = Format!Fail("ioerr")
    OBVIOUS
  <2> QED
    BY <2>1 DEF Format!Ok, Format!Fail
<1>8. (CHOOSE r \in {a, b} : r.err = "nil") = a
  BY <1>7, Zenon
<1>9. i.fragOffset + i.size - Len(i.blocks) * BlockSize = o + n
  <2>1. f = Count(d) * BlockSize
    <3>1. f < Len(d)
      BY <1>3
    <3> QED
      BY <1>3, <3>1, FileCut
  <2>2. Len(i.blocks) * BlockSize = f
    BY <2>1
  <2>3. i.size \in Nat /\ i.size = f + n
    BY <1>3
  <2>4. o + i.size - f = o + n
    BY <2>3
  <2> QED
    BY <1>3, <2>2, <2>4, Zenon
<1>10. Format!GoodTail(i)
  <2>1. i.fragIdx # NoFrag
    <3>1. x \in Nat
      OBVIOUS
    <3> QED
      BY <1>1, <3>1, WriterAssumption
  <2>2. o + n <= Len(p) /\ Len(p) \in Nat
    BY <1>2, <1>3
  <2>3. Len(p) >= o + n
    BY <2>2
  <2>4. Format!Holds(a, o + n)
    BY <1>7, <2>3, Zenon DEF Format!Holds
  <2> QED
    BY <1>1, <1>6, <1>7, <1>9, <2>1, <2>4, Zenon DEF Format!GoodTail
<1> QED
  BY <1>1, <1>2, <1>6, <1>7, <1>8, <1>10, Zenon

\* A file of the tree is read back whole.
LEMMA FileReads ==
  ASSUME Inv, done, Fits, NEW f \in 1..Len(files), NEW d, d = files[f],
         NEW i, i = Decoded(inodes[f])
  PROVE  /\ i.size = Len(d)
         /\ \A p \in 0..(Len(d) - 1) : Format!Readable(i, p) /\ Format!Byte(i, p) = d[p + 1]
<1>1. /\ files \in Seq(Seq(Nat)) /\ inodes \in Seq(Inodes) /\ Len(inodes) = Len(files)
      /\ Area(disk, len) /\ len <= Width
  BY WriterAssumption DEF Inv, Fits
<1>2. d \in Seq(Nat) /\ inodes[f] \in Inodes /\ FileInv(inodes[f], d) /\ Len(d) < Width
  BY <1>1 DEF Inv, Fits
<1>3. i = inodes[f] /\ i.size = Len(d) /\ Len(i.blocks) = Count(d)
  BY <1>2, DecodedIs
<1>4. i \in Inodes /\ FileInv(i, d)
  BY <1>2, <1>3
<1>5. ASSUME NEW p \in 0..(Len(d) - 1)
      PROVE  Format!Readable(i, p) /\ Format!Byte(i, p) = d[p + 1]
  <2>1. PICK b \in Nat \ {0}, m \in Nat, n \in Nat :
          b = BlockSize /\ m = Count(d) /\ n = Len(d)
    <3>1. BlockSize \in Nat \ {0} /\ Count(d) \in Nat /\ Len(d) \in Nat
      BY <1>2, BlockSizeIs, FileCut
    <3> QED
      BY <3>1, Zenon
  <2>2. PICK q \in Nat : q = p \div b
    <3>1. p \in Nat
      BY <1>2
    <3> QED
      BY <3>1, DivOf, Zenon
  <2>3. PICK k \in Nat \ {0} : k = q + 1 /\ k = (p \div BlockSize) + 1
    BY <2>1, <2>2
  <2>4. Format!Plausible(i)
    <3>1. Len(d) <= (Count(d) + 1) * BlockSize
      BY <1>2, CountIs, Zenon
    <3> QED
      BY <1>3, <3>1 DEF Format!Plausible
  <2>5. CASE k <= m
    <3>1. k \in 1..Count(d) /\ p \div BlockSize < Len(i.blocks) /\ ~(k > Len(i.blocks))
      BY <1>3, <2>1, <2>2, <2>3, <2>5
    <3>2. /\ Format!GoodBlock(i, k) /\ Format!Stored(i, k) # 0
          /\ DiskImage(Format!BlockStart(i, k), i.blocks[k]).data = blocksOf(d)[k]
      BY <1>1, <1>2, <1>3, <1>4, <3>1, BlockReads, Zenon
    <3>3. Format!Readable(i, p)
      BY <2>3, <2>4, <3>1, <3>2, Zenon DEF Format!Readable
    <3>4. blocksOf(d)[k][(p % BlockSize) + 1] = d[p + 1]
      BY <1>2, <2>1, <2>3, <2>5, ByteIs, Zenon
    <3>5. Format!Byte(i, p) = blocksOf(d)[k][(p % BlockSize) + 1]
      BY <2>3, <3>1, <3>2, Zenon DEF Format!Byte
    <3> QED
      BY <3>3, <3>4, <3>5
  <2>6. CASE ~(k <= m)
    <3>1. /\ fullLen(d) < Len(d) /\ fullLen(d) <= p
          /\ (p - fullLen(d)) + 1 \in 1..Len(tailOf(d))
          /\ tailOf(d)[(p - fullLen(d)) + 1] = d[p + 1]
      <4>1. k > Count(d)
        BY <2>1, <2>6
      <4> QED
        BY <1>2, <2>3, <4>1, ByteIs, Zenon
    <3>2. PICK g \in Nat : g = fullLen(d) /\ g = Len(i.blocks) * BlockSize
      BY <1>2, <1>3, <3>1, FileCut
    <3>3. tailOf(d) # <<>>
      BY <1>2, <3>1, TailIs
    <3>4. PICK j \in 1..Len(tailOf(d)), o \in Nat : j = (p - g) + 1 /\ o = i.fragOffset
      BY <1>4, <3>1, <3>2 DEF Inodes
    <3>5. /\ Format!GoodTail(i)
          /\ (CHOOSE r \in Format!readFragment(i.fragIdx) : r.err = "nil").data[o + j]
               = tailOf(d)[j]
      <4>1. /\ Format!GoodTail(i)
            /\ \A y \in 1..Len(tailOf(d)) :
                 (CHOOSE r \in Format!readFragment(i.fragIdx) : r.err = "nil").data
                   [i.fragOffset + y] = tailOf(d)[y]
        BY <1>1, <1>2, <1>3, <1>4, <3>3, TailReads
      <4> QED
        BY <3>4, <4>1, Zenon
    <3>6. o + p - g + 1 = o + j
      <4>1. p \in Nat /\ j \in Int
        BY <1>2
      <4> QED
        BY <3>4, <4>1
    <3>7. ~(p \div BlockSize < Len(i.blocks)) /\ k > Len(i.blocks)
      BY <1>3, <2>1, <2>2, <2>3, <2>6
    <3>8. Format!Readable(i, p)
      BY <2>4, <3>5, <3>7, Zenon DEF Format!Readable
    <3>9. Format!Byte(i, p)
            = (CHOOSE r \in Format!readFragment(i.fragIdx) : r.err = "nil").data[o + p - g + 1]
      BY <2>3, <3>2, <3>4, <3>7, Zenon DEF Format!Byte
    <3> QED
      BY <3>1, <3>2, <3>4, <3>5, <3>6, <3>8, <3>9, Zenon
  <2> QED
    BY <2>5, <2>6
<1> QED
  BY <1>3, <1>5

\* "A standard SquashFS 4.0 image that unsquashfs (and this package) can read": once
\* buildImage has returned, every file of every tree reads back with its size and all its
\* bytes, for every block size, every compressor and every way tails share fragment
\* blocks, as long as the image and its files fit the 32-bit fields of a file inode.
THEOREM FilesReadBack == Spec => []ReadsBack
<1>1. Inv => ReadsBack
  BY FileReads, Zenon DEF ReadsBack
<1> QED
  BY <1>1, Invariance, PTL
=============================================================================
