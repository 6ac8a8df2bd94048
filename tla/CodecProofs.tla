----------------------------- MODULE CodecProofs -----------------------------
(***************************************************************************)
(* Opening an image and decoding one of its blocks, for every image, stream,   *)
(* option and limit.                                                           *)
(***************************************************************************)
EXTENDS Codec, TLAPS

Opening == {"stat", "superblock", "decompressor", "options"}

\* The handle.  Until Open has decided it is open and was never closed; afterwards
\* it is as AllOrNothing says.
HandleInv ==
  /\ pc \in {"build", "start", "open", "done"} \cup Opening
  /\ pc \in {"build", "start"} =>
       /\ handle = IF how = "OpenFile" THEN "none" ELSE "open"
       /\ closes = 0 /\ value = "none"
  /\ pc = "stat" => how = "OpenFile"
  /\ pc \in Opening => handle = "open" /\ closes = 0 /\ value = "none"
  /\ pc = "open" => /\ value = "fs" /\ closes \in Nat
                    /\ handle = "open" <=> closes = 0
  /\ pc = "done" /\ value # "none" =>
       /\ value = "nil" /\ err # "nil"
       /\ IF how = "OpenFile" THEN handle = "none" \/ (handle = "closed" /\ closes = 1)
                              ELSE handle = "open" /\ closes = 0

\* Open and OpenFile keep the handle with the value they return and with nothing else,
\* for every image and at every error path, and Close releases it once.
THEOREM OpenAllOrNothing == BlockSpec => []AllOrNothing
<1>1. BlockInit => HandleInv
  BY DEF BlockInit, Init, HandleInv, Opening
<1>2. ASSUME HandleInv, [BlockNext]_allVars PROVE HandleInv'
  <2>0. ASSUME NEW e, e # "nil", pc \in Opening, refuse(e) PROVE HandleInv'
    BY <1>2, <2>0 DEF HandleInv, refuse, onError, CloseOnError, Opening
  <2>1. CASE BuildImage
    BY <1>2, <2>1 DEF HandleInv, BuildImage, Opening
  <2>2. CASE OsOpen
    BY <1>2, <2>2 DEF HandleInv, OsOpen, onError, Opening
  <2>3. CASE Stat
    BY <1>2, <2>0, <2>3 DEF HandleInv, Stat, Goto, Opening
  <2>4. CASE OpenCalled
    BY <1>2, <2>4 DEF HandleInv, OpenCalled, Goto, Opening
  <2>5. CASE ReadSuperblock
    BY <1>2, <2>0, <2>5 DEF HandleInv, ReadSuperblock, Goto, Opening
  <2>6. CASE NewDecompressor
    BY <1>2, <2>0, <2>6 DEF HandleInv, NewDecompressor, Opening
  <2>7. CASE ReadCompressorOptions
    BY <1>2, <2>0, <2>7 DEF HandleInv, ReadCompressorOptions, returned, asFilesystem, Opening
  <2>8. CASE ReadFails
    BY <1>2, <2>0, <2>8 DEF ReadFails, Opening
  <2>9. CASE Close
    BY <1>2, <2>9 DEF HandleInv, Close, Opening
  <2>10. CASE UNCHANGED vars
    BY <1>2, <2>10 DEF HandleInv, vars, Opening
  <2> QED
    BY <1>2, <2>1, <2>2, <2>3, <2>4, <2>5, <2>6, <2>7, <2>8, <2>9, <2>10
    DEF BlockNext, Next, ReadBlock, Sparse, RefuseLength, ReadRaw, NewReader, ReadMore, WindowFull, StreamEnds,
        LimitReached, DecodeAll, Quiet, return, allVars
<1>3. HandleInv => AllOrNothing
  BY DEF HandleInv, AllOrNothing
<1> QED
  BY <1>1, <1>2, <1>3, PTL DEF BlockSpec

-----------------------------------------------------------------------------
\* What buildImage writes for the options o.
Written(o) == [len |-> SuperblockSize + (IF writeCompressorOptions(o) > 0
                                         THEN 2 + writeCompressorOptions(o) ELSE 0) + TablesLen,
               optSize |-> writeCompressorOptions(o), sb |-> superblock(o)]

Refused(o) == comp(o) = "unsupported" /\ value = "none" /\ closes = 0

\* The image.  Past the superblock its geometry is sound, past the decompressor its
\* codec is known; one that buildImage wrote is never refused.
ImageInv ==
  /\ pc \in {"decompressor", "options", "open"} => ~BadGeometry(img.sb)
  /\ pc \in {"options", "open"} =>
       d = newDecompressor(img.sb.Compression) /\ d # "unsupported"
  /\ pc = "build" => opts # <<>> /\ value = "none" /\ closes = 0
  /\ opts = <<>> => img \in Foreign
  /\ opts # <<>> =>
       /\ pc \notin {"build", "done"} => comp(opts[1]) # "unsupported" /\ img = Written(opts[1])
       /\ pc = "done" /\ err # "ioerr" => Refused(opts[1])

\* The reader's checks accept what the writer writes, and find its codec.
LEMMA WrittenAccepted ==
  ASSUME NEW o, comp(o) # "unsupported"
  PROVE  LET w == Written(o)
         IN  /\ w.len \in Nat /\ w.len >= SuperblockSize /\ w.sb.magic /\ w.sb.version = <<4, 0>>
             /\ ~BadGeometry(w.sb) /\ w.sb.BlockSize = BlockSize
             /\ newDecompressor(w.sb.Compression) # "unsupported"
             /\ comp(o) # "nil" => newDecompressor(w.sb.Compression) = comp(o)
             /\ w.sb.options => /\ w.optSize \in 1..MetaBlockMax
                                /\ w.len >= SuperblockSize + 2
                                /\ w.len >= SuperblockSize + 2 + w.optSize
<1> DEFINE w == Written(o)
<1>1. /\ w.sb = superblock(o) /\ w.optSize = writeCompressorOptions(o)
      /\ w.len = SuperblockSize + (IF writeCompressorOptions(o) > 0
                                   THEN 2 + writeCompressorOptions(o) ELSE 0) + TablesLen
  BY DEF Written
<1>2. writeCompressorOptions(o) \in Nat /\ (w.sb.options => w.optSize = OptionsSize)
  BY <1>1, OpenAssumption DEF writeCompressorOptions, superblock
<1>3. /\ w.sb.magic /\ w.sb.version = <<4, 0>> /\ w.sb.BlockSize = BlockSize
      /\ w.sb.BlockLog = blockLog(BlockSize) /\ w.sb.Compression = compID(o)
  BY <1>1 DEF superblock
<1>4. ~BadGeometry(w.sb)
  BY <1>3, OpenAssumption, BlockSizeAssumption DEF BadGeometry
<1>5. /\ newDecompressor(compID(o)) # "unsupported"
      /\ comp(o) # "nil" => newDecompressor(compID(o)) = comp(o)
  <2>1. comp(o) \in {"nil", "gzip", "zstd", "xz", "lz4"}
    BY DEF comp, newCompressor
  <2> QED
    BY <2>1 DEF compID, idOf, newDecompressor, compGZIP, compLZMA, compLZO, compXZ, compLZ4,
                compZSTD
<1>6. w.len \in Nat /\ w.len >= SuperblockSize
  BY <1>1, <1>2, OpenAssumption
<1>7. ASSUME w.sb.options
      PROVE  /\ w.optSize \in 1..MetaBlockMax
             /\ w.len >= SuperblockSize + 2
             /\ w.len >= SuperblockSize + 2 + w.optSize
  BY <1>1, <1>2, <1>7, OpenAssumption
<1> QED
  BY <1>3, <1>4, <1>5, <1>6, <1>7

\* Every step of opening keeps the image's invariant.
LEMMA ImageKept == ASSUME ImageInv, [Next]_vars PROVE ImageInv'
<1>0. ASSUME NEW e, pc \in Opening, opts # <<>> => e = "ioerr", refuse(e) PROVE ImageInv'
  BY <1>0 DEF ImageInv, refuse, Opening
<1>1. CASE BuildImage
  BY <1>1 DEF ImageInv, BuildImage, Written, Refused
<1>2. CASE OsOpen
  BY <1>2 DEF ImageInv, OsOpen
<1>3. CASE Stat
  BY <1>0, <1>3 DEF ImageInv, Stat, Goto, Opening
<1>4. CASE OpenCalled
  BY <1>4 DEF ImageInv, OpenCalled, Goto
<1>5. CASE ReadSuperblock
  <2>1. CASE opts # <<>>
    <3>1. /\ img.len \in Nat /\ img.len >= SuperblockSize /\ img.sb.magic /\ img.sb.version = <<4, 0>>
          /\ ~BadGeometry(img.sb)
      BY <1>5, <2>1, WrittenAccepted DEF ImageInv, ReadSuperblock
    <3>3. ~(img.len < SuperblockSize)
      BY <3>1, OpenAssumption
    <3>4. Goto("decompressor")
      BY <1>5, <3>1, <3>3 DEF ReadSuperblock
    <3> QED
      BY <1>5, <3>1, <3>4 DEF ImageInv, ReadSuperblock, Goto
  <2>2. CASE opts = <<>>
    <3>1. CASE \E e : refuse(e)
      <4>1. PICK e : refuse(e)
        BY <3>1
      <4>2. pc \in Opening
        BY <1>5 DEF ReadSuperblock, Opening
      <4> QED
        BY <1>0, <2>2, <4>1, <4>2
    <3>2. CASE Goto("decompressor") /\ ~BadGeometry(img.sb)
      BY <1>5, <2>2, <3>2 DEF ImageInv, ReadSuperblock, Goto
    <3> QED
      BY <1>5, <3>1, <3>2 DEF ReadSuperblock
  <2> QED
    BY <2>1, <2>2
<1>6. CASE NewDecompressor
  <2>1. opts # <<>> => newDecompressor(img.sb.Compression) # "unsupported"
    BY <1>6, WrittenAccepted DEF ImageInv, NewDecompressor
  <2>2. CASE newDecompressor(img.sb.Compression) = "unsupported"
    <3>1. opts = <<>> /\ pc \in Opening /\ refuse("unsupported compression")
      BY <1>6, <2>1, <2>2 DEF NewDecompressor, Opening
    <3> QED
      BY <1>0, <3>1
  <2>3. CASE newDecompressor(img.sb.Compression) # "unsupported"
    BY <1>6, <2>3 DEF ImageInv, NewDecompressor
  <2> QED
    BY <2>2, <2>3
<1>7. CASE ReadCompressorOptions
  <2>1. opts # <<>> /\ img.sb.options => img.optSize \in 1..MetaBlockMax
    BY <1>7, WrittenAccepted DEF ImageInv, ReadCompressorOptions
  <2> QED
    BY <1>0, <1>7, <2>1 DEF ImageInv, ReadCompressorOptions, Opening
<1>8. CASE ReadFails
  BY <1>0, <1>8 DEF ReadFails, Opening
<1>9. CASE Close
  BY <1>9 DEF ImageInv, Close
<1>10. CASE UNCHANGED vars
  BY <1>10 DEF ImageInv, vars, Refused
<1> QED
  BY <1>1, <1>2, <1>3, <1>4, <1>5, <1>6, <1>7, <1>8, <1>9, <1>10 DEF Next

-----------------------------------------------------------------------------
\* Max and Min of two numbers.
LEMMA MaxMin ==
  ASSUME NEW a \in Int, NEW b \in Int
  PROVE  /\ Max({a, b}) \in {a, b} /\ Max({a, b}) >= a /\ Max({a, b}) >= b
         /\ Min({a, b}) \in {a, b} /\ Min({a, b}) <= a /\ Min({a, b}) <= b
<1>1. \E x \in {a, b} : \A y \in {a, b} : x >= y
  BY SMT
<1>2. \E x \in {a, b} : \A y \in {a, b} : x <= y
  BY SMT
<1>3. Max({a, b}) \in {a, b} /\ \A y \in {a, b} : Max({a, b}) >= y
  BY <1>1, Zenon DEF Max
<1>4. Min({a, b}) \in {a, b} /\ \A y \in {a, b} : Min({a, b}) <= y
  BY <1>2, Zenon DEF Min
<1> QED
  BY <1>3, <1>4

StreamSet == [size: Nat, head: BOOLEAN, single: BOOLEAN, len: Nat, end: {"ok", "bad"}]

\* The block.  Its limit is one of an accepted superblock, what was read of it lies in
\* the stream and below the limit, and what the writer stored is no longer than the
\* limit and sound for the codec that Open chose.
BlockInv ==
  /\ at \in {"none", "start", "read", "done"}
  /\ at # "none" =>
       /\ pc = "open" /\ src \in StreamSet
       /\ maxOut \in Nat /\ maxOut <= MaxBlockSize /\ raw \in BOOLEAN
       /\ opts # <<>> =>
            /\ made \in 1..maxOut /\ src.len = made /\ src.single /\ src.end = "ok"
            /\ src.size \in 1..maxOut
            /\ IF raw THEN src.size = made ELSE src.head
  /\ at # "done" => fault = "pending" /\ got \in Nat
  /\ at \in {"none", "start"} => got = 0
  /\ at = "read" => /\ ~raw /\ d \in Streaming /\ src.head
                    /\ got <= src.len /\ got <= limit /\ src.size \in 1..maxOut
  /\ at = "done" => WholeOrNothing /\ SoundStreamDecodes /\ (opts # <<>> => fault = "nil" /\ got = made)

CodecInv == ImageInv /\ BlockInv

\* It holds before anything is read.
LEMMA CodecInvInit == BlockInit => CodecInv
<1> SUFFICES ASSUME BlockInit PROVE CodecInv
  OBVIOUS
<1>1. ImageInv
  BY DEF BlockInit, Init, ImageInv
<1>2. BlockInv
  BY DEF BlockInit, BlockInv
<1> QED
  BY <1>1, <1>2 DEF CodecInv

\* The two block limits of an image that Open accepted.
LEMMA AcceptedLimit ==
  ASSUME ImageInv, pc = "open"
  PROVE  /\ img.sb.BlockSize \in Nat /\ img.sb.BlockSize <= MaxBlockSize
         /\ MetaBlockMax \in Nat /\ MetaBlockMax <= MaxBlockSize
<1>1. img.sb.BlockSize \in Nat
  <2>1. CASE opts = <<>>
    BY <2>1, ForeignAssumption DEF ImageInv
  <2>2. CASE opts # <<>>
    BY <2>2, WrittenAccepted, BlockSizeAssumption, OpenAssumption DEF ImageInv
  <2> QED
    BY <2>1, <2>2
<1>2. ~BadGeometry(img.sb)
  BY DEF ImageInv
<1> QED
  BY <1>1, <1>2, OpenAssumption DEF BadGeometry

\* The window is no smaller than the output limit, and no larger than the limit or the
\* smallest dictionary: MaxDictionary is never the 0 of the default.
LEMMA WindowIs ==
  ASSUME maxOut \in Nat, maxOut <= MaxBlockSize
  PROVE  /\ window \in Nat /\ maxOut <= window
         /\ window <= MaxBlockSize \/ window <= MinDictCap
<1>1. MinDictCap \in Nat /\ MinDictCap > 0 /\ MaxBlockSize \in Nat
  BY StreamsAssumption, OpenAssumption
<1>2. dictCeiling \in {maxOut, MinDictCap} /\ dictCeiling >= maxOut /\ dictCeiling >= MinDictCap
  BY <1>1, MaxMin DEF dictCeiling
<1>3. window = dictCeiling
  BY <1>1, <1>2 DEF window
<1> QED
  BY <1>1, <1>2, <1>3

\* Every step of opening, reading and decoding keeps it.
LEMMA BlockKept == ASSUME CodecInv, [BlockNext]_allVars PROVE CodecInv'
<1> USE DEF CodecInv
<1>1. CASE Next /\ UNCHANGED blockVars
  <2>1. ImageInv'
    BY <1>1, ImageKept
  <2>2. at = "none" => BlockInv'
    BY <1>1 DEF BlockInv, blockVars
  <2>3. CASE at # "none"
    <3>1. pc' = "open" /\ d' = d /\ opts' = opts
      BY <1>1, <2>3 DEF BlockInv, Next, BuildImage, OsOpen, Stat, OpenCalled, ReadSuperblock,
         NewDecompressor, ReadCompressorOptions, ReadFails, Close
    <3> QED
      BY <1>1, <2>1, <2>3, <3>1
      DEF BlockInv, blockVars, limit, WholeOrNothing, SoundStreamDecodes
  <2> QED
    BY <2>1, <2>2, <2>3
<1>2. CASE UNCHANGED allVars
  <2>1. ImageInv'
    BY <1>2, ImageKept DEF allVars
  <2> QED
    BY <1>2, <2>1 DEF allVars, vars, blockVars, BlockInv, limit, WholeOrNothing, SoundStreamDecodes
<1>3. ASSUME UNCHANGED vars PROVE ImageInv'
  BY <1>3, ImageKept
<1>4. CASE ReadBlock
  <2>1. maxOut' \in Nat /\ maxOut' <= MaxBlockSize
    BY <1>4, AcceptedLimit DEF ReadBlock
  <2>2. CASE opts = <<>>
    <3>1. src' \in StreamSet /\ raw' \in BOOLEAN
      BY <1>4, <2>2, StreamsAssumption DEF ReadBlock, StreamSet
    <3> QED
      BY <1>3, <1>4, <2>1, <2>2, <3>1 DEF ReadBlock, vars, BlockInv
  <2>3. CASE opts # <<>>
    <3> DEFINE c == comp(opts[1])
    <3>1. PICK out \in -1..(made' + 1) :
             /\ out = 0 => c = "lz4"
             /\ raw' = storesRaw(c, made', out)
             /\ src' = IF raw' THEN Stored(made', made', d = c)
                               ELSE Stored(out, IF out > 0 THEN made' ELSE 0, d = c)
      BY <1>4, <2>3 DEF ReadBlock
    <3>2. made' \in 1..maxOut'
      BY <1>4, <2>3 DEF ReadBlock
    <3>3. ~storesRaw(c, made', out) => out > 0 /\ out < made' /\ c # "nil"
      BY <2>1, <3>1, <3>2 DEF storesRaw, Failed
    <3>4. c # "nil" => d = c
      BY <1>4, <2>3, WrittenAccepted DEF ReadBlock, ImageInv
    <3> DEFINE z == IF raw' THEN made' ELSE out
    <3>5. src' = Stored(z, made', d = c)
      BY <3>1, <3>3
    <3>8. raw' \in BOOLEAN
      BY <3>1 DEF storesRaw
    <3>9. z \in 1..maxOut' /\ z \in Nat /\ made' \in Nat
      BY <2>1, <3>1, <3>2, <3>3
    <3>10. raw' => z = made'
      OBVIOUS
    <3> HIDE DEF c, z
    <3>6. /\ src'.len = made' /\ src'.single /\ src'.end = "ok"
          /\ src'.head = (d = c) /\ src'.size = z
      BY <3>5 DEF Stored
    <3>7. src' \in StreamSet
      BY <3>5, <3>9 DEF Stored, StreamSet
    <3> QED
      BY <1>3, <1>4, <2>1, <2>3, <3>1, <3>2, <3>3, <3>4, <3>6, <3>7, <3>8, <3>9, <3>10
      DEF ReadBlock, vars, BlockInv
  <2> QED
    BY <2>2, <2>3
<1>5. ASSUME NEW e, NEW n, return(e, n), at # "none",
             (WholeOrNothing /\ SoundStreamDecodes)',
             opts # <<>> => e = "nil" /\ n = made
      PROVE  CodecInv'
  BY <1>3, <1>5 DEF return, vars, BlockInv
<1>6. CASE ReadRaw
  <2>1. /\ maxOut \in Nat /\ src.size \in Nat /\ src.size <= maxOut /\ raw /\ at = "start"
        /\ maxOut <= MaxBlockSize /\ MaxBlockSize \in Nat
        /\ opts # <<>> => src.size = made
    BY <1>6, OpenAssumption DEF ReadRaw, Read, BlockInv, StreamSet
  <2> QED
    BY <1>5, <1>6, <2>1 DEF ReadRaw, return, vars, WholeOrNothing, SoundStreamDecodes
<1>13. CASE Sparse
  <2>1. maxOut \in Nat /\ src.size = 0 /\ at = "start" /\ opts = <<>>
    BY <1>13 DEF Sparse, BlockInv
  <2> QED
    BY <1>5, <1>13, <2>1 DEF Sparse, return, vars, WholeOrNothing, SoundStreamDecodes
<1>14. CASE RefuseLength
  <2>1. maxOut \in Nat /\ src.size \in Nat /\ src.size \notin 1..maxOut /\ at = "start"
    BY <1>14 DEF RefuseLength, BlockInv, StreamSet
  <2>2. opts = <<>>
    BY <2>1 DEF BlockInv
  <2> QED
    BY <1>5, <1>14, <2>1, <2>2
    DEF RefuseLength, return, vars, WholeOrNothing, SoundStreamDecodes
<1>7. CASE NewReader
  <2>1. CASE (d = "xz" /\ ~checkXZ(src)) \/ ~src.head
    BY <1>5, <1>7, <2>1
    DEF NewReader, Read, return, vars, BlockInv, WholeOrNothing, SoundStreamDecodes, checkXZ
  <2>2. CASE ~((d = "xz" /\ ~checkXZ(src)) \/ ~src.head)
    BY <1>3, <1>7, <2>2 DEF NewReader, Read, vars, BlockInv, StreamSet, limit
  <2> QED
    BY <2>1, <2>2
<1>8. CASE ReadMore
  <2>1. src.len \in Nat /\ limit \in Nat /\ got \in Nat
    BY <1>8 DEF ReadMore, BlockInv, StreamSet, limit
  <2> DEFINE m == Min({limit, src.len})
  <2>4. m \in Int /\ m <= limit /\ m <= src.len
    <3>1. limit \in Int /\ src.len \in Int
      BY <2>1
    <3> HIDE DEF m
    <3>2. m \in {limit, src.len} /\ m <= limit /\ m <= src.len
      BY <3>1, MaxMin DEF m
    <3> QED
      BY <3>1, <3>2
  <2>2. got' \in (got + 1)..m
    BY <1>8 DEF ReadMore
  <2> HIDE DEF m
  <2>3. got' \in Nat /\ got' <= limit /\ got' <= src.len
    BY <2>1, <2>2, <2>4
  <2> QED
    BY <1>3, <1>8, <2>2, <2>3 DEF ReadMore, vars, BlockInv, limit
<1>9. CASE WindowFull
  <2>1. maxOut \in Nat /\ src.len \in Nat /\ got \in Nat /\ ~raw
    BY <1>9 DEF WindowFull, BlockInv, StreamSet
  <2>2. window \in Nat /\ maxOut <= window
    BY <1>9, WindowIs DEF WindowFull, BlockInv
  <2>3. src.len > maxOut
    BY <1>9, <2>1, <2>2 DEF WindowFull, Windowed
  <2>4. opts = <<>>
    BY <1>9, <2>1, <2>3 DEF WindowFull, BlockInv
  <2> QED
    BY <1>5, <1>9, <2>1, <2>3, <2>4
    DEF WindowFull, return, vars, WholeOrNothing, SoundStreamDecodes
<1>10. CASE StreamEnds
  <2>1. /\ maxOut \in Nat /\ src.len \in Nat /\ got \in Nat /\ got = src.len /\ at = "read"
        /\ ~raw
    BY <1>10 DEF StreamEnds, BlockInv, StreamSet
  <2>2. src.end \in {"ok", "bad"} /\ src.head /\ maxOut <= MaxBlockSize /\ MaxBlockSize \in Nat
    BY <2>1, OpenAssumption DEF BlockInv, StreamSet
  <2>3. opts # <<>> => src.end = "ok" /\ got = made /\ got <= maxOut
    BY <2>1 DEF BlockInv
  <2> QED
    BY <1>5, <1>10, <2>1, <2>2, <2>3
    DEF StreamEnds, return, vars, WholeOrNothing, SoundStreamDecodes
<1>11. CASE LimitReached
  <2>1. maxOut \in Nat /\ src.len \in Nat /\ got \in Nat /\ at = "read"
        /\ got > maxOut /\ got <= src.len /\ ~raw
    BY <1>11 DEF LimitReached, BlockInv, StreamSet, limit
  <2>2. opts = <<>>
    BY <2>1 DEF BlockInv
  <2> QED
    BY <1>5, <1>11, <2>1, <2>2
    DEF LimitReached, return, vars, WholeOrNothing, SoundStreamDecodes
<1>12. CASE DecodeAll
  <2>1. /\ maxOut \in Nat /\ src.len \in Nat /\ at = "start" /\ ~raw
        /\ src.end \in {"ok", "bad"}
        /\ maxOut <= MaxBlockSize /\ MaxBlockSize \in Nat
    BY <1>12, OpenAssumption DEF DecodeAll, Read, BlockInv, StreamSet
  <2>2. opts # <<>> => src.end = "ok" /\ src.head /\ src.len = made /\ src.len <= maxOut
    BY <2>1 DEF BlockInv
  <2>3. CASE ~src.head \/ src.end = "bad" \/ src.len > Capacity
    BY <1>5, <1>12, <2>1, <2>2, <2>3
    DEF DecodeAll, Capacity, return, vars, WholeOrNothing, SoundStreamDecodes
  <2>4. CASE ~(~src.head \/ src.end = "bad" \/ src.len > Capacity)
    BY <1>5, <1>12, <2>1, <2>2, <2>4
    DEF DecodeAll, Capacity, TooLong, return, vars, WholeOrNothing, SoundStreamDecodes
  <2> QED
    BY <2>3, <2>4
<1> QED
  BY <1>1, <1>2, <1>4, <1>6, <1>7, <1>8, <1>9, <1>10, <1>11, <1>12, <1>13, <1>14
  DEF BlockNext, Quiet

\* The inductive invariant of opening and decoding.
LEMMA CodecInvariant == BlockSpec => []CodecInv
  BY CodecInvInit, BlockKept, PTL DEF BlockSpec

\* Whatever stream is read under whatever accepted superblock, decompress returns all
\* of it, checked to its end and within both limits, or an error, and neither the output
\* nor the window ever outgrows the largest block the format allows.
THEOREM DecodedWhole == BlockSpec => []WholeOrNothing
<1>1. ASSUME CodecInv PROVE WholeOrNothing
  <2>1. CASE at = "read"
    <3>1. maxOut \in Nat /\ maxOut <= MaxBlockSize /\ got \in Nat /\ got <= limit /\ fault # "nil"
      BY <1>1, <2>1 DEF CodecInv, BlockInv
    <3>2. got <= MaxBlockSize + 1
      BY <3>1, OpenAssumption DEF limit
    <3>3. window <= MaxBlockSize \/ window <= MinDictCap
      BY <3>1, WindowIs
    <3> QED
      BY <3>1, <3>2, <3>3 DEF WholeOrNothing
  <2>2. CASE at # "read"
    BY <1>1, <2>2 DEF CodecInv, BlockInv, WholeOrNothing
  <2> QED
    BY <2>1, <2>2
<1> QED
  BY <1>1, CodecInvariant, PTL

\* No decompressor refuses a sound stream that fits, for every dictionary minimum and
\* every block size: the windows of xz and lzma never bind first.
THEOREM SoundDecoded == BlockSpec => []SoundStreamDecodes
<1>1. CodecInv => SoundStreamDecodes
  BY DEF CodecInv, BlockInv, SoundStreamDecodes
<1> QED
  BY <1>1, CodecInvariant, PTL

\* For every option and power-of-two block size of the writer: Open accepts the image, and each
\* block of it reads back as the block the writer was given.
THEOREM WrittenRead == BlockSpec => []WrittenReadsBack
<1>1. CodecInv => WrittenReadsBack
  BY DEF CodecInv, ImageInv, BlockInv, Refused, WrittenReadsBack
<1> QED
  BY <1>1, CodecInvariant, PTL
=============================================================================
