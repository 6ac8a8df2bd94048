-------------------------------- MODULE Codec --------------------------------
(***************************************************************************)
(* One block of an opened image through the codec that Open chose:             *)
(* imageWriter.compress and the compressors (compress.go), which may leave it  *)
(* raw, the checks of its length on disk (readBlock and readMetaBlock) and the *)
(* decompressors (decompress.go), which read a stream of unknown soundness      *)
(* under an output limit.  gzip, xz and lzma read it piece by piece through a   *)
(* limited reader; zstd, lz4 and lzo decode it in one call of their library.    *)
(* The libraries are external: a stream is what they make of it, [size, head,   *)
(* single, len, end]: its bytes on disk, whether its header can be parsed,      *)
(* whether it is one .xz stream of one block, how many bytes it yields, and     *)
(* whether what follows them (a checksum, the end marker) is "ok" or "bad".     *)
(***************************************************************************)
EXTENDS OpenImage, FiniteSetsExt

CONSTANTS Streams,      \* streams of other tools
          MinDictCap,   \* lzma.MinDictCap
          DefaultDict   \* what the xz and lzma readers take MaxDictionary = 0 for (256 MiB)

\* What a stream is to its library.
ASSUME StreamsAssumption ==
  /\ Streams \subseteq
       [size: Nat, head: BOOLEAN, single: BOOLEAN, len: Nat, end: {"ok", "bad"}]
  /\ MinDictCap \in Nat \ {0} /\ DefaultDict \in Nat

Streaming == {"gzip", "xz", "lzma"}
OneCall   == {"zstd", "lz4", "lzo"}

VARIABLES meta,    \* a metadata block, or a data block
          maxOut,  \* the output limit
          src,     \* the stream
          raw,     \* the block is stored uncompressed
          made,    \* the length of the block the writer was given, -1 for another tool's
          got,     \* bytes read so far
          at,      \* where decompress is
          fault    \* its error

blockVars == <<meta, maxOut, src, raw, made, got, at, fault>>

allVars == <<vars, blockVars>>

\* A stream of size bytes that yields n, for a reader that knows its format.
Stored(size, n, known) ==
  [size |-> size, head |-> known, single |-> TRUE, len |-> n, end |-> "ok"]

BlockInit == /\ Init
             /\ meta = FALSE
             /\ maxOut = 0
             /\ src = Stored(0, 0, FALSE)
             /\ raw = FALSE
             /\ made = -1
             /\ got = 0
             /\ at = "none"
             /\ fault = "pending"

-----------------------------------------------------------------------------
\* The compressor reports an error: one of its own (-1), or an empty result of lz4.
Failed(c, out) == out = -1 \/ (c = "lz4" /\ out = 0)

\* Mutant: whatever the compressor made is stored.
storesRaw_NoGain(c, n, out) == n = 0 \/ c = "nil" \/ Failed(c, out)

\* imageWriter.compress of n bytes that the compressor turns into out bytes: is the
\* block stored raw?
storesRaw(c, n, out) == n = 0 \/ c = "nil" \/ Failed(c, out) \/ out >= n

\* A data or a metadata block of the image is at hand: one of another tool, or what
\* the writer stored, the block itself or a compressor's stream that yields it.
ReadBlock ==
  /\ pc = "open" /\ handle = "open"
  /\ at = "none"
  /\ at' = "start"
  /\ meta' \in BOOLEAN
  /\ maxOut' = IF meta' THEN MetaBlockMax ELSE img.sb.BlockSize
  /\ \/ /\ opts = <<>>
        /\ raw' \in BOOLEAN
        /\ src' \in Streams
        /\ UNCHANGED made
     \/ /\ opts # <<>>
        /\ made' \in 1..maxOut'
        /\ \E out \in -1..(made' + 1) :
             LET c == comp(opts[1])
             IN  /\ out = 0 => c = "lz4"
                 /\ raw' = storesRaw(c, made', out)
                 /\ src' = IF raw' THEN Stored(made', made', d = c)
                                   ELSE Stored(out, IF out > 0 THEN made' ELSE 0, d = c)
  /\ UNCHANGED <<vars, got, fault>>

return(e, n) == /\ at' = "done"
                /\ fault' = e
                /\ got' = n
                /\ UNCHANGED <<vars, meta, maxOut, src, raw, made>>

\* No bytes on disk: a hole of a file, for which readBlock returns nothing.
Sparse == at = "start" /\ ~meta /\ src.size = 0 /\ return("sparse", 0)

\* The length on disk is refused before anything is read.
RefuseLength ==
  /\ at = "start"
  /\ src.size > maxOut \/ (meta /\ src.size = 0)
  /\ return("corrupt", 0)

\* The bytes on disk were read.
Read == at = "start" /\ src.size \in 1..maxOut

\* readBlock and readMetaBlock take a raw block as it is.
ReadRaw == Read /\ raw /\ return("nil", src.size)

-----------------------------------------------------------------------------
\* checkXZ: one complete stream with at most one block.
checkXZ(s) == s.single

\* NewReader of the library.
NewReader ==
  /\ Read /\ ~raw /\ d \in Streaming
  /\ IF d = "xz" /\ ~checkXZ(src) THEN return("corrupt", 0)
     ELSE IF ~src.head THEN return("codec", 0)
     ELSE at' = "read" /\ UNCHANGED <<vars, meta, maxOut, src, raw, made, got, fault>>

\* Mutant: the smaller of the two.
dictCeiling_Min == Min({maxOut, MinDictCap})

dictCeiling == Max({maxOut, MinDictCap})

\* Mutant: limited to what is wanted.
limit_Exact == maxOut

\* The limit of the io.LimitReader.
limit == maxOut + 1

\* The bytes an xz or lzma reader lets its window grow to.
window == IF dictCeiling = 0 THEN DefaultDict ELSE dictCeiling

\* xz and lzma keep their output in the window.
Windowed(n) == d = "gzip" \/ n <= window

\* One Read of io.ReadAll below the limit: some more bytes.
ReadMore ==
  /\ at = "read" /\ got < limit
  /\ \E n \in (got + 1)..Min({limit, src.len}) :
       /\ Windowed(n)
       /\ got' = n
  /\ UNCHANGED <<vars, meta, maxOut, src, raw, made, at, fault>>

\* The reader refuses to grow its window; decodeErr makes that ErrCorrupt.
WindowFull ==
  /\ at = "read" /\ got < limit
  /\ got < src.len /\ ~Windowed(got + 1)
  /\ return("corrupt", 0)

\* The stream ends: the reader has checked what follows the data.
StreamEnds ==
  /\ at = "read" /\ got < limit /\ got = src.len
  /\ IF src.end = "bad" THEN return("codec", 0)
     ELSE IF got > maxOut THEN return("corrupt", 0) ELSE return("nil", got)

\* The limited reader ends, and the stream is not asked again.
LimitReached ==
  /\ at = "read" /\ got >= limit
  /\ IF got > maxOut THEN return("corrupt", 0) ELSE return("nil", got)

-----------------------------------------------------------------------------
\* What the library's one call can decode: lz4 and lzo into a buffer of maxOut
\* bytes, zstd up to the cap of the shared decoder.
Capacity == IF d = "zstd" THEN MaxBlockSize ELSE maxOut

\* The output-size check that follows the call of zstd.
TooLong == d = "zstd" /\ src.len > maxOut

DecodeAll ==
  /\ Read /\ ~raw /\ d \in OneCall
  /\ IF ~src.head \/ src.end = "bad" \/ src.len > Capacity THEN return("codec", 0)
     ELSE IF TooLong THEN return("corrupt", 0)
     ELSE return("nil", src.len)

\* No call is in progress: nothing else may stop.
Quiet == pc \in {"open", "done"} /\ at \in {"none", "done"} /\ UNCHANGED allVars

BlockNext == \/ Next /\ UNCHANGED blockVars
             \/ ReadBlock \/ Sparse \/ RefuseLength \/ ReadRaw \/ NewReader \/ ReadMore \/ WindowFull \/ StreamEnds
             \/ LimitReached \/ DecodeAll \/ Quiet

BlockSpec == BlockInit /\ [][BlockNext]_allVars

-----------------------------------------------------------------------------
\* A block is decoded whole or not at all: what is returned of it is everything the
\* stream yields (or the raw bytes), at most maxOut bytes and never more than 1 MiB
\* whatever block size the superblock claims, and the check at the end of the stream
\* was made even when the block fills maxOut exactly.  While a stream is read neither
\* its output nor the window of xz and lzma outgrows that limit, the output by the one
\* byte that tells.
WholeOrNothing ==
  /\ fault = "nil" => /\ got = IF raw THEN src.size ELSE src.len
                      /\ got <= maxOut /\ got <= MaxBlockSize
                      /\ ~raw => src.head /\ src.end = "ok"
  /\ at = "read" => /\ got <= MaxBlockSize + 1
                    /\ d # "gzip" => window <= MaxBlockSize \/ window <= MinDictCap

\* A block stored in at most maxOut bytes that is raw, or is a sound stream of at most
\* maxOut bytes, is returned, the window of xz and lzma being large enough for it.
SoundStreamDecodes ==
  (/\ at = "done" /\ src.size \in 1..maxOut
   /\ raw \/ (src.head /\ src.single /\ src.end = "ok" /\ src.len <= maxOut)) =>
     fault = "nil"

\* What buildImage writes can be read.  Whatever the options, the image opens or is
\* refused before anything is written (an unknown Compressor that Uncompressed does
\* not override), and a block that was stored, compressed or raw, passes the length
\* check of its reader and reads back as the block the writer was given, through the
\* codec that Open took from the superblock.
WrittenReadsBack ==
  opts # <<>> =>
    /\ pc = "done" /\ err # "ioerr" =>
         comp(opts[1]) = "unsupported" /\ value = "none" /\ closes = 0
    /\ at = "done" => fault = "nil" /\ got = made
=============================================================================
