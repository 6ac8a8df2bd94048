------------------------------ MODULE OpenImage ------------------------------
(***************************************************************************)
(* Opening an image (OpenFile, Open, OpenReader and Close of fs.go and         *)
(* openreader.go; superblock.go; newDecompressor), either one that buildImage  *)
(* wrote with some BuildOptions (newCompressor, writeCompressorOptions,        *)
(* superblock and blockLog of write.go and compress.go) or one of another      *)
(* tool.  Every check of the superblock and every error path is here, with the *)
(* file handle that has to survive the good path and no other.                 *)
(***************************************************************************)
EXTENDS Integers, Sequences

CONSTANTS Foreign,       \* images of other tools
          Options,       \* BuildOptions: [Uncompressed, Compressor]
          BlockSize,     \* defaultBlockSize
          MaxBlockSize,  \* maxBlockSize
          MaxBlockLog,   \* maxBlockLog
          SuperblockSize, \* superblockSize
          OptionsSize,   \* bytes of the LZ4 options payload (8)
          MetaBlockMax,  \* metaBlockMax
          TablesLen,     \* what buildImage writes after the superblock and the options
          MaxCloses      \* bound: calls of FS.Close

\* The constants of superblock.go and metadata.go: a metadata block is no larger than a
\* data block may be, and the lz4 options fit one.
ASSUME OpenAssumption ==
  /\ MaxBlockSize \in Nat /\ MaxBlockLog \in Nat /\ SuperblockSize \in Nat /\ TablesLen \in Nat
  /\ MetaBlockMax \in 1..MaxBlockSize /\ OptionsSize \in 1..MetaBlockMax

\* An image is [len, sb, optSize]: its length, its superblock [magic, version,
\* BlockSize, BlockLog, Compression, options] and the size in the header that
\* follows the superblock.  The handle is the file OpenFile opens, or what the
\* caller handed in.
\* A block size is an unsigned number, whatever another tool wrote there.
ASSUME ForeignAssumption == \A g \in Foreign : g.sb.BlockSize \in Nat

VARIABLES how,      \* the entry point
          closer,   \* the reader implements io.Closer
          opts,     \* the options buildImage got, <<>> for another tool's image
          img,
          pc,
          handle,   \* "none", "open" or "closed"
          closes,   \* Close calls on the handle
          d,        \* the decompressor
          value,    \* what the caller got: "none", "nil", "typed nil" or "fs"
          err

vars == <<how, closer, opts, img, pc, handle, closes, d, value, err>>

Nothing == [len |-> 0, optSize |-> 0,
            sb |-> [magic |-> FALSE, version |-> <<0, 0>>, BlockSize |-> 0, BlockLog |-> 0,
                    Compression |-> 0, options |-> FALSE]]

Init == /\ how \in {"OpenFile", "Open", "OpenReader"}
        /\ closer \in BOOLEAN
        /\ how = "OpenFile" => closer
        /\ \/ opts \in {<<o>> : o \in Options} /\ img = Nothing /\ pc = "build"
           \/ opts = <<>> /\ img \in Foreign /\ pc = "start"
        /\ handle = IF how = "OpenFile" THEN "none" ELSE "open"
        /\ closes = 0
        /\ d = "none"
        /\ value = "none"
        /\ err = "pending"

-----------------------------------------------------------------------------
(* The writer.                                                              *)

compGZIP == 1
compLZMA == 2
compLZO  == 3
compXZ   == 4
compLZ4  == 5
compZSTD == 6

\* newCompressor: the codec of a Compressor, and its id on disk.
newCompressor(c) == CASE c \in {0, compGZIP} -> "gzip"
                      [] c = compZSTD -> "zstd"
                      [] c = compXZ -> "xz"
                      [] c = compLZ4 -> "lz4"
                      [] OTHER -> "unsupported"

idOf(codec) == CASE codec = "gzip" -> compGZIP
                 [] codec = "zstd" -> compZSTD
                 [] codec = "xz" -> compXZ
                 [] codec = "lz4" -> compLZ4

\* iw.comp: nil when nothing is compressed.
comp(o) == IF o.Uncompressed THEN "nil" ELSE newCompressor(o.Compressor)

hasCompressorOptions(o) == comp(o) = "lz4"

\* Mutant: the option's own value.
compID_Option(o) == o.Compressor

\* The compression id in the superblock.
compID(o) == IF comp(o) = "nil" THEN compGZIP ELSE idOf(comp(o))

\* 1 << l in 32 bits.
shift(l) == IF l >= 32 THEN 0 ELSE 2^l

\* blockLog: the number of halvings down to 1.
blockLog(bs) ==
  LET l[v \in 0..bs] == IF v <= 1 THEN 0 ELSE 1 + l[v \div 2] IN l[bs]

\* defaultBlockSize is a power of two within the format's limits.
ASSUME BlockSizeAssumption ==
  /\ BlockSize \in 1..MaxBlockSize
  /\ blockLog(BlockSize) \in 0..MaxBlockLog /\ BlockSize = shift(blockLog(BlockSize))

\* writeCompressorOptions: the size in the header of the block, 0 for no block.
writeCompressorOptions(o) == IF hasCompressorOptions(o) THEN OptionsSize ELSE 0

superblock(o) == [magic |-> TRUE, version |-> <<4, 0>>, BlockSize |-> BlockSize,
                  BlockLog |-> blockLog(BlockSize), Compression |-> compID(o),
                  options |-> hasCompressorOptions(o)]

\* buildImage: what of the image Open looks at.
BuildImage ==
  /\ pc = "build"
  /\ LET o == opts[1]
         n == writeCompressorOptions(o)
     IN  IF comp(o) = "unsupported"
         THEN /\ pc' = "done"
              /\ err' = "unsupported compression"
              /\ UNCHANGED img
         ELSE /\ pc' = "start"
              /\ img' = [len |-> SuperblockSize + (IF n > 0 THEN 2 + n ELSE 0) + TablesLen,
                         optSize |-> n, sb |-> superblock(o)]
              /\ UNCHANGED err
  /\ UNCHANGED <<how, closer, opts, handle, closes, d, value>>

-----------------------------------------------------------------------------
(* Open.                                                                    *)

\* Mutant: the error path of Open leaves the file open.
CloseOnError_Leaks == UNCHANGED <<handle, closes>>

\* The f.Close() on OpenFile's error paths; Open and OpenReader leave the caller's
\* reader alone.
CloseOnError ==
  IF how = "OpenFile" THEN handle' = "closed" /\ closes' = closes + 1
                      ELSE UNCHANGED <<handle, closes>>

\* A *FS returned as a filesystem.Filesystem: in the interface a nil pointer is a
\* value that does not compare equal to nil.
asFilesystem(v) == IF v = "nil" THEN "typed nil" ELSE v

\* What the entry point makes of the *FS of a successful Open.
returned(v) == IF how = "OpenReader" THEN asFilesystem(v) ELSE v

\* Mutant: OpenReader hands on what Open returned, error or not.
onError_Typed == returned("nil")

\* The value that goes with an error: a nil *FS of Open and OpenFile, and of
\* OpenReader a literal nil in place of Open's.
onError == "nil"

\* An error return after the file was opened.
refuse(e) == /\ pc' = "done"
             /\ err' = e
             /\ value' = onError
             /\ CloseOnError
             /\ UNCHANGED <<how, closer, opts, img, d>>

Goto(l) == pc' = l /\ UNCHANGED <<how, closer, opts, img, handle, closes, d, value, err>>

\* os.Open.
OsOpen ==
  /\ pc = "start" /\ how = "OpenFile"
  /\ \/ /\ handle' = "open"
        /\ pc' = "stat"
        /\ UNCHANGED <<value, err>>
     \/ /\ pc' = "done"
        /\ err' = "ioerr"
        /\ value' = onError
        /\ UNCHANGED handle
  /\ UNCHANGED <<how, closer, opts, img, closes, d>>

Stat == pc = "stat" /\ (Goto("superblock") \/ refuse("ioerr"))

OpenCalled == pc = "start" /\ how # "OpenFile" /\ Goto("superblock")

BadGeometry(sb) ==
  \/ sb.BlockLog > MaxBlockLog \/ sb.BlockSize > MaxBlockSize
  \/ sb.BlockSize = 0 \/ sb.BlockSize # shift(sb.BlockLog)

ReadSuperblock ==
  /\ pc = "superblock"
  /\ LET sb == img.sb
     IN  IF img.len < SuperblockSize THEN refuse("ioerr")
         ELSE IF ~sb.magic THEN refuse("bad magic")
         ELSE IF sb.version # <<4, 0>> THEN refuse("unsupported version")
         ELSE IF BadGeometry(sb) THEN refuse("corrupt")
         ELSE Goto("decompressor")

newDecompressor(c) == CASE c = compGZIP -> "gzip"
                        [] c = compXZ -> "xz"
                        [] c = compLZO -> "lzo"
                        [] c = compZSTD -> "zstd"
                        [] c = compLZ4 -> "lz4"
                        [] c = compLZMA -> "lzma"
                        [] OTHER -> "unsupported"

NewDecompressor ==
  /\ pc = "decompressor"
  /\ IF newDecompressor(img.sb.Compression) = "unsupported" THEN refuse("unsupported compression")
     ELSE /\ d' = newDecompressor(img.sb.Compression)
          /\ pc' = "options"
          /\ UNCHANGED <<how, closer, opts, img, handle, closes, value, err>>

\* readCompressorOptions, and then Open returns.
ReadCompressorOptions ==
  /\ pc = "options"
  /\ IF img.sb.options /\ img.len < SuperblockSize + 2 THEN refuse("ioerr")
     ELSE IF img.sb.options /\ img.optSize \notin 1..MetaBlockMax THEN refuse("corrupt")
     ELSE IF img.sb.options /\ img.len < SuperblockSize + 2 + img.optSize THEN refuse("ioerr")
     ELSE /\ pc' = "open"
          /\ value' = returned("fs")
          /\ err' = "nil"
          /\ UNCHANGED <<how, closer, opts, img, handle, closes, d>>

\* A read of the image fails.
ReadFails == pc \in {"superblock", "options"} /\ refuse("ioerr")

\* FS.Close, forwarded to a reader that can be closed.
Close == /\ pc = "open"
         /\ closes < MaxCloses
         /\ closer
         /\ handle' = "closed"
         /\ closes' = closes + 1
         /\ UNCHANGED <<how, closer, opts, img, pc, d, value, err>>

Next == \/ BuildImage \/ OsOpen \/ Stat \/ OpenCalled \/ ReadSuperblock \/ NewDecompressor
        \/ ReadCompressorOptions \/ ReadFails \/ Close

-----------------------------------------------------------------------------
\* Opening is all or nothing: an error comes with a value that is nil to the caller,
\* whichever entry point was used, and leaves no file open: a file that OpenFile
\* opened is closed exactly once on whichever path failed, and a reader that Open or
\* OpenReader was given is still the caller's and open.  A file system that was
\* returned reads from an open handle until Close is called.
AllOrNothing ==
  /\ (pc = "done" /\ value # "none") =>
       /\ value = "nil" /\ err # "nil"
       /\ IF how = "OpenFile" THEN handle = "none" \/ (handle = "closed" /\ closes = 1)
                              ELSE handle = "open" /\ closes = 0
  /\ pc = "open" => value = "fs" /\ (handle = "open" <=> closes = 0)
=============================================================================
