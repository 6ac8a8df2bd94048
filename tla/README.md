# Verification of go-filesystems/squashfs

TLA+ models of the SquashFS 4.0 reader and writer in this repository, the TLC
runs that check them on small instances, and TLAPS proofs, for every instance, about
the block layer, the file reader, the inode decoder, the attribute reader, opening and
the codecs, the file data of the writer and the tree scan. All definitions are
translated from the Go source; `PROJECT.json` gives the lines each one stands for.

## The system

An image is a superblock, data blocks, and metadata tables made of blocks of at
most 8 KiB. The package has two halves that meet only in the image.

*Reader.* `Open` validates the superblock and returns an `FS` that any number of
goroutines may share. Every call walks the image afresh: `resolve` walks the path,
`readDir` parses listings and `readInode` inodes through a `metaCursor`, which
streams metadata blocks; `readFileLimit` and `squashfsFile.ReadAt` assemble file
bytes from data blocks and a tail in a shared fragment block. All blocks come
through `readMetaBlockCached` and `readBlock`, over two FIFO caches behind one
mutex. Those caches, a file's `closed` flag and the image handle are the only
mutable state after `Open`. (The comment at `fs.go:17-19` still says "no caches,
no locks".)

*Writer.* `BuildFromDir` scans a host tree and `buildImage` emits it in post-order:
file blocks and packed fragments go into the data area, inodes and listings into
two `metaWriter`s, which are laid out at the end with the fragment and id tables.
Only then is the image file written.

| part | state | operations that change it | module |
|---|---|---|---|
| block layer (`cache.go`, `data.go`, `metadata.go`) | two maps with key lists, image handle | getMeta, putMeta, getData, putData, readBlock, readMetaBlockCached, Close | `BlockCache` over `BlockStore` |
| file reading (`data.go`, `openfile.go`) | a handle's closed flag, the loops' progress | newFile, ReadAt, Close, readFileLimit | `FileRead` over `FileFormat` |
| path lookup (`path.go`, `fs.go`) | the recursion | resolve, resolveFrom | `PathResolve` |
| file data and fragments (`write.go`) | data area, pending fragment, fragment entries | emitFileInode, addToFragment, flushFragment, buildImage | `FileWriter` over `FileFormat` |
| metadata streams (`write.go`, `metadata.go`) | pending payload, emitted blocks; cursor position | metaWriter, metaCursor | `MetaStream` over `MetaTable` |
| directories (`write.go`, `dir.go`) | the walk, inode numbers, both tables; the parse | emitNode, emitDirInode, readDir | `DirTable` over `MetaTable` |
| file reading over the caches | the two parts above, together | all of theirs | `CachedRead`: `FileRead` over `BlockCache` |
| inodes (`inode.go`) | the inode and block list being built | readInode, readBlockList | `InodeDecode` over `InodeSizes` |
| extended attributes (`xattr.go`, `fs.go`) | the map being built, the budget | inodeXattrs, readXattrTable, readXattrIDEntry, readXattrPairs | `Xattr` |
| opening (`fs.go`, `openreader.go`, `superblock.go`) and the superblock of the writer | the file handle and who owns it | OpenFile, Open, OpenReader, Close, buildImage | `OpenImage` |
| codecs (`compress.go`, `decompress.go`) | bytes decoded so far | compress, decompress | `Codec` over `OpenImage` |
| tree scan (`write.go`) | the tree so far, the file at the image path | BuildFromDir, scanDir, scanEntry | `ScanTree` |

What is hard to test here, and is listed line by line under `hazards`: two
goroutines that miss on the same block, Close in the middle of a read, results
that depend on what was cached before, offsets at block and fragment boundaries,
declared sizes that lie or wrap, symlink cycles, references handed out before the
block they name is written, fields narrower than what is put in them, a chunk or
id-table block that ends where the list does, a budget that a shared value is
charged to again and again, a file handle on an error path, a stream that fills its
limit exactly, and a host tree that changes while it is scanned.

## The modules

**BlockStore** is the abstract promise of the block layer: a call gets an answer
that depends on the block asked for and nothing else. **BlockCache** is the code:
`pc[c]` says where goroutine `c` is, and one critical section of the cache mutex is
one action (`Get`, `Put`). The image read between them is an action of its own
(`Read`, `ReadFails`), so two goroutines can miss on a block and both store it.
`Check` is `readBlock`'s early returns, `Close` is `FS.Close`. `map` and `keys` are
the maps and key slices of `blockCache`. Payloads are model values; what the
decompressor makes of a block is the constant `Content`. The last lines instantiate
`BlockStore` with the mapping `busy` = not idle, `asked` = `req`, `answer` = `res`.

**FileFormat** holds the pure part: size words, `blockCount` with its 64-bit wrap,
the two-level fragment table, the int64 that a 64-bit start becomes (negative from 2^63
on, and then refused by `checkExtent`), and a reference definition of byte `p` of a file
(`Readable`, `Byte`) written independently of the read loops. **FileRead** runs
`readFileLimit` and `ReadAt` one iteration per step against it, with `Close` in
between. The block layer appears as `BlockStore` promises it.

**PathResolve** turns the recursion of `resolveFrom` into a stack of frames, one
loop iteration per step. `Textbook` is the reference: a list of segments, in which a
symlink is replaced by its target.

**FileWriter** emits the files of a tree one by one. A compressor may come to any
stored length below the block's, or to none. The image is read back through an
instance of `FileFormat` over the blocks written.

**MetaTable** has the operators of `metaWriter` and the stream a chain of blocks
holds; **MetaStream** writes records into both tables, lays them out and runs a
`metaCursor` from any block and offset, also over chains of another tool, which may
hold empty blocks. What follows the chain does not decode. **DirTable** walks a tree
as `emitNode` does, writes inodes and listings as typed bytes through `MetaTable`,
and lists any directory with `readDir`'s two loops; `readDir` also runs on listings
of other tools whose header, name lengths and size need not agree. `Positions` is the
check of `newMetaCursor` on the offset it starts at.

**CachedRead** composes `FileRead` with `BlockCache`. Each loop asks `readBlock` for the
block it is at (`Ask`), the block layer runs its critical sections and reads
(`Serve`), and the loop goes on with what it was given (`Arrive`); steps that need no
block are `Alone`. Between the question and the answer other goroutines read, store
and evict, and `FS.Close` may come. Its property is `FileRead`'s own specification.

**InodeSizes** has `blockCount`, which decoder, reader and writer share.
**InodeDecode** reads header, body and block list of an inode of any type. A body is a
list of fields with widths, for the basic types the one the writer lays down, and
`u16`, `u32`, `u64` find a field by byte offset, so that a wrong offset in `readInode`
reads another field. `readBlockList` takes one chunk per step.

**Xattr** locates the id table, finds the inode's entry through the two levels and
runs the loop of `readXattrPairs` one pair per step. The region is the sequence of
pairs it decodes to and a reference is a position in it; an out-of-line value is
charged to the budget in full each time it is referred to.

**OpenImage** opens an image that `buildImage` wrote with any options, or one of
another tool, through each of the three entry points. The state is the handle, how
often it was closed, and what the caller got: a file system, nil, or the "typed nil"
that a nil `*FS` is inside an interface, which `OpenReader` takes care not to return.

**Codec** goes on from there: one block of the image goes through the compressor that
the options named and the decompressor that Open took from the superblock. It is a data
or a metadata block with its length on disk, which may be zero (a hole, or refused) or
past the limit (refused before anything is read), raw or a stream. A stream is what
its library makes of it: whether the header parses, how many bytes it yields and
whether the check at its end is good. `window` is what xz and lzma may grow to, a
`MaxDictionary` of zero being their default. gzip, xz and lzma read it in pieces through a
limited reader; zstd, lz4 and lzo decode it in one call.

**ScanTree** makes each system call of the scan one step; `Edit` is another process
that puts anything in the place of anything between two of them. A path is looked up
from the root at every call, as the host does: a symlink that has taken the place of a
directory above is followed, and what lies behind it may be anything (`Found`,
`Opened`, `Names`). `seen` records what each path has held, for the properties only.

Operators named `X_Something` with a comment "Mutant" are deliberate bugs, one or
more per property. Each property is refuted when `X` is replaced by its mutant, so
no property holds by the shape of the model.

## The runs

| run | instance | shows |
|---|---|---|
| `block_cache` | 2 goroutines (symmetric), 11 references of every kind, one at a negative offset, caps 1 and 2 | `KeysMatchMap`, `WithinCap`, `NeverShrinks`: the caches survive races. `CacheFaithful`: no error or refused block is cached. `ServesLikeStore`: callers cannot tell there is a cache |
| `file_read` | all inodes with up to 5 bytes, blocks of 2, whole, raw, sparse, short, undecodable and outside blocks; fragments whole, sparse, short, missing; starts that are negative as int64; the largest size, at which `blockCount` wraps (2^64 scaled to 16) | `ReadAtContract` (io.ReaderAt), `ReadFileExact`, `OpenAgreesWithReadFile`, `ReadsReturn` |
| `path_resolve` | all trees of two directories, a file and two symlinks with 7 targets; 6 paths; limit 2 | `ResolvesLikeTextbook`, `LookupReturns` |
| `file_writer` | all trees of up to 3 files of 0 to 2 blocks, and single files one byte below, at and above the width of the size field (2^32 scaled to 12), all options | `ReadsBack`, `TailsPlaced` |
| `meta_stream` | up to 3 records of 0, 1 or 3 bytes, blocks of 2; foreign chains of up to 3 blocks | `RecordsReadBack`, `CursorFollowsStream` |
| `dir_table` | trees with up to 3 leaves or a nested directory, blocks of 4, headers of at most 2 entries; foreign listings | `ListsChildren`, `ListReturns` |
| `dir_table_width` | a 16-bit size scaled to 16 values | violation, see the finding |
| `cached_read` | 2 goroutines that call ReadAt and ReadFile on one of 4 files, one data slot, FS.Close at any time | `ReadsLikeUncached`: caches, evictions and Close are invisible to the read loops; `BlocksArrive`: the block layer answers every call, as the abstract store promises |
| `inode_decode` | all fourteen types and an unknown one, cut at every part; lists of 0 to 5 words in chunks of 2, and the sizes at which `blockCount` wraps | `DecodesInode`: every field from its place; `ListExact` and `ListBacked`: the block list; `SoundInodeDecodes`: nothing sound is refused |
| `xattr` | 6 id tables, honest and not, all regions of up to 3 of 11 kinds of pair, all indexes | `AttributesExact`, `EntryAtIndex`, `BoundedOutput`, `SoundListReturned` |
| `open_decode` | every option of the writer; superblocks about every limit; images that end anywhere; then a block of up to 8 bytes, or a raw block or stream of another tool of every kind, its lengths on disk and decoded about the limits 1 to 8 | `AllOrNothing`: the handle and the value returned; `WrittenReadsBack`: what is written opens, and its blocks come back; `WholeOrNothing`, `SoundStreamDecodes`: the decompressors, under a bound that rests on the superblock's checks |
| `scan_tree` | all trees of three paths, two changes at any moment, any call failing | `UndisturbedIncluded`, `NodesWitnessed`, `ImageIntact` |

The first six also check a `TypeOK`; its comment says which part of it matters.

*Bounds.* Every size is scaled so that each boundary lies inside the instance: a
cache is full after one or two blocks and there are more blocks than slots; a file
has full blocks, a short one and a tail; a tail can fill the fragment block exactly
and pass it; a record spans two metadata blocks, ends on a boundary, or is empty; a
listing needs two headers for the count and for the block; the scaled `DeltaWidth`
of 8 is as tight as a block of 4 one-byte inodes allows, as 2^16 is amply for a block
of 8192 bytes; a block list ends before, on and after a chunk boundary; an id table
has a full block and a short one; the budget of a list runs out in its first, second
or third pair, and not at all; a stream is shorter than, as long as and longer than
limit and window; two changes are what it takes to replace an entry between two calls
of the scan and put it back. Two goroutines are enough for the races of `BlockCache`, whose
critical sections touch one key each; the proofs cover any number. `FileRead` has one
reader because readers share only the `closed` flag, which `Close` may set at any
step; `CachedRead`, where they share the caches too, has two. `Fuel` (40) is how many steps the textbook lookup gets; were it too few for a lookup
the code completes, `ResolvesLikeTextbook` would fail.

*Deadlock* is checked except where the modelled call is over: one lookup
(`PathResolve`), one build (`FileWriter`), one foreign listing (`DirTable`).
`InodeDecode`, `Xattr` and `ScanTree` have a step `Returned` for that, and `Codec` a step
`Quiet`, so that stopping anywhere else is still a deadlock.

*Fairness.* `BlockCache` assumes weak fairness of each goroutine's steps: the Go
scheduler runs every runnable goroutine and the mutex is held over no blocking call.
`CachedRead` assumes the same of each goroutine, in whichever layer it is.
`FileRead`, `PathResolve` and `DirTable` assume that a loop, once entered, keeps
running. In `FileRead` fairness does not count I/O errors, so that a loop without
progress is not rescued by one.

## Findings

`write.go:501` (run `dir_table_width`): the size of a listing is cut to 16 bits without
an error, so a directory with a few thousand entries loses entries or lists as empty.

Four more places where comment and code differ were met while modelling. No run shows
them; the models follow the code.

* `data.go:91`: the data cache is keyed by offset alone. If two size words name one
  offset, what `readBlock` returns depends on the history, contrary to `cache.go:17-19`.
  Sound images have one word per offset (`OneWordPerOffset`), and for those transparency
  is checked and proved.
* `path.go:63`: `maxSymlinkHops` bounds the nesting of symlinks, not, as `path.go:11`
  says, the lookup. Lookups still always end (`LookupReturns`).
* `write.go:411,414`: file size and start are cut to 32 bits without an error
  (`Width` in `FileWriter`; `ReadsBack` speaks of what fits it, `Fits`).
* `decompress.go:171-190`: `decompress.go:102-105` says that every decompressor refuses
  an oversized stream with `ErrCorrupt`. lz4 and lzo pass on their library's error, and so
  does zstd past the cap of its decoder. The stream is refused all the same
  (`WholeOrNothing`).

## The proofs

One module of proofs per component; `DataLemmas` has what several of them need:
induction over the natural numbers stated with a set in the place of a predicate,
sums over finite sets, and the arithmetic of blocks. Every theorem holds for all
values of the constants that satisfy the named assumptions.

| module | inductive invariant | theorems |
|---|---|---|
| `BlockCacheProofs` | `IInv` | `TypeCorrect`, `KeysAlwaysMatch`, `AlwaysWithinCap`, `CacheAlwaysFaithful`, `CacheNeverShrinks`, `CacheTransparent` |
| `FileReadProofs` | `Inv` | `TypesHold`, `ReadAtIsReaderAt`, `ReadFileIsExact`, `OpenAgrees` |
| `InodeDecodeProofs` | `IInv`, `DInv` | `ListIsExact`, `ListIsBacked`, `InodeDecoded`, `SoundInodeDecoded` |
| `XattrProofs` | `IInv`, `BInv` | `MapIsExact`, `OutputIsBounded`, `EntryIsAtIndex`, `SoundListIsReturned` |
| `CodecProofs` | `HandleInv`, `CodecInv` | `OpenAllOrNothing`, `DecodedWhole`, `SoundDecoded`, `WrittenRead` |
| `FileWriterProofs` | `Inv` | `TypesHold`, `TailsHold`, `FilesReadBack` |
| `ScanTreeProofs` | `ScanInv` | `UndisturbedAreIncluded`, `NodesAreWitnessed`, `ImageStaysIntact` |

**The block layer**, for any sets of callers, offsets, blocks and payloads, any caps of
at least one and any image size: the four invariants of `block_cache`, the action
property `NeverShrinks`, and (`CacheTransparent`) that under `OneWordPerOffset` the
block layer implements `BlockStore`'s safety part.
Assumptions: those of `BlockCache`, of which only `HeaderAssumption` is about images:
a metadata block's header lies in the image at the block's offset, so that all
references to one offset are the same. No invariant alone is inductive. `WithinCap`
needs `KeysMatchMap`, because the code compares the cap with the size of the map and
evicts from the key list (lemmas `KeysCount`, `PutKeepsCache`). `CacheFaithful` needs
what a goroutine between `Read` and `Put` holds: `CallerOK` says that its buffer is
the decoded block of its request, which the cache may hold. `IInv` is the conjunction.
Transparency then needs one more fact, `HitIsDecoded`: a cached block at the offset
of a request is what the request would decode to. It follows from `CacheFaithful`
and `OneWordPerOffset`, without which it fails.

**File reading**, for any image, inode, number of readers, offsets, lengths and
ceilings, with `Close` at any step: `ReadAt` keeps the contract of `io.ReaderAt`, and
`ReadFileLimit` returns the file or nothing. Assumptions: `InodesAssumption` (a block
list is as long as `blockCount` says, which is `InodeDecode`'s `ListExact`),
`SizesAssumption`, and `DecodingAssumption` (decoding gives bytes or an error; which of
them is open). The first half of the module is about the format alone: where block `k`
starts (`StartNext`, and `OffsetsAre` for `newFile`'s prefix sums), what a block or a
fragment can answer, and that a short answer means that a byte of the file does not
exist (`BadBlock`, `BadTail`). `blockCount` may wrap; `Plausible` is what `newFile` and
`readFileLimit` check against that. `Inv` says that what a call has delivered is a
prefix of its range, byte for byte as `FileFormat` defines the file, and in
`readFileLimit` that the running offset is the start of the next block and that
`remaining` and the output add up to the size, so that the unsigned `remaining` never
wraps.

**Inodes**, for any inodes, block size, chunk size, word size and limit: the block list
of a decoded file is the words on disk, as many as `blockCount` of the decoded size
calls for, and at no time longer than what the metadata delivered; every field of every
type comes from its place in the layout; no whole inode within the limits is refused.
Assumptions: `DecodeAssumption` (sizes are positive) and `DiskAssumption` (what follows
a body is a sequence of bytes, and a file's size field is a natural number). `ListExact`
speaks of the end of the loop only. `IInv` adds what holds inside it: the list so far is
a prefix of the words, no longer than `n`, and `n` is the count that the fields decoded
before call for. `ChunkKeeps` is the one step with arithmetic in it, the boundary of a
chunk; the other steps leave the list alone (`ListKept`). `DInv` rests on the lemmas
that compute what lies at each offset `readInode` uses (`BasicDirFields` and its like).

**Extended attributes**, for any image, index, limits and budget: the map returned has
exactly the names of the pairs that the entry counts, each with the value of its last
pair, and an error returns no map; the id entry is the one at the inode's index; the
output and the rounds stay within the budget; a sound list within the budget is
returned. Assumptions: `SizesAssumption` and `ImagesAssumption` (tables hold entries,
the region is a sequence, and every pointer that lies in the file leads to a block).
`IInv` is the loop's: after `i` rounds the cursor is at `entry.ref + i` and
`Holding(pos - 1)`, which is `AttributesExact` of the pairs before the cursor. The step
that needs care is a pair whose name is in the map already: the older pair stops being
the last of its name at the moment its value is replaced. `BInv` adds the accounts: what
is left of the budget and the price of the pairs read make up `maxXattrBytes`, where
the price is a sum over the pairs and what the map holds a sum over its names, which a
replaced value leaves behind.

**Opening and the codecs**, for any options, superblocks, image lengths, streams and
limits: a handle is kept with the value returned and with nothing else; a block read gives the
whole block within the limit or an error, and holds no more than the limit meanwhile; no sound stream that fits is
refused; what the writer writes opens and reads back. Assumptions: `OpenAssumption`,
`StreamsAssumption` and those about foreign superblocks and the writer's block size in
`OpenImage`. The theorems about streams need the opening half: that the limit a
decompressor works to is at most `MaxBlockSize` follows from what Open checked
(`AcceptedLimit`), and without it a window could bind before the limit.

**File data of the writer**, for any trees, options, block size and compressor: the
pending fragment block never outgrows a block; a tail is where its inode says at every
moment, though `addToFragment` hands out an index before the block it names exists; and
after `buildImage` every file reads back through `FileFormat`, which is the definition
the reader is proved against. Assumption: `WriterAssumption` (a block is shorter than
the uncompressed bit, and 32-bit sizes leave room in 64 bits). `ReadsBack`
has the premise `Fits`, that the data area and each file fit the 32-bit
fields; without it the property is false, because those fields are cut silently (see
the findings). `Inv` says that the data area is packed with blocks that do not overlap
(`Area`), that the blocks of each file written so far are on disk one behind the other
from its start (`BlocksPlaced`), and that its tail is in the fragment block of its index,
which is a written one or, for the last index, the pending one (`TailPlaced`). A flush
turns the second case into the first. Reading back then needs that the blocks at the
computed offsets are the ones written, and that the two-level fragment table gives the
entry back.

**The tree scan**, for any set of paths closed under parents (`PathsAssumption`), any
contents and targets and any number of changes by another process: what was left alone,
with the directories above it, is in the tree exactly; nodes are unique, lie below a
node, and are of a kind that was there or was reached through a symlink above; the image
file is touched last. The three properties need the stack of the recursion: `ScanInv`
says that the frames are the chain of directories above the one being read, that each of
them has a node, and that names still to be visited have none; and, the heart of it
(`ProgressInv`), that every entry left alone has a node already or that a name on the way
to it is still pending. A change by another process takes paths out of that claim and
never adds any.

Only model-checked:

* liveness (`BlocksArrive`, `ReadsReturn`, `LookupReturns`, `ListReturns`), which is
  out of the prover's reach, as is `ENABLED`;
* `PathResolve`, `MetaStream` and `DirTable`. Their references recurse over sequences:
  `Textbook` over the segments of a path as symlinks replace them, the streams of
  `MetaTable` and the listings of `DirTable` as folds over records and children. The
  library's induction theorems for sequences cannot be instantiated by the provers, so
  what these compute for every input is left to TLC;
* `ReadsLikeUncached`, the composition of the read loops with the caches. Each layer's
  promise is proved: the block layer implements `BlockStore`, and the read loops are
  right over any answers `BlockStore` may give. That the two fit together is what
  `cached_read` checks.

## Not modelled

* Builds with a 32-bit `int`. The models are of 64-bit builds, the only ones the
  workflow under `.github` builds and tests: there `int()` of a size word or an attribute's
  size keeps its value, and a block count too large for it comes out negative and is
  refused like any count past `MaxBlocks`. Conversions that do not (uint64 to int64, sizes
  cut to 32 and 16 bits, the wrap of `blockCount`) are modelled. A sum of an int64 start
  and block sizes that passes 2^63 is left unwrapped: it lies outside the image either way.
* `Stat`, `Xattrs`, `ListDir` and their like beyond the lookup, the kind check and the
  decoding they call: they copy fields. The methods of a read-only file system that
  return `ErrReadOnly` change nothing.
* Owner, times, permission bits and inode numbers as the reader sees them: copied, and
  nothing depends on them. The id table is one fixed entry that the reader never reads.
* The codec libraries: any function from stored to decoded bytes in the block layer,
  any stream in `Codec`.
* The `next` offset cached with a metadata block, a function of the block. Name strings
  are model values, so sorting is by an abstract order.
* One model of a whole image. File data, inodes, listings and attributes meet only
  through references and inode records, and the reading models start from every small
  value of those, whoever wrote it.
* `errors.go` has declarations only, and `bench.go` is not part of the library.
