----------------------------- MODULE BlockCache -----------------------------
(***************************************************************************)
(* The block layer of an open squashfs image: readMetaBlockCached           *)
(* (metadata.go) and readBlock (data.go) over the two mutex-guarded FIFO     *)
(* caches of cache.go, called by any number of goroutines at once.  One      *)
(* critical section of the mutex is one step; the image read between a miss  *)
(* and the store that follows it is a step of its own, so two callers can    *)
(* miss on the same block and both store it.  Close may come at any time.    *)
(***************************************************************************)
EXTENDS Integers, Sequences, FiniteSets

CONSTANTS Callers,      \* goroutines that share one FS
          Offsets,      \* image offsets at which a block is named
          Blocks,       \* the block references found in the image's tables
          Payloads,     \* decoded block contents
          Content,      \* Content[b]: what reading and decoding b's bytes yields
          Cap,          \* Cap[k]: metaCap and dataCap
          BlockSize,    \* sb.BlockSize
          MetaBlockMax, \* metaBlockMax
          ImageSize,    \* fs.size, 0 when the image size is not known
          None          \* no block, no result

Kinds == {"meta", "data"}

Errors == {"corrupt", "ioerr"}

Results == Payloads \cup Errors \cup {"sparse"}

\* A reference carries the on-disk length n and the compressed flag: from the
\* size word for a data block, from the block's own header for a metadata block.
References == [kind : Kinds, off : Offsets, n : Nat, compressed : BOOLEAN]

ASSUME BlocksAssumption ==
  /\ Offsets \subseteq Int
  /\ Blocks \subseteq References
  /\ Payloads \cap (Errors \cup {"sparse"}) = {}
  /\ None \notin Blocks /\ None \notin Results
  /\ Content \in [Blocks -> Payloads \cup Errors]

\* The header of a metadata block is in the image, at the block's own offset.
ASSUME HeaderAssumption ==
  \A a, b \in Blocks : a.kind = "meta" /\ b.kind = "meta" /\ a.off = b.off => a = b

ASSUME CapAssumption == Cap \in [Kinds -> Nat \ {0}]

ASSUME SizeAssumption == BlockSize \in Nat /\ MetaBlockMax \in Nat /\ ImageSize \in Nat

VARIABLES pc,    \* pc[c]: where caller c is
          req,   \* req[c]: the block of c's current or last call
          buf,   \* buf[c]: the block c decoded and has not yet stored
          res,   \* res[c]: the result of c's last call
          map,   \* map[k][o]: the cached block of kind k at offset o, or None
          keys,  \* keys[k]: cached offsets, oldest first (metaKeys, dataKeys)
          open   \* the image handle has not been closed

vars == <<pc, req, buf, res, map, keys, open>>

Present(k) == {o \in Offsets : map[k][o] # None}

Init == /\ pc = [c \in Callers |-> "idle"]
        /\ req = [c \in Callers |-> None]
        /\ buf = [c \in Callers |-> None]
        /\ res = [c \in Callers |-> None]
        /\ map = [k \in Kinds |-> [o \in Offsets |-> None]]
        /\ keys = [k \in Kinds |-> <<>>]
        /\ open = TRUE

return(c, r) == /\ pc' = [pc EXCEPT ![c] = "idle"]
                /\ res' = [res EXCEPT ![c] = r]

goto(c, l) == /\ pc' = [pc EXCEPT ![c] = l]
              /\ UNCHANGED res

-----------------------------------------------------------------------------
\* checkExtent fails: the n bytes at off do not lie in an image of known size.
OutsideImage(b) == ImageSize > 0 /\ (b.off < 0 \/ b.off > ImageSize - b.n)

\* What readBlock answers from the size word alone, before cache and image.
Refused(b) == b.kind = "data" /\ (b.n = 0 \/ b.n > BlockSize \/ OutsideImage(b))

Refusal(b) == IF b.n = 0 THEN "sparse" ELSE "corrupt"

\* Mutant: blocks stored raw are looked up and cached too.
UsesCache_Raw(b) == b.kind \in Kinds

\* Metadata blocks always go through the cache, data blocks when compressed.
UsesCache(b) == b.kind = "meta" \/ b.compressed

\* A well-formed image: compressed data references to one offset that readBlock
\* does not refuse agree on the stored length.  (A sparse reference shares its
\* offset with the next stored block.)  Nothing in the reader checks this.
OneWordPerOffset ==
  \A a, b \in Blocks : /\ a.kind = "data" /\ a.compressed /\ ~Refused(a)
                       /\ b.kind = "data" /\ b.compressed /\ ~Refused(b)
                       /\ a.off = b.off
                       => a = b

\* What an open image yields for b: readMetaBlock refuses a bad stored length
\* once it has read the header, then both paths read and decode the payload.
Decoded(b) == IF b.kind = "meta" /\ (b.n = 0 \/ b.n > MetaBlockMax)
              THEN "corrupt"
              ELSE Content[b]

\* A goroutine calls readMetaBlockCached or readBlock.
Call(c, b) == /\ pc[c] = "idle"
              /\ req' = [req EXCEPT ![c] = b]
              /\ goto(c, "check")
              /\ UNCHANGED <<buf, map, keys, open>>

\* Mutant: only the sparse case is answered early.
Check_NoBounds(c) == /\ pc[c] = "check"
                     /\ IF req[c].kind = "data" /\ req[c].n = 0
                        THEN return(c, "sparse")
                        ELSE goto(c, IF UsesCache(req[c]) THEN "get" ELSE "read")
                     /\ UNCHANGED <<req, buf, map, keys, open>>

\* readBlock's early returns, and which path the block takes.
Check(c) == /\ pc[c] = "check"
            /\ IF Refused(req[c])
               THEN return(c, Refusal(req[c]))
               ELSE goto(c, IF UsesCache(req[c]) THEN "get" ELSE "read")
            /\ UNCHANGED <<req, buf, map, keys, open>>

\* getMeta, getData: one critical section.  (Open installs a cache in every FS,
\* so the nil-cache branch is not taken.)
Get(c) == /\ pc[c] = "get"
          /\ LET e == map[req[c].kind][req[c].off]
             IN  IF e # None THEN return(c, e) ELSE goto(c, "read")
          /\ UNCHANGED <<req, buf, map, keys, open>>

\* Mutant: a failed read is retried.
ReadFails_Retry(c) == /\ pc[c] = "read"
                      /\ goto(c, IF UsesCache(req[c]) THEN "get" ELSE "read")
                      /\ UNCHANGED <<req, buf, map, keys, open>>

\* rs.ReadAt fails: at any time while the image is open, always once it is not.
ReadFails(c) == /\ pc[c] = "read"
                /\ return(c, "ioerr")
                /\ UNCHANGED <<req, buf, map, keys, open>>

\* Mutant: the outcome is cached whether or not it is an error.
Stores_Errors(b) == UsesCache(b)

\* Only a block that is to be cached goes on to the store, never an error.
Stores(b) == UsesCache(b) /\ Decoded(b) \notin Errors

\* rs.ReadAt succeeds and the block is decoded, to be stored or returned.
Read(c) == /\ pc[c] = "read"
           /\ open
           /\ LET d == Decoded(req[c])
              IN  IF Stores(req[c])
                  THEN goto(c, "put") /\ buf' = [buf EXCEPT ![c] = d]
                  ELSE return(c, d) /\ UNCHANGED buf
           /\ UNCHANGED <<req, map, keys, open>>

fresh(k, o) == map[k][o] = None

\* Mutant: the cap is passed by one before anything is evicted.
full_OffByOne(k) == Cardinality(Present(k)) > Cap[k]

full(k) == Cardinality(Present(k)) >= Cap[k]

\* Mutant: a full cache evicts before it is known that the key is new.
evict_First(k, o) == full(k) /\ Len(keys[k]) > 0

evict(k, o) == fresh(k, o) /\ full(k) /\ Len(keys[k]) > 0

\* Mutant: the key is listed again when another caller has stored the block.
listed_Again(k, o, older) == Append(older, o)

listed(k, o, older) == IF fresh(k, o) THEN Append(older, o) ELSE older

\* putMeta, putData: one critical section.  A new key at a full cache evicts
\* the oldest one; a key that another caller stored meanwhile is overwritten.
put(k, o, d) ==
  LET kept  == IF evict(k, o) THEN [map[k] EXCEPT ![Head(keys[k])] = None] ELSE map[k]
      older == IF evict(k, o) THEN Tail(keys[k]) ELSE keys[k]
  IN  /\ map' = [map EXCEPT ![k] = [kept EXCEPT ![o] = d]]
      /\ keys' = [keys EXCEPT ![k] = listed(k, o, older)]

Put(c) == /\ pc[c] = "put"
          /\ put(req[c].kind, req[c].off, buf[c])
          /\ return(c, buf[c])
          /\ buf' = [buf EXCEPT ![c] = None]
          /\ UNCHANGED <<req, open>>

\* FS.Close on an FS that owns its image handle.  The caches stay.
Close == /\ open
         /\ open' = FALSE
         /\ UNCHANGED <<pc, req, buf, res, map, keys>>

Step(c) == Check(c) \/ Get(c) \/ ReadFails(c) \/ Read(c) \/ Put(c)

Next == \/ \E c \in Callers : Step(c) \/ \E b \in Blocks : Call(c, b)
        \/ Close

\* The Go scheduler runs every goroutine that can run, and no critical section
\* of the cache mutex blocks, so each caller is treated fairly.
Spec == Init /\ [][Next]_vars /\ \A c \in Callers : WF_vars(Step(c))

-----------------------------------------------------------------------------
\* Types.  What matters: buf and the two maps hold decoded blocks only, never an
\* error or the sparse marker, since readBlock and readMetaBlockCached return before
\* they store.
TypeOK == /\ pc \in [Callers -> {"idle", "check", "get", "read", "put"}]
          /\ req \in [Callers -> Blocks \cup {None}]
          /\ buf \in [Callers -> Payloads \cup {None}]
          /\ res \in [Callers -> Results \cup {None}]
          /\ map \in [Kinds -> [Offsets -> Payloads \cup {None}]]
          /\ keys \in [Kinds -> Seq(Offsets)]
          /\ open \in BOOLEAN

\* The key list and the map of each cache hold the same offsets, each once, even
\* when two callers missed on one block and both stored it (putMeta, putData).
\* A key listed twice would be evicted twice, a key not listed never.
KeysMatchMap ==
  \A k \in Kinds :
    /\ \A o \in Offsets : map[k][o] # None <=> \E i \in 1..Len(keys[k]) : keys[k][i] = o
    /\ \A i, j \in 1..Len(keys[k]) : keys[k][i] = keys[k][j] => i = j

\* However many callers miss at once, no cache outgrows its cap: the check
\* against the cap and the store are in one critical section (putMeta, putData).
WithinCap == \A k \in Kinds : Len(keys[k]) <= Cap[k]

\* A cached block is the decoded content of some reference of the image to that
\* offset that readBlock or readMetaBlock would have read and not refused, so an
\* error is never cached; this holds for every image, well formed or not.
CacheFaithful ==
  \A k \in Kinds, o \in Offsets :
    map[k][o] # None =>
      \E b \in Blocks : /\ b.kind = k /\ b.off = o
                        /\ UsesCache(b) /\ ~Refused(b)
                        /\ Decoded(b) = map[k][o]

\* A store never loses more blocks than it adds: a caller that lost the race to
\* store its block finds the key present and must not evict another block.
NeverShrinks ==
  [][\A k \in Kinds : Cardinality(Present(k)) <= Cardinality(Present(k)')]_vars

\* The results a read of b can have when no block is ever cached.
Uncached(b) == IF Refused(b) THEN {Refusal(b)} ELSE {Decoded(b), "ioerr"}

Store == INSTANCE BlockStore
           WITH busy <- [c \in Callers |-> pc[c] # "idle"], asked <- req, answer <- res,
                Answers <- [b \in Blocks |-> Uncached(b)]

\* cache.go says the caches are always consistent and need no invalidation.  Cache,
\* eviction, races and Close are invisible to the callers: the block layer implements
\* the cacheless BlockStore step by step, and what a call returns is what an uncached
\* read of the same reference could return, whatever was read before and by whom.
ServesLikeStore == Store!Safety

\* It also answers every call, whatever the other callers do.
ImplementsStore == Store!Spec
=============================================================================
