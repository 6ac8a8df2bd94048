------------------------------ MODULE MetaTable ------------------------------
(***************************************************************************)
(* Metadata tables.  The writer's side is metaWriter (write.go), as operators *)
(* on a record [out, len, buf]: the emitted blocks, m.out.Len() and the        *)
(* pending payload.  A block is [at, stored, payload]: its offset in the       *)
(* table, its length on disk after the header, and what it decodes to.  It is  *)
(* stored raw exactly when stored = Len(payload).  The reader's side is the    *)
(* stream of bytes that a chain of blocks holds.                               *)
(***************************************************************************)
EXTENDS Integers, Sequences, SequencesExt

CONSTANTS MetaBlockMax,   \* metaBlockMax
          HeaderSize,     \* of a metadata block: two bytes
          Shrunk          \* lengths a compressor may come to

EmptyTable == [out |-> <<>>, len |-> 0, buf |-> <<>>]

\* metaWriter.ref: where the next byte will be.
ref(w) == [block |-> w.len, offset |-> Len(w.buf)]

\* The stored lengths imageWriter.compress can come to for n bytes.
compress(n, raw) == IF raw THEN {n} ELSE {n} \cup {s \in Shrunk : s < n}

\* metaWriter.emit of one block.
emit(w, payload, stored) ==
  [w EXCEPT !.out = Append(@, [at |-> w.len, stored |-> stored, payload |-> payload]),
            !.len = @ + HeaderSize + stored]

\* Mutant: a block that is exactly full stays pending.
fullBlocks_LeavesFull(n) == IF n = 0 THEN 0 ELSE (n - 1) \div MetaBlockMax

\* The full blocks that metaWriter.write cuts off n pending bytes.
fullBlocks(n) == n \div MetaBlockMax

\* metaWriter.write: the tables that can result, one for each way the full blocks
\* compress.
write(w, p, raw) ==
  LET all == w.buf \o p
      full == fullBlocks(Len(all))
      block(k) == SubSeq(all, (k - 1) * MetaBlockMax + 1, k * MetaBlockMax)
      put(t, b) == emit(t, b.payload, b.stored)
  IN  {[FoldLeft(put, w, [k \in 1..full |-> [payload |-> block(k), stored |-> s[k]]])
          EXCEPT !.buf = SubSeq(all, full * MetaBlockMax + 1, Len(all))] :
         s \in [1..full -> compress(MetaBlockMax, raw)]}

\* metaWriter.finish.
finish(w, raw) ==
  IF w.buf = <<>> THEN {w}
  ELSE {[emit(w, w.buf, s) EXCEPT !.buf = <<>>] : s \in compress(Len(w.buf), raw)}

-----------------------------------------------------------------------------
\* The blocks of a table that starts at offset o of the image.
Placed(w, o) == [k \in 1..Len(w.out) |-> [w.out[k] EXCEPT !.at = @ + o]]

\* readMetaBlock at an offset of the image: the block of the chain that starts
\* there, and an error anywhere else.
Starts(area, at) == \E k \in 1..Len(area) : area[k].at = at

BlockAt(area, at) == area[CHOOSE k \in 1..Len(area) : area[k].at = at]

\* The bytes a chain of blocks holds from the block at offset `at' on: all of that
\* block, then the blocks after it up to an empty one.
StreamFrom(area, at) ==
  LET k == CHOOSE k \in 1..Len(area) : area[k].at = at
      stop == {j \in (k + 1)..Len(area) : area[j].payload = <<>>}
      last == IF stop = {} THEN Len(area) ELSE (CHOOSE j \in stop : \A i \in stop : j <= i) - 1
  IN  FlattenSeq([i \in 1..(last - k + 1) |-> area[k + i - 1].payload])
=============================================================================
