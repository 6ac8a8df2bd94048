----------------------------- MODULE MetaStream -----------------------------
(***************************************************************************)
(* Metadata written and read back.  While the image is built, records (inodes *)
(* and directory listings) are appended to two tables and the references they *)
(* get are kept (write.go); buildImage closes the tables and lays them out one *)
(* after the other, followed by the id block.  Then a metaCursor (metadata.go) *)
(* reads, from any block and any offset in it, in pieces of any length.  An    *)
(* image may also come from another tool: then it is any chain of blocks,      *)
(* empty ones included.                                                        *)
(***************************************************************************)
EXTENDS MetaTable

CONSTANTS RecordLengths,  \* of what is written in one go
          MaxRecords,     \* bound on the records of an image
          ReadLengths,    \* of one readN
          MaxRead,        \* bound on the bytes one cursor delivers
          TablesStart,    \* iw.data.Len() when the tables are laid out
          ForeignAreas,   \* metadata areas of other tools: sequences of blocks
          NoCursor

Tables == {"inodes", "dirs"}

VARIABLES raw,      \* BuildOptions.Uncompressed
          tabs,     \* the two metaWriters
          recs,     \* ghost: [tab, ref, data] of every record written
          start,    \* InodeTableStart and DirTableStart of the superblock
          area,     \* the metadata blocks of the finished image, in order
          built,
          cursor    \* [from, next, cur, pos, want, got, failed] or NoCursor

vars == <<raw, tabs, recs, start, area, built, cursor>>

Init ==
  /\ raw \in BOOLEAN
  /\ tabs = [t \in Tables |-> EmptyTable]
  /\ recs = <<>>
  /\ start = [t \in Tables |-> TablesStart]
  /\ cursor = NoCursor
  /\ \/ area = <<>> /\ built = FALSE
     \/ area \in ForeignAreas /\ built = TRUE

-----------------------------------------------------------------------------
\* Mutant: the reference is taken after the record is written.
Write_RefAfter(t, n) ==
  /\ ~built
  /\ Len(recs) < MaxRecords
  /\ LET data == [k \in 1..n |-> 10 * (Len(recs) + 1) + k]
     IN  /\ \E w \in write(tabs[t], data, raw) : tabs' = [tabs EXCEPT ![t] = w]
         /\ recs' = Append(recs, [tab |-> t, ref |-> ref(tabs'[t]), data |-> data])
  /\ UNCHANGED <<raw, start, area, built, cursor>>

\* One inode or one listing goes into a table: its reference is taken, then it is
\* written.  All bytes are different, so that a misplaced one is seen.
Write(t, n) ==
  /\ ~built
  /\ Len(recs) < MaxRecords
  /\ LET data == [k \in 1..n |-> 10 * (Len(recs) + 1) + k]
     IN  /\ \E w \in write(tabs[t], data, raw) : tabs' = [tabs EXCEPT ![t] = w]
         /\ recs' = Append(recs, [tab |-> t, ref |-> ref(tabs[t]), data |-> data])
  /\ UNCHANGED <<raw, start, area, built, cursor>>

\* The end of buildImage: both tables are finished and follow one another, then
\* comes the block of the id table.
Finish ==
  /\ ~built
  /\ built' = TRUE
  /\ \E i \in finish(tabs["inodes"], raw), d \in finish(tabs["dirs"], raw) :
       LET dirStart == TablesStart + i.len
           idBlock == [at |-> dirStart + d.len, stored |-> 1, payload |-> <<0>>]
       IN  /\ tabs' = [inodes |-> i, dirs |-> d]
           /\ start' = [inodes |-> TablesStart, dirs |-> dirStart]
           /\ area' = Placed(i, TablesStart) \o Placed(d, dirStart) \o <<idBlock>>
  /\ UNCHANGED <<raw, recs, cursor>>

-----------------------------------------------------------------------------
\* newMetaCursor: loads the block, then checks the offset.
NewMetaCursor(at, off) ==
  /\ built
  /\ cursor = NoCursor
  /\ LET b == BlockAt(area, at)
     IN  cursor' = IF Starts(area, at) /\ off <= Len(b.payload)
                   THEN [from |-> [at |-> at, off |-> off], next |-> at + HeaderSize + b.stored,
                         cur |-> b.payload, pos |-> off, want |-> 0, got |-> <<>>,
                         failed |-> FALSE]
                   ELSE NoCursor
  /\ UNCHANGED <<raw, tabs, recs, start, area, built>>

Idle == cursor # NoCursor /\ ~cursor.failed /\ cursor.want = 0

Reading == cursor # NoCursor /\ ~cursor.failed /\ cursor.want > 0

\* readN: asks for n bytes.
ReadN(n) ==
  /\ Idle
  /\ Len(cursor.got) + n <= MaxRead
  /\ cursor' = [cursor EXCEPT !.want = n]
  /\ UNCHANGED <<raw, tabs, recs, start, area, built>>

\* The current block is used up: load, and stop at an empty block or none.
Load ==
  /\ Reading
  /\ cursor.pos >= Len(cursor.cur)
  /\ cursor' = IF ~Starts(area, cursor.next) THEN [cursor EXCEPT !.failed = TRUE]
               ELSE LET b == BlockAt(area, cursor.next)
                    IN  [cursor EXCEPT !.cur = b.payload, !.pos = 0,
                           !.next = @ + HeaderSize + b.stored, !.failed = (b.payload = <<>>)]
  /\ UNCHANGED <<raw, tabs, recs, start, area, built>>

\* Mutant: the position is set to the number of bytes copied.
Copy_SetsPos ==
  /\ Reading
  /\ cursor.pos < Len(cursor.cur)
  /\ LET n == IF cursor.want < Len(cursor.cur) - cursor.pos
              THEN cursor.want ELSE Len(cursor.cur) - cursor.pos
     IN  cursor' = [cursor EXCEPT !.pos = n, !.want = @ - n,
                      !.got = @ \o SubSeq(cursor.cur, cursor.pos + 1, cursor.pos + n)]
  /\ UNCHANGED <<raw, tabs, recs, start, area, built>>

\* The copy of one round of the loop in read.
Copy ==
  /\ Reading
  /\ cursor.pos < Len(cursor.cur)
  /\ LET n == IF cursor.want < Len(cursor.cur) - cursor.pos
              THEN cursor.want ELSE Len(cursor.cur) - cursor.pos
     IN  cursor' = [cursor EXCEPT !.pos = @ + n, !.want = @ - n,
                      !.got = @ \o SubSeq(cursor.cur, cursor.pos + 1, cursor.pos + n)]
  /\ UNCHANGED <<raw, tabs, recs, start, area, built>>

\* The caller is done with its cursor, or gives up on an error.
Drop ==
  /\ Idle \/ (cursor # NoCursor /\ cursor.failed)
  /\ cursor' = NoCursor
  /\ UNCHANGED <<raw, tabs, recs, start, area, built>>

\* Block offsets a reference may name: those of the blocks, and the end.
BlockOffsets ==
  IF area = <<>> THEN {TablesStart}
  ELSE {area[k].at : k \in 1..Len(area)}
         \cup {area[Len(area)].at + HeaderSize + area[Len(area)].stored}

Next == \/ \E t \in Tables, n \in RecordLengths : Write(t, n)
        \/ Finish
        \/ \E at \in BlockOffsets, off \in 0..(MetaBlockMax + 1) : NewMetaCursor(at, off)
        \/ \E n \in ReadLengths : ReadN(n)
        \/ Load
        \/ Copy
        \/ Drop

Spec == Init /\ [][Next]_vars

-----------------------------------------------------------------------------
\* The pending payload of a metaWriter is always shorter than a block (the comment
\* on its buf field), no emitted block is empty or longer than a block, and a
\* cursor's position stays within its block.
TypeOK ==
  /\ \A t \in Tables :
       /\ Len(tabs[t].buf) < MetaBlockMax
       /\ \A k \in 1..Len(tabs[t].out) : Len(tabs[t].out[k].payload) \in 1..MetaBlockMax
  /\ cursor # NoCursor => cursor.pos \in 0..Len(cursor.cur) /\ cursor.want >= 0

\* metaCursor crosses block boundaries transparently, wherever it starts and
\* however the reads are cut: the bytes delivered are those of the chain from its
\* reference on, and a read fails only when the chain has too few of them.
CursorFollowsStream ==
  cursor # NoCursor =>
    LET all == StreamFrom(area, cursor.from.at)
        read == cursor.from.off + Len(cursor.got)
    IN  /\ read <= Len(all)
        /\ cursor.got = SubSeq(all, cursor.from.off + 1, read)
        /\ cursor.failed => read + cursor.want > Len(all)

\* The references metaWriter.ref hands out before a record is written, while its
\* block is still pending and how the block will compress is unknown, lead a
\* reader to exactly that record in the finished image.
RecordsReadBack ==
  built => \A r \in 1..Len(recs) :
    LET at == start[recs[r].tab] + recs[r].ref.block
        off == recs[r].ref.offset
    IN  recs[r].data # <<>> =>
          /\ Starts(area, at)
          /\ SubSeq(StreamFrom(area, at), off + 1, off + Len(recs[r].data)) = recs[r].data
=============================================================================
