----------------------------- MODULE MCFileRead -----------------------------
(* Small instances of FileRead for TLC: every inode a small image can hold. *)
EXTENDS FileRead, TLC

CONSTANTS Words, Starts, Sizes, FragIdxs, FragOffsets

\* Blocks of two bytes, all bytes distinct: whole ones, a short one at offset 2
\* and one that does not decode at offset 3.
MCImage(o, sz) == CASE o = 2 -> Ok(<<1000 + sz>>)
                    [] o = 3 -> Fail("corrupt")
                    [] OTHER -> Ok(<<1000 * o + 10 * sz + 1, 1000 * o + 10 * sz + 2>>)

\* Three blocks of fragment entries: a whole fragment block and a sparse one; a
\* short one, and a missing entry; one that starts beyond an int64.
MCFragTable ==
  << Ok(<<[start |-> 4, sizeWord |-> 1], [start |-> 0, sizeWord |-> 0]>>),
     Ok(<<[start |-> 2, sizeWord |-> 1]>>),
     Ok(<<[start |-> 15, sizeWord |-> 1]>>) >>

MCOffsets == -1..6

MCCeilings == {-1, 3}

\* The inodes readInode can yield: a size near 2^64 wraps in blockCount and comes
\* with an empty block list.
FileInodes(sizes, frags, fragOffsets) ==
  UNION {{[size |-> s, start |-> o, blocks |-> b, fragIdx |-> f, fragOffset |-> g] :
            b \in [1..blockCount(s, f # NoFrag) -> Words]} :
         s \in sizes, o \in Starts, f \in frags, g \in fragOffsets}

MCInodes == FileInodes(Sizes \cup {SizeLimit - 1}, {NoFrag}, {0})
              \cup FileInodes(Sizes, FragIdxs, FragOffsets)
=============================================================================
