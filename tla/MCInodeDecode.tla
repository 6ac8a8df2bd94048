---------------------------- MODULE MCInodeDecode ----------------------------
\* Small inodes of every type for TLC.
EXTENDS InodeDecode

\* The bytes that follow a body, each different from the others.
Rests == {[j \in 1..m |-> 100 + j] : m \in 0..11}

Fields(sizes, frags) ==
  [start: {10}, offset: {11}, nlink: {12}, parent: {13}, count: {14}, sparse: {15}, xattr: {16},
   size: sizes, fragIdx: frags]

Inodes(types, sizes, frags, rests) ==
  [type: types, field: Fields(sizes, frags), cut: {"header", "body", "none"}, rest: rests]

\* Sizes about the multiples of a block and of a chunk, over the list's limit, and
\* at the end of the 64-bit range, where blockCount wraps.
MCDisk ==
  Inodes({"basicFile"}, 0..13, {0, NoFrag}, Rests)
    \cup Inodes({"extFile"}, 0..13 \cup {SizeLimit - 2, SizeLimit - 1}, {0, NoFrag}, Rests)
    \cup Inodes(Dirs, 0..5, {0}, {<<>>})
    \cup Inodes(Symlinks, 0..7, {0}, Rests)
    \cup Inodes(Special \cup {"unknown"}, {0}, {0}, {<<>>})
=============================================================================
