----------------------------- MODULE MCDirTable -----------------------------
(* Small instances of DirTable for TLC.                                        *)
EXTENDS DirTable

CONSTANTS LeafSizes,      \* of the inodes of files and symlinks
          NameLengths,
          MaxLeaves,
          ForeignNames,   \* name lengths of foreign entries
          ForeignSizes    \* sizes foreign inodes claim

Leaf(k, n, s) == [kind |-> k, nameLen |-> n, size |-> s, children |-> <<>>]

Dir(n, cs) == [kind |-> "dir", nameLen |-> n, size |-> 2, children |-> cs]

\* A root with up to MaxLeaves files, and one with a directory between two links.
Flat == {[n \in 1..(k + 1) |-> IF n = 1 THEN Dir(1, [i \in 1..k |-> i + 1])
                               ELSE Leaf("file", l[n - 1][1], l[n - 1][2])] :
           <<k, l>> \in UNION {{k} \X [1..k -> NameLengths \X LeafSizes] : k \in 0..MaxLeaves}}

Nested == {<<Dir(1, <<2, 3, 4>>), Leaf("symlink", 1, s), Dir(1, c), Leaf("symlink", 2, t),
             Leaf("file", 1, 1)>> : s, t \in LeafSizes, c \in {<<>>, <<5>>}}

MCTrees == Flat \cup Nested

\* A header that claims `count' entries, and the entries that follow it.
Group(count, lens) ==
  Bytes("header", [count |-> count - 1, block |-> 0, base |-> 1], DirHeader)
    \o FlattenSeq([i \in DOMAIN lens |->
         Bytes("entry", [offset |-> i, delta |-> 0, type |-> "file", len |-> lens[i] - 1],
               EntryHeader)
           \o Bytes("name", i, lens[i])])

\* A last group that may claim more entries than it has, alone or after a full one,
\* and a size that may be anything.
MCForeign ==
  {[stored |-> z, bytes |-> b] : z \in ForeignSizes,
     b \in {Group(c, l) : <<c, l>> \in
              {x \in (1..(MaxPerHeader + 1))
                       \X UNION {[1..k -> ForeignNames] : k \in 0..MaxPerHeader} :
                 x[1] >= Len(x[2])}}}
  \cup
  {[stored |-> z, bytes |-> Group(MaxPerHeader, [i \in 1..MaxPerHeader |-> 1]) \o b] :
     z \in ForeignSizes,
     b \in {Group(MaxPerHeader, [i \in 1..k |-> 1]) : k \in 0..MaxPerHeader}}
=============================================================================
