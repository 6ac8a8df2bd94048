---------------------------- MODULE MCFileWriter ----------------------------
(* Small instances of FileWriter for TLC: every tree of a few small files.     *)
EXTENDS FileWriter

CONSTANTS FileSizes, MaxFiles

\* All bytes of a tree are different.
Contents(sizes) == [f \in DOMAIN sizes |-> [p \in 1..sizes[f] |-> 10 * f + p]]

\* Small trees, and single files about the width of a size field.
MCTrees == {Contents(s) : s \in UNION {[1..n -> FileSizes] : n \in 0..MaxFiles}
                                   \cup [1..1 -> (Width - 1)..(Width + 1)]}

MCOptions == [NoFragments : BOOLEAN, Uncompressed : BOOLEAN]
=============================================================================
