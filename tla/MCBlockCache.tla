---------------------------- MODULE MCBlockCache ----------------------------
(* Small instances of BlockCache for TLC. *)
EXTENDS BlockCache, TLC

CONSTANTS p1, p2, p3, p4

Ref(k, o, n, z) == [kind |-> k, off |-> o, n |-> n, compressed |-> z]

MCOffsets == -1..4

MCPayloads == {p1, p2, p3, p4}

MCCap == [k \in Kinds |-> IF k = "meta" THEN 1 ELSE 2]

\* Metadata blocks: a good one and one with a bad header.  Data blocks: three
\* good compressed ones, more than the cache holds; one whose bytes do not
\* decode; one stored raw; a sparse one, one longer than the block size, one that
\* ends past the image and one at 2^63 or more, which is negative as an int64.
AllKinds ==
  Ref("meta", 0, 2, FALSE) :> p2 @@ Ref("meta", 1, 3, TRUE)  :> p1 @@
  Ref("data", 0, 1, TRUE)  :> p1 @@ Ref("data", 1, 1, TRUE)  :> p2 @@
  Ref("data", 2, 2, TRUE)  :> p3 @@ Ref("data", 3, 1, TRUE)  :> "corrupt" @@
  Ref("data", 3, 1, FALSE) :> p4 @@ Ref("data", 0, 0, TRUE)  :> p4 @@
  Ref("data", 4, 2, TRUE)  :> p4 @@ Ref("data", 0, 4, TRUE)  :> p4 @@
  Ref("data", -1, 1, TRUE) :> "ioerr"

AllKindsBlocks == DOMAIN AllKinds

Symmetric == Permutations(Callers)
=============================================================================
