---------------------------- MODULE MCCachedRead ----------------------------
(* A small instance of CachedRead for TLC. *)
EXTENDS CachedRead, TLC

Ref(o, n, z) == [kind |-> "data", off |-> o, n |-> n, compressed |-> z]

\* Two files of blocks of two bytes, in one image: a compressed block, a raw one,
\* a shared compressed fragment, a short block, and one past the end.
MCContent == Ref(0, 1, TRUE) :> "a" @@ Ref(1, 2, FALSE) :> "b" @@ Ref(3, 1, TRUE) :> "tail"
               @@ Ref(4, 1, TRUE) :> "short" @@ Ref(5, 2, TRUE) :> "a"

MCBytes == [a |-> <<11, 12>>, b |-> <<21, 22>>, tail |-> <<31, 32>>, short |-> <<41>>]

MCImage(o, sz) == result(MCContent[blockOnDiskSize(o, sz)])

MCBlocks == DOMAIN MCContent

MCCap == [k \in {"meta", "data"} |-> 1]

MCFragTable == <<Ok(<<[start |-> 3, sizeWord |-> 1]>>)>>

File(s, o, b, f, g) == [size |-> s, start |-> o, blocks |-> b, fragIdx |-> f, fragOffset |-> g]

\* Stored, sparse, raw and a tail; a short block; a block past the image's end.
MCInodes == {File(7, 0, <<1, 0, 6>>, 0, 1), File(3, 3, <<1, 1>>, NoFrag, 0),
             File(4, 4, <<1, 2>>, NoFrag, 0), File(2, 5, <<2>>, NoFrag, 0)}

MCCeilings == {-1}
=============================================================================
