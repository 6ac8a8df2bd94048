----------------------------- MODULE InodeSizes -----------------------------
(***************************************************************************)
(* The length of a file inode's block list (inode.go), which the decoder, the *)
(* reader and the writer of file data all go by.                              *)
(***************************************************************************)
EXTENDS Integers

CONSTANTS BlockSize,   \* sb.BlockSize
          SizeLimit,   \* 2^64: file sizes are below it and their sums wrap at it
          NoFrag       \* invalidFrag

\* blockCount, in 64-bit arithmetic.
blockCount(size, hasFrag) ==
  IF hasFrag THEN size \div BlockSize
             ELSE ((size + BlockSize - 1) % SizeLimit) \div BlockSize
=============================================================================
