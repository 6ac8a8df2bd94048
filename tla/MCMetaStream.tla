---------------------------- MODULE MCMetaStream ----------------------------
(* Small instances of MetaStream for TLC.                                      *)
EXTENDS MetaStream

CONSTANT MaxForeign

\* Chains of up to MaxForeign blocks of up to MetaBlockMax bytes, stored in one byte
\* each, the empty block included.
Chain(lens) == [k \in DOMAIN lens |->
                  [at |-> TablesStart + (k - 1) * (HeaderSize + 1), stored |-> 1,
                   payload |-> [i \in 1..lens[k] |-> 10 * k + i]]]

MCForeign == {Chain(l) : l \in UNION {[1..n -> 0..MetaBlockMax] : n \in 1..MaxForeign}}
=============================================================================
