------------------------------- MODULE MCXattr -------------------------------
\* Small images with extended attributes for TLC.
EXTENDS Xattr

\* user. and trusted.; type t9 has no prefix.
MCPrefixLen == ("user" :> 1) @@ ("trusted" :> 2)

Inline(type, name, vsize) == [type |-> type, name |-> name, ool |-> FALSE, vsize |-> vsize, at |-> 0]

Shared(name, vsize, at) == [type |-> "user", name |-> name, ool |-> TRUE, vsize |-> vsize, at |-> at]

\* Empty and full values, a name of both namespaces, names and values past the
\* limits, a type without prefix, a reference of the wrong size, and references to
\* an inline value, to an out-of-line pair and out of the region.
Pairs == {Inline("user", <<>>, 0), Inline("user", <<"a">>, 3), Inline("trusted", <<"a">>, 0),
          Inline("user", <<"a">>, 4), Inline("user", <<"a", "b", "c", "d">>, 0),
          Inline("t9", <<>>, 0), Shared(<<"a">>, 2, 1), Shared(<<"b">>, 2, 1),
          Shared(<<"b">>, 2, 2), Shared(<<"b">>, 2, 7), Shared(<<"b">>, 3, 1)}

Regions == UNION {[1..n -> Pairs] : n \in 0..3}

E(ref, count) == [ref |-> ref, count |-> count]

\* Honest tables of one, two and three entries, one whose last block is short, one
\* with a block that does not decode, and one that claims more than the file holds.
Tables ==
  {[start |-> 10, len |-> 14, idCount |-> 3, blocks |-> <<<<E(1, 2), E(2, 1)>>, <<E(1, 3)>>>>],
   [start |-> 10, len |-> 14, idCount |-> 4, blocks |-> <<<<E(1, 0), E(2, 9)>>, <<E(4, 1)>>>>],
   [start |-> 10, len |-> 14, idCount |-> 3, blocks |-> <<<<>>, <<E(9, 0)>>>>],
   [start |-> 10, len |-> 13, idCount |-> 4, blocks |-> <<<<E(1, 1), E(2, 2)>>, <<>>>>],
   [start |-> 13, len |-> 14, idCount |-> 1, blocks |-> <<>>],
   [start |-> NoTable, len |-> 14, idCount |-> 0, blocks |-> <<>>]}

MCImages == {t @@ [pairs |-> r] : t \in Tables, r \in Regions}
=============================================================================
