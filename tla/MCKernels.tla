------------------------------ MODULE MCKernels -------------------------------
(***************************************************************************)
(* Kernels on small blocks: an int of 8 bits, in which the bytes of a tile *)
(* of 4 do not fit any more, and those of a tile of 6 wrap to a few.       *)
(***************************************************************************)
EXTENDS Kernels

Array      == [type |-> "double*", node |-> [says |-> "nothing", value |-> 0]]
Unknown    == [type |-> "float*", node |-> [says |-> "nothing", value |-> 0]]
IntNode(n) == [type |-> "int", node |-> [says |-> "number", value |-> n]]
Flag(b)    == [type |-> "bool", node |-> [says |-> "boolean", value |-> b]]

\* Two arrays, one of a type nobody knows, two sizes and a flag; a tile of less
\* than nothing.
Section(n, m) ==
  [a |-> Array, b |-> Array, f |-> Unknown, n |-> IntNode(n), m |-> IntNode(m),
   random |-> Flag(FALSE)]

MCDataSections ==
  {Section(1, 3), Section(2, 3), Section(4, 3), Section(6, 2), Section(-1, 2),
   [a |-> Array, n |-> [type |-> "int", node |-> [says |-> "text", value |-> 0]]]}

MCParamLists == {
  <<"a", "n">>, <<"n", "b">>, <<"a", "m">>, <<"a", "n", "random">>,
  <<"a", "b", "m", "n">>, <<"f", "b", "a", "n">>, <<"a", "undeclared", "b", "n">>,
  <<"b", "a", "a", "m">>
}

MCRolls == {<<-3, 2, 3>>}

\* Three arrays of a tile that takes more than one block.
MCTileSections == {[a |-> Array, b |-> Array, c |-> Array, m |-> IntNode(3)]}
MCTileLists == {<<"a", "m">>, <<"b", "m">>, <<"c", "m">>, <<"a", "b", "c", "m">>}

===============================================================================
