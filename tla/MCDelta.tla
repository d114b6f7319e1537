------------------------------ MODULE MCDelta ------------------------------
(* Files over two bytes in blocks of three, of which there are eight with four weak        *)
(* checksums between them: none, one block, a repeated block, blocks that collide, a      *)
(* short block at the end, distinct blocks in a row, less than a block.                   *)
EXTENDS Delta

MCTarget == {<<>>, <<1, 0>>, <<0, 1, 0>>, <<0, 0, 0, 0, 0, 0>>, <<0, 1, 0, 0, 0, 0, 1>>,
             <<0, 0, 1, 1, 0, 0, 1, 1, 1>>}
MCKept == {<<>>, <<1>>, <<0, 1, 1, 0>>}
=============================================================================
