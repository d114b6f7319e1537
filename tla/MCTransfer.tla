---------------------------- MODULE MCTransfer ----------------------------
(***************************************************************************)
(* Two files of one and two blocks that end alike: a delta between them    *)
(* copies a block and sends another, and either is longer than a prefix    *)
(* of the other.                                                           *)
(***************************************************************************)
EXTENDS Transfer

TwoContents == {<<1, 2>>, <<2>>}
=============================================================================
