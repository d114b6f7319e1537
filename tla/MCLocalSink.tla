---------------------------- MODULE MCLocalSink ----------------------------
(* Two files of one length, so that one read while it becomes the other looks like it. *)
EXTENDS LocalSink

MCContents == {<<1, 1>>, <<2, 2>>}
=============================================================================
