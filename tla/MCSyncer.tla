----------------------------- MODULE MCSyncer -----------------------------
(***************************************************************************)
(* A directory, a file in it and a file beside it.                         *)
(***************************************************************************)
EXTENDS Syncer

MCName == {"d", "x", "e"}
MCFiles == {<<"d">>, <<"d", "x">>, <<"e">>}
FewFiles == {<<"d", "x">>, <<"e">>}
=============================================================================
