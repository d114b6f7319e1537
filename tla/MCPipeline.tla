---------------------------- MODULE MCPipeline -----------------------------
(***************************************************************************)
(* A watched root "w" with a directory "d", a file in it and a file beside *)
(* it, a channel of one, and a cap of two paths.  A report of two changes  *)
(* fills the channel, so that the second one widens a rescan.              *)
(***************************************************************************)
EXTENDS Pipeline

MCName == {"w", "d", "x", "e"}
MCRoot == <<"w">>
Dir    == <<"w", "d">>
Inner  == <<"w", "d", "x">>
Beside == <<"w", "e">>
MCWatched == {Dir, Inner, Beside}

MCReports ==
  {[kind |-> "dropped", paths |-> <<>>],
   [kind |-> "folder",  paths |-> <<Dir>>],
   [kind |-> "change",  paths |-> <<Beside>>],
   [kind |-> "both",    paths |-> <<Inner, Beside>>]}

MCEvents ==
  {[kind |-> "change", path |-> Dir,    cookie |-> NoCookie],
   [kind |-> "from",   path |-> Inner,  cookie |-> 1],
   [kind |-> "to",     path |-> Beside, cookie |-> 1]}

AnyDirectory == {MCRoot, Dir}
=============================================================================
