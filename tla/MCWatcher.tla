----------------------------- MODULE MCWatcher -----------------------------
(***************************************************************************)
(* A watched root "w" holding a directory "d", a file in it and a file     *)
(* beside it.  The root itself can change, which widens a scope past it.   *)
(***************************************************************************)
EXTENDS Watcher

MCName == {"w", "d", "x", "e"}
MCRoot == <<"w">>
Dir    == <<"w", "d">>
Inner  == <<"w", "d", "x">>
Beside == <<"w", "e">>
MCWatched == {MCRoot, Dir, Inner, Beside}

MCReports ==
  {[kind |-> "dropped", paths |-> <<>>],
   [kind |-> "folder",  paths |-> <<Dir>>],
   [kind |-> "change",  paths |-> <<MCRoot>>],
   [kind |-> "change",  paths |-> <<Inner>>],
   [kind |-> "both",    paths |-> <<Inner, Beside>>],
   [kind |-> "access",  paths |-> <<Beside>>]}
=============================================================================
