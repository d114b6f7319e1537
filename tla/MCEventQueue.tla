---------------------------- MODULE MCEventQueue ----------------------------
(***************************************************************************)
(* A rename from "d/x" to "e" with the kernel's cookie 1, another from "e" *)
(* out to "d" whose halves may fall in different windows, and plain        *)
(* changes without a cookie.                                               *)
(***************************************************************************)
EXTENDS EventQueue

MCName == {"w", "d", "x", "e"}
MCRoot == <<"w">>
Dir    == <<"w", "d">>
Inner  == <<"w", "d", "x">>
Beside == <<"w", "e">>

MCEvents ==
  {[kind |-> "from",   path |-> Inner,  cookie |-> 1],
   [kind |-> "to",     path |-> Beside, cookie |-> 1],
   [kind |-> "from",   path |-> Beside, cookie |-> 2],
   [kind |-> "to",     path |-> Dir,    cookie |-> 2],
   [kind |-> "change", path |-> Inner,  cookie |-> NoCookie]}

AnyDirectory == {MCRoot, Dir}
=============================================================================
