--------------------------- MODULE AtomicReplace ---------------------------
(***************************************************************************)
(* What a copy over an existing file promises to whoever reads the target. *)
(* At the path is what was there before, or something offered: a content   *)
(* the copy has read from beginning to end.  One step puts the one in the  *)
(* place of the other; there is no state between them, and no moment with  *)
(* nothing there, except where taking it away was asked for.               *)
(***************************************************************************)
CONSTANT Absent  \* stands for the content of a path at which there is nothing

VARIABLES
  offered,   \* the contents read whole so far
  removable, \* taking away what is there has been asked for
  shown      \* what is at the path

vars == <<offered, removable, shown>>

Init == shown \in offered \cup {Absent}

\* Another content has been read, or the path's removal is or is no longer wanted.
Offer == offered \subseteq offered' /\ UNCHANGED shown

Publish == offered \subseteq offered' /\ shown' \in offered'

Withdraw == offered \subseteq offered' /\ removable /\ shown' = Absent

Next == Offer \/ Publish \/ Withdraw

Spec == Init /\ [][Next]_vars

\* What is shown has been read whole, or nothing is there.
OldOrWhole == shown \in offered \cup {Absent}
=============================================================================
