----------------------------- MODULE WatchRoot -----------------------------
(***************************************************************************)
(* The canonicalized directory being watched, which the watcher and the    *)
(* queue above it have in common.                                          *)
(***************************************************************************)
EXTENDS Paths

CONSTANT Root           \* the watch root

ASSUME RootAssumption == Root \in Path
=============================================================================
