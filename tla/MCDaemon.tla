------------------------------ MODULE MCDaemon ------------------------------
(* Two syncs, so that one can fail, wait for its link or be flushing while the other ends. *)
EXTENDS Daemon
=============================================================================
