------------------------------- MODULE MCShip -------------------------------
(***************************************************************************)
(* A daemon that keeps trying and one command of another version, whose    *)
(* binary is wrapped in a script; on a host whose machine goes by another  *)
(* name than in a header, and on one that is not for the daemon's binary.  *)
(***************************************************************************)
EXTENDS Ship

MCVersion == [c \in Clients |-> IF c = "daemon" THEN 1 ELSE 2]
MCHeader ==
  [c \in Clients |-> IF c = "daemon" THEN [format |-> "elf", machine |-> "x86_64"]
                     ELSE Unrecognised]
MCHosts == {[system |-> "FreeBSD", machine |-> "amd64"], [system |-> "Darwin", machine |-> "x86_64"]}
=============================================================================
