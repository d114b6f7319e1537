-------------------------------- MODULE Ship --------------------------------
(***************************************************************************)
(* Getting the agent onto a host: a client connects, and if no agent       *)
(* answers that speaks its protocol, it asks the host what it is, uploads  *)
(* its own binary beside the place of the agent, has it moved there, and   *)
(* connects again.  Several clients, of different versions, do so on one   *)
(* host and through one upload path, each with a shell at the far end that *)
(* runs "mkdir -p; cat > incoming; chmod; mv" and, when the link is cut,   *)
(* takes what has come for the whole and goes on.                          *)
(*                                                                         *)
(* The host, its shell and its kernel are external: a write goes to the    *)
(* file that was opened, whatever it is called by then; a file that is     *)
(* open for writing does not run.  A binary is a few blocks of one         *)
(* version, and runs if none is missing.                                   *)
(***************************************************************************)
EXTENDS Integers, FiniteSets, Sequences

CONSTANTS
  Clients,
  Stubborn,  \* those that try again: watch does, whose link was lost
  Version,   \* of each, its protocol's
  Header,    \* of each, what its binary is built for
  Hosts,     \* what uname may say
  Size,      \* blocks of a binary
  Shells,    \* bound: shells at work on the host
  MaxFaults  \* bound: links cut, and commands that fail in a shell

ASSUME ClientsAssumption ==
  Stubborn \subseteq Clients /\ "nobody" \notin Clients /\ Version \in [Clients -> Nat \ {0}]
\* What can be read from the first bytes of a binary; and from what is none, a script say.
BinaryTarget == [format : {"elf", "macho", "universal"}, machine : STRING]
Unrecognised == [format |-> "unrecognised", machine |-> "unknown"]

ASSUME HeaderAssumption == Header \in [Clients -> BinaryTarget \cup {Unrecognised}]
ASSUME ShipBounds == Size \in Nat \ {0} /\ {Shells, MaxFaults} \subseteq Nat

VARIABLES
  host,      \* the one at hand
  client,    \* where each client stands
  runs,      \* the file that its agent runs: "installed", or "gone" from there
  shell,     \* the shells at the far ends
  incoming, installed,  \* the files at the two paths, or Nothing
  faults

vars == <<host, client, runs, shell, incoming, installed, faults>>

File(content, executable) == [content |-> content, executable |-> executable]
Nothing == File(<<0>>, FALSE)
Empty == File(<<>>, FALSE)
Hole == 0

Whole(v) == [i \in 1..Size |-> v]

\* hand: the file that cat writes to, by the name it has now; sent: what has come of
\* the binary; cut: nobody is at the near end any more.
NoShell == [at |-> "none", owner |-> "nobody", hand |-> "none", sent |-> 0, cut |-> FALSE]

Fault == faults < MaxFaults /\ faults' = faults + 1

-----------------------------------------------------------------------------
(* What may be uploaded *)

Normalised(machine) ==
  CASE machine = "arm64" -> "aarch64" [] machine = "amd64" -> "x86_64" [] OTHER -> machine

\* runs_on: a header says as much of the system as its format does; a machine it does not
\* know is no reason to refuse.
RunsOn(header) ==
  /\ (header.format = "elf") = (host.system # "Darwin")
  /\ header.machine = "unknown" \/ Normalised(header.machine) = Normalised(host.machine)

\* accepts: what it does not recognise it does not judge.
Accepts(header) == header = Unrecognised \/ RunsOn(header)

-----------------------------------------------------------------------------
(* A client *)

Moves(c, at) == client' = [client EXCEPT ![c] = at]

\* An open_connection that fails is tried again, or is the command's failure.
OpenFails(c) == Moves(c, IF c \in Stubborn THEN "out" ELSE "failed")

Connect(c) ==
  /\ client[c] = "out"
  /\ Moves(c, "opening")
  /\ UNCHANGED <<host, runs, shell, incoming, installed, faults>>

\* Variant: any agent that answers will do.
AnyAnswers(c) == \E d \in Clients : installed.content = Whole(Version[d])
\* The handshake: an agent starts, and speaks this client's protocol.
Answers(c) == installed.content = Whole(Version[c])

BusyWritten == \E k \in 1..Shells : shell[k].at = "cat" /\ shell[k].hand = "installed"
Reached(c) == installed.executable /\ ~BusyWritten /\ Answers(c)

\* open_for, before an installation and after it.
Open(c) ==
  /\ client[c] \in {"opening", "reopening"}
  /\ \/ /\ Reached(c)
        /\ Moves(c, "connected") /\ runs' = [runs EXCEPT ![c] = "installed"]
        /\ UNCHANGED faults
     \/ /\ \/ ~Reached(c) /\ UNCHANGED faults
           \/ Reached(c) /\ Fault
        /\ IF client[c] = "opening" THEN Moves(c, "identifying") ELSE OpenFails(c)
        /\ UNCHANGED runs
  /\ UNCHANGED <<host, shell, incoming, installed>>

\* The platform is asked for, and the upload is begun if the binary is accepted.
Identify(c) ==
  /\ client[c] = "identifying"
  /\ \/ /\ Accepts(Header[c])
        /\ \E k \in 1..Shells :
             /\ shell[k].at = "none" /\ \A j \in 1..(k - 1) : shell[j].at # "none"
             /\ shell' = [shell EXCEPT ![k] = [NoShell EXCEPT !.at = "redirect", !.owner = c]]
        /\ Moves(c, "uploading") /\ UNCHANGED faults
     \/ /\ ~Accepts(Header[c]) /\ OpenFails(c) /\ UNCHANGED <<shell, faults>>
     \/ /\ Fault /\ OpenFails(c) /\ UNCHANGED shell
  /\ UNCHANGED <<host, runs, incoming, installed>>

Serves(k, c) == shell[k].owner = c /\ ~shell[k].cut

\* Variant: nobody waits for the shell.
NotWaitedFor(c) ==
  /\ client[c] = "uploading"
  /\ Moves(c, "reopening")
  /\ UNCHANGED <<host, runs, shell, incoming, installed, faults>>

\* The status of the shell is what the installation came to.
Installed(c) ==
  /\ client[c] = "uploading"
  /\ \E k \in 1..Shells :
       /\ Serves(k, c) /\ shell[k].at \in {"succeeded", "failed"}
       /\ IF shell[k].at = "succeeded" THEN Moves(c, "reopening") ELSE OpenFails(c)
       /\ shell' = [shell EXCEPT ![k] = NoShell]
  /\ UNCHANGED <<host, runs, incoming, installed, faults>>

\* The link goes during an upload: the shell sees its input end.
UploadCut(c) ==
  /\ client[c] = "uploading" /\ Fault
  /\ \E k \in 1..Shells : Serves(k, c) /\ shell' = [shell EXCEPT ![k].cut = TRUE]
  /\ OpenFails(c)
  /\ UNCHANGED <<host, runs, incoming, installed>>

\* A session ends, with its agent: the command's work is done, or the link is lost.
SessionEnds(c) ==
  /\ client[c] = "connected"
  /\ IF c \in Stubborn THEN Fault /\ Moves(c, "out") ELSE UNCHANGED faults /\ Moves(c, "done")
  /\ runs' = [runs EXCEPT ![c] = "none"]
  /\ UNCHANGED <<host, shell, incoming, installed>>

-----------------------------------------------------------------------------
(* The shell *)

Goes(k, at) == shell' = [shell EXCEPT ![k].at = at]
\* There is nobody to report to, once the link is cut.
Stops(k, status) == shell' = [shell EXCEPT ![k] = IF @.cut THEN NoShell ELSE [@ EXCEPT !.at = status]]

\* mkdir -p, which changes nothing that is there; and "> incoming", by which what is
\* there is cut to nothing, and stays the file that it is.
Redirect(k) ==
  /\ shell[k].at = "redirect"
  /\ incoming' = IF incoming = Nothing THEN Empty ELSE [incoming EXCEPT !.content = <<>>]
  /\ shell' = [shell EXCEPT ![k].at = "cat", ![k].hand = "incoming"]
  /\ UNCHANGED <<host, client, runs, installed, faults>>

\* A write at this cat's own place; what it skips is a hole.
WrittenAt(file, n, block) ==
  LET old == file.content
  IN [file EXCEPT !.content =
        [i \in 1..(IF n > Len(old) THEN n ELSE Len(old)) |->
           IF i = n THEN block ELSE IF i <= Len(old) THEN old[i] ELSE Hole]]

CatBlock(k) ==
  /\ shell[k].at = "cat" /\ ~shell[k].cut /\ shell[k].sent < Size
  /\ LET n == shell[k].sent + 1
         block == Version[shell[k].owner]
     IN /\ shell' = [shell EXCEPT ![k].sent = n]
        /\ incoming' = IF shell[k].hand = "incoming" THEN WrittenAt(incoming, n, block) ELSE incoming
        /\ installed' = IF shell[k].hand = "installed" THEN WrittenAt(installed, n, block) ELSE installed
  /\ UNCHANGED <<host, client, runs, faults>>

\* The end of its input is a success, whatever has come.
CatEnds(k) ==
  /\ shell[k].at = "cat" /\ (shell[k].cut \/ shell[k].sent = Size)
  /\ shell' = [shell EXCEPT ![k].at = "chmod", ![k].hand = "none"]
  /\ UNCHANGED <<host, client, runs, incoming, installed, faults>>

Chmod(k) ==
  /\ shell[k].at = "chmod"
  /\ IF incoming = Nothing
     THEN Stops(k, "failed") /\ UNCHANGED incoming
     ELSE Goes(k, "mv") /\ incoming' = [incoming EXCEPT !.executable = TRUE]
  /\ UNCHANGED <<host, client, runs, installed, faults>>

Renamed(name) == CASE name = "incoming" -> "installed" [] name = "installed" -> "gone" [] OTHER -> name

\* Variant: what is there is left alone, and that is no failure.
MoveUnlessThere(k) ==
  /\ shell[k].at = "mv"
  /\ Stops(k, "succeeded")
  /\ IF incoming = Nothing \/ installed # Nothing
     THEN UNCHANGED <<incoming, installed>>
     ELSE installed' = incoming /\ incoming' = Nothing
  /\ UNCHANGED <<host, client, runs, faults>>

\* A rename: whoever runs or writes the file of before goes on doing so.
Move(k) ==
  /\ shell[k].at = "mv"
  /\ IF incoming = Nothing
     THEN Stops(k, "failed") /\ UNCHANGED <<runs, incoming, installed>>
     ELSE /\ installed' = incoming /\ incoming' = Nothing
          /\ runs' = [c \in Clients |-> Renamed(runs[c])]
          /\ shell' = [j \in 1..Shells |->
               IF j # k THEN [shell[j] EXCEPT !.hand = Renamed(@)]
               ELSE IF shell[k].cut THEN NoShell ELSE [shell[k] EXCEPT !.at = "succeeded"]]
  /\ UNCHANGED <<host, client, faults>>

\* set -e: the first command that fails is the last.
CommandFails(k) ==
  /\ shell[k].at \in {"redirect", "cat", "chmod", "mv"} /\ Fault
  /\ shell' = [shell EXCEPT ![k] = IF @.cut THEN NoShell
                                   ELSE [@ EXCEPT !.at = "failed", !.hand = "none"]]
  /\ UNCHANGED <<host, client, runs, incoming, installed>>

-----------------------------------------------------------------------------
Init ==
  /\ host \in Hosts
  /\ client = [c \in Clients |-> "out"] /\ runs = [c \in Clients |-> "none"]
  /\ shell = [k \in 1..Shells |-> NoShell]
  /\ incoming = Nothing
  /\ installed \in {Nothing} \cup {File(Whole(Version[c]), TRUE) : c \in Clients}
  /\ faults = 0

ClientStep(c) == Connect(c) \/ Open(c) \/ Identify(c) \/ Installed(c)

ShellStep(k) == Redirect(k) \/ CatBlock(k) \/ CatEnds(k) \/ Chmod(k) \/ Move(k)

Next ==
  \/ \E c \in Clients : ClientStep(c) \/ UploadCut(c) \/ SessionEnds(c)
  \/ \E k \in 1..Shells : ShellStep(k) \/ CommandFails(k)

Spec == Init /\ [][Next]_vars

\* Clients go on with what they have begun, and so do shells.
FairSpec ==
  /\ Spec
  /\ \A c \in Clients : WF_vars(ClientStep(c))
  /\ \A k \in 1..Shells : WF_vars(ShellStep(k))

-----------------------------------------------------------------------------
(* Properties *)

\* Every variable keeps its type; an upload that is waited for has one shell; and what a
\* shell writes to, or an agent runs, under one of the names is there.
TypeOK ==
  /\ host \in Hosts
  /\ client \in [Clients -> {"out", "opening", "identifying", "uploading", "reopening", "connected",
                             "done", "failed"}]
  /\ runs \in [Clients -> {"none", "installed", "gone"}]
  /\ \A k \in 1..Shells :
       /\ shell[k].at \in {"none", "redirect", "cat", "chmod", "mv", "succeeded", "failed"}
       /\ shell[k].sent \in 0..Size
       /\ (shell[k].at = "cat") = (shell[k].hand # "none")
       /\ shell[k].hand = "incoming" => incoming # Nothing
       /\ shell[k].hand = "installed" => installed # Nothing
  /\ \A file \in {incoming, installed} :
       file.content \in Seq(Nat) /\ Len(file.content) <= Size + 1 /\ file.executable \in BOOLEAN
  /\ \A c \in Clients :
       /\ (client[c] = "connected") = (runs[c] # "none")
       /\ Cardinality({k \in 1..Shells : Serves(k, c)}) = IF client[c] = "uploading" THEN 1 ELSE 0

\* A session runs a binary that is whole and of its client's protocol, and as long as
\* it lasts nobody writes to that: not the upload of another client, through whatever
\* path, nor one that was cut off and whose shell is still there.
RunsWhole ==
  \A c \in Clients :
    runs[c] = "installed" => installed.content = Whole(Version[c]) /\ ~BusyWritten

\* A client that keeps trying gets its agent, if its binary is one that is accepted:
\* over an upload that was cut off, a leftover, one that failed, an agent of another
\* version, and the single installation of another client in between.
Heals == \A c \in Stubborn : Accepts(Header[c]) => <>[](client[c] = "connected")

\* As documented, a transfer cut halfway leaves nothing that looks installed.
NothingHalfInstalled ==
  installed # Nothing => \E c \in Clients : installed.content = Whole(Version[c])
=============================================================================
