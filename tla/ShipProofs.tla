----------------------------- MODULE ShipProofs -----------------------------
(***************************************************************************)
(* What a session may rely on, for any clients and versions, any size of a *)
(* binary, and as many shells and faults as there may be.                  *)
(***************************************************************************)
EXTENDS Ship, FiniteSetTheorems, TLAPS

Shell == 1..Shells

AgentsOK == runs \in [Clients -> {"none", "installed", "gone"}]

Place == {"none", "redirect", "cat", "chmod", "mv", "succeeded", "failed"}
Name == {"none", "incoming", "installed", "gone"}
ShellRecord == [at : Place, owner : Clients \cup {"nobody"}, hand : Name, sent : 0..Size, cut : BOOLEAN]
ShellsOK == shell \in [Shell -> ShellRecord]

\* A connection only begins on a file that nobody writes to, and a file that comes in
\* the place of another is not the one that runs.
IInv == AgentsOK /\ RunsWhole

LEMMA NoShellIsOne == NoShell \in ShellRecord
BY ShipBounds DEF NoShell, ShellRecord, Place, Name

LEMMA Initially == Init => IInv /\ ShellsOK
<1>1. Init => IInv
  BY DEF Init, IInv, AgentsOK, RunsWhole
<1>2. NoShell \in ShellRecord
  BY NoShellIsOne
<1>3. Init => ShellsOK
  BY <1>2 DEF Init, ShellsOK, Shell
<1> QED
  BY <1>1, <1>3

\* A shell that stops, with a status or unheard, opens nothing.
LEMMA StopsKeeps ==
  ASSUME ShellsOK, NEW k \in Shell, NEW status \in Place \ {"cat"}, Stops(k, status)
  PROVE  ShellsOK' /\ (installed' = installed => (BusyWritten' => BusyWritten))
<1> DEFINE stopped == IF shell[k].cut THEN NoShell ELSE [shell[k] EXCEPT !.at = status]
<1>1. NoShell \in ShellRecord /\ NoShell.at # "cat"
  BY NoShellIsOne DEF NoShell
<1>2. [shell[k] EXCEPT !.at = status] \in ShellRecord /\ [shell[k] EXCEPT !.at = status].at # "cat"
  BY DEF ShellsOK, ShellRecord
<1>3. stopped \in ShellRecord /\ stopped.at # "cat"
  BY <1>1, <1>2
<1>4. shell' = [shell EXCEPT ![k] = stopped]
  BY DEF Stops
<1> HIDE DEF stopped
<1>5. ShellsOK'
  BY <1>3, <1>4 DEF ShellsOK
<1>6. ASSUME BusyWritten' PROVE BusyWritten
  <2>1. PICK j \in Shell : shell'[j].at = "cat" /\ shell'[j].hand = "installed"
    BY <1>6 DEF BusyWritten, Shell
  <2>2. j # k
    BY <1>3, <1>4, <2>1 DEF ShellsOK
  <2> QED
    BY <1>4, <2>1, <2>2 DEF BusyWritten, ShellsOK, Shell
<1> QED
  BY <1>5, <1>6

\* A shell that goes on to anything but a cat opens nothing either.
LEMMA GoesKeeps ==
  ASSUME ShellsOK, NEW k \in Shell, NEW at \in Place \ {"cat"}, Goes(k, at)
  PROVE  ShellsOK' /\ (BusyWritten' => BusyWritten)
BY DEF ShellsOK, ShellRecord, Goes, BusyWritten, Shell

LEMMA ShellsInductive == ShellsOK /\ [Next]_vars => ShellsOK'
<1> SUFFICES ASSUME ShellsOK, [Next]_vars
             PROVE  ShellsOK'
  OBVIOUS
<1> USE DEF ShellsOK, ShellRecord, Place, Name, Shell
<1>1. ASSUME NEW c \in Clients, ClientStep(c) \/ UploadCut(c) \/ SessionEnds(c)
      PROVE  ShellsOK'
  <2>1. CASE Connect(c) \/ Open(c) \/ SessionEnds(c)
    BY <2>1 DEF Connect, Open, SessionEnds
  <2>2. CASE Identify(c)
    <3>1. [NoShell EXCEPT !.at = "redirect", !.owner = c] \in ShellRecord
      BY NoShellIsOne DEF NoShell
    <3> QED
      BY <2>2, <3>1 DEF Identify
  <2>3. CASE Installed(c)
    <3>1. NoShell \in ShellRecord
      BY NoShellIsOne
    <3> QED
      BY <2>3, <3>1 DEF Installed
  <2>4. CASE UploadCut(c)
    <3>1. PICK j \in Shell : shell' = [shell EXCEPT ![j].cut = TRUE]
      BY <2>4, Zenon DEF UploadCut
    <3>2. [shell[j] EXCEPT !.cut = TRUE] \in ShellRecord
      OBVIOUS
    <3>3. shell' = [shell EXCEPT ![j] = [shell[j] EXCEPT !.cut = TRUE]]
      BY <3>1
    <3> HIDE DEF ShellRecord
    <3> QED
      BY <3>2, <3>3
  <2> QED
    BY <1>1, <2>1, <2>2, <2>3, <2>4 DEF ClientStep
<1>2. ASSUME NEW k \in Shell, ShellStep(k) \/ CommandFails(k)
      PROVE  ShellsOK'
  <2>1. CASE Redirect(k)
    BY <2>1 DEF Redirect
  <2>2. CASE CatBlock(k) \/ CatEnds(k)
    BY <2>2, ShipBounds DEF CatBlock, CatEnds
  <2>3. CASE Chmod(k)
    BY <2>3, StopsKeeps, GoesKeeps DEF Chmod
  <2>4. CASE Move(k)
    <3>1. \A name \in Name : Renamed(name) \in Name
      BY DEF Renamed
    <3>2. CASE incoming = Nothing
      BY <2>4, <3>2, StopsKeeps DEF Move
    <3>3. CASE incoming # Nothing
      <4>1. shell' = [j \in Shell |->
              IF j # k THEN [shell[j] EXCEPT !.hand = Renamed(@)]
              ELSE IF shell[k].cut THEN NoShell ELSE [shell[k] EXCEPT !.at = "succeeded"]]
        BY <2>4, <3>3 DEF Move
      <4>2. NoShell \in ShellRecord
        BY NoShellIsOne
      <4>3. [shell[k] EXCEPT !.at = "succeeded"] \in ShellRecord
        OBVIOUS
      <4>4. \A j \in Shell : [shell[j] EXCEPT !.hand = Renamed(@)] \in ShellRecord
        BY <3>1
      <4> QED
        BY <4>1, <4>2, <4>3, <4>4
    <3> QED
      BY <3>2, <3>3
  <2>5. CASE CommandFails(k)
    BY <2>5, NoShellIsOne DEF CommandFails, NoShell
  <2> QED
    BY <1>2, <2>1, <2>2, <2>3, <2>4, <2>5 DEF ShellStep
<1>3. CASE UNCHANGED vars
  BY <1>3 DEF vars
<1> QED
  BY <1>1, <1>2, <1>3 DEF Next

\* A step that leaves the agents and the installed file alone, and opens that to nobody.
LEMMA Untouched ==
  ASSUME IInv, UNCHANGED <<runs, installed>>, BusyWritten' => BusyWritten
  PROVE  IInv'
BY DEF IInv, AgentsOK, RunsWhole

LEMMA ClientPreserves ==
  ASSUME IInv, ShellsOK, NEW c \in Clients, ClientStep(c) \/ UploadCut(c) \/ SessionEnds(c)
  PROVE  IInv'
<1> USE DEF ShellsOK, ShellRecord, Place, Name, Shell
<1>1. CASE Connect(c)
  BY <1>1, Untouched DEF Connect, BusyWritten
<1>2. CASE Open(c)
  <2>1. CASE Reached(c) /\ runs' = [runs EXCEPT ![c] = "installed"]
    BY <1>2, <2>1 DEF Open, Reached, Answers, IInv, AgentsOK, RunsWhole, BusyWritten
  <2>2. CASE UNCHANGED runs
    BY <1>2, <2>2, Untouched DEF Open, BusyWritten
  <2> QED
    BY <1>2, <2>1, <2>2 DEF Open
<1>3. CASE Identify(c)
  <2>1. BusyWritten' => BusyWritten
    BY <1>3 DEF Identify, BusyWritten, NoShell
  <2> QED
    BY <1>3, <2>1, Untouched DEF Identify
<1>4. CASE Installed(c)
  <2>1. BusyWritten' => BusyWritten
    BY <1>4 DEF Installed, BusyWritten, NoShell
  <2> QED
    BY <1>4, <2>1, Untouched DEF Installed
<1>5. CASE UploadCut(c)
  <2>1. BusyWritten' => BusyWritten
    BY <1>5 DEF UploadCut, BusyWritten
  <2> QED
    BY <1>5, <2>1, Untouched DEF UploadCut
<1>6. CASE SessionEnds(c)
  BY <1>6 DEF SessionEnds, IInv, AgentsOK, RunsWhole, BusyWritten
<1> QED
  BY <1>1, <1>2, <1>3, <1>4, <1>5, <1>6 DEF ClientStep

LEMMA ShellPreserves ==
  ASSUME IInv, ShellsOK, NEW k \in Shell, ShellStep(k) \/ CommandFails(k)
  PROVE  IInv'
<1> USE DEF ShellsOK, ShellRecord, Place, Name, Shell
<1>1. CASE Redirect(k)
  <2>1. BusyWritten' => BusyWritten
    BY <1>1 DEF Redirect, BusyWritten
  <2> QED
    BY <1>1, <2>1, Untouched DEF Redirect
\* What is written to the installed file is written while no agent runs it.
<1>2. CASE CatBlock(k)
  <2>1. BusyWritten' => BusyWritten
    BY <1>2 DEF CatBlock, BusyWritten
  <2>2. CASE shell[k].hand = "installed"
    <3>1. BusyWritten
      BY <1>2, <2>2 DEF CatBlock, BusyWritten
    <3> QED
      BY <1>2, <3>1 DEF CatBlock, IInv, AgentsOK, RunsWhole
  <2>3. CASE shell[k].hand # "installed"
    BY <1>2, <2>1, <2>3, Untouched DEF CatBlock
  <2> QED
    BY <2>2, <2>3
<1>3. CASE CatEnds(k)
  <2>1. BusyWritten' => BusyWritten
    BY <1>3 DEF CatEnds, BusyWritten
  <2> QED
    BY <1>3, <2>1, Untouched DEF CatEnds
<1>4. CASE Chmod(k)
  <2>1. BusyWritten' => BusyWritten
    BY <1>4, StopsKeeps, GoesKeeps DEF Chmod
  <2> QED
    BY <1>4, <2>1, Untouched DEF Chmod
\* After a rename no agent runs what has come to the place.
<1>5. CASE Move(k)
  <2>1. CASE incoming = Nothing
    <3>1. BusyWritten' => BusyWritten
      BY <1>5, <2>1, StopsKeeps DEF Move
    <3> QED
      BY <1>5, <2>1, <3>1, Untouched DEF Move
  <2>2. CASE incoming # Nothing
    <3>1. runs' = [c \in Clients |-> Renamed(runs[c])]
      BY <1>5, <2>2 DEF Move
    <3>2. \A c \in Clients : \/ runs[c] \in {"none", "gone"} /\ Renamed(runs[c]) = runs[c]
                             \/ Renamed(runs[c]) = "gone"
      BY DEF IInv, AgentsOK, Renamed
    <3> QED
      BY <3>1, <3>2 DEF IInv, AgentsOK, RunsWhole
  <2> QED
    BY <2>1, <2>2
<1>6. CASE CommandFails(k)
  <2>1. BusyWritten' => BusyWritten
    BY <1>6 DEF CommandFails, BusyWritten, NoShell
  <2> QED
    BY <1>6, <2>1, Untouched DEF CommandFails
<1> QED
  BY <1>1, <1>2, <1>3, <1>4, <1>5, <1>6 DEF ShellStep

LEMMA Inductive == IInv /\ ShellsOK /\ [Next]_vars => IInv'
<1> SUFFICES ASSUME IInv, ShellsOK, [Next]_vars
             PROVE  IInv'
  OBVIOUS
<1>1. CASE UNCHANGED vars
  BY <1>1, Untouched DEF vars, BusyWritten
<1>2. CASE Next
  BY <1>2, ClientPreserves, ShellPreserves DEF Next, Shell
<1> QED
  BY <1>1, <1>2

\* A session runs a whole agent of its client's version, and as long as it lasts nobody
\* writes to that, whatever other installations do, are cut off from or leave.
THEOREM SessionsRunWhole == Spec => []RunsWhole
<1>1. IInv => RunsWhole
  BY DEF IInv
<1> QED
  BY <1>1, Initially, Inductive, ShellsInductive, PTL DEF Spec

-----------------------------------------------------------------------------
(* Types *)

Status == {"out", "opening", "identifying", "uploading", "reopening", "connected", "done", "failed"}

IsFile(file) == file \in [content : Seq(Nat), executable : BOOLEAN] /\ Len(file.content) <= Size

\* A shell is somebody's as long as it is at work.
Owned(shells) == \A k \in Shell : (shells[k].at = "none") = (shells[k].owner = "nobody")

\* A cat, and nothing else, has a file open; what has a name is there.
Handles(shells, atIncoming, atInstalled) ==
  \A k \in Shell : /\ (shells[k].at = "cat") = (shells[k].hand # "none")
                   /\ shells[k].hand = "incoming" => atIncoming # Nothing
                   /\ shells[k].hand = "installed" => atInstalled # Nothing

Sessions(clients, agents) == \A c \in Clients : (clients[c] = "connected") = (agents[c] # "none")

\* Serves, of any state.
ServesIn(shells, k, c) == shells[k].owner = c /\ ~shells[k].cut

\* An upload that is waited for has one shell, and no other client has any.
Served(clients, shells) ==
  \A c \in Clients :
    IF clients[c] = "uploading"
    THEN \E k \in Shell : \A j \in Shell : ServesIn(shells, j, c) <=> j = k
    ELSE \A j \in Shell : ~ServesIn(shells, j, c)

TInv ==
  /\ host \in Hosts /\ client \in [Clients -> Status] /\ AgentsOK /\ ShellsOK
  /\ IsFile(incoming) /\ IsFile(installed)
  /\ Owned(shell) /\ Handles(shell, incoming, installed)
  /\ Sessions(client, runs) /\ Served(client, shell)

LEMMA NothingIsAFile == IsFile(Nothing)
BY ShipBounds DEF Nothing, File, IsFile

LEMMA TypesInitially == Init => TInv
<1> SUFFICES ASSUME Init
             PROVE  TInv
  OBVIOUS
<1>1. AgentsOK /\ ShellsOK
  BY Initially DEF IInv
<1>2. IsFile(incoming) /\ IsFile(installed)
  <2>1. \A v \in Nat : IsFile(File(Whole(v), TRUE))
    <3> TAKE v \in Nat
    <3>1. Whole(v) \in Seq(Nat) /\ Len(Whole(v)) = Size
      BY ShipBounds DEF Whole
    <3> QED
      BY <3>1, ShipBounds DEF File, IsFile
  <2> QED
    BY <2>1, NothingIsAFile, ClientsAssumption DEF Init
<1>3. Owned(shell) /\ Handles(shell, incoming, installed)
  BY DEF Init, NoShell, Owned, Handles, Shell
<1>4. Sessions(client, runs)
  BY DEF Init, Sessions
<1>5. Served(client, shell)
  BY ClientsAssumption DEF Init, Served, ServesIn, NoShell, Shell
<1> QED
  BY <1>1, <1>2, <1>3, <1>4, <1>5 DEF Init, TInv, Status

\* What a step does not change of which shells serve whom.
LEMMA ServedStays ==
  ASSUME NEW clients, NEW shells, NEW clients2, NEW shells2, Served(clients, shells),
         \A c \in Clients : (clients2[c] = "uploading") = (clients[c] = "uploading"),
         \A c \in Clients : \A k \in Shell : ServesIn(shells2, k, c) <=> ServesIn(shells, k, c)
  PROVE  Served(clients2, shells2)
BY DEF Served

\* A client that begins an upload has one shell; one that ends it has none.
LEMMA ServedFrom ==
  ASSUME NEW clients, NEW shells, NEW clients2, NEW shells2, Served(clients, shells),
         NEW c \in Clients, NEW k \in Shell, clients[c] # "uploading", clients2[c] = "uploading",
         \A d \in Clients \ {c} : clients2[d] = clients[d],
         \A d \in Clients \ {c} : \A j \in Shell : ServesIn(shells2, j, d) <=> ServesIn(shells, j, d),
         \A j \in Shell \ {k} : ServesIn(shells2, j, c) <=> ServesIn(shells, j, c),
         ServesIn(shells2, k, c)
  PROVE  Served(clients2, shells2)
<1>1. \A j \in Shell : ServesIn(shells2, j, c) <=> j = k
  BY DEF Served
<1>2. ASSUME NEW d \in Clients \ {c}
      PROVE  IF clients2[d] = "uploading"
             THEN \E i \in Shell : \A j \in Shell : ServesIn(shells2, j, d) <=> j = i
             ELSE \A j \in Shell : ~ServesIn(shells2, j, d)
  BY <1>2 DEF Served
<1> QED
  BY <1>1, <1>2 DEF Served

LEMMA ServedUntil ==
  ASSUME NEW clients, NEW shells, NEW clients2, NEW shells2, Served(clients, shells),
         NEW c \in Clients, NEW k \in Shell, clients[c] = "uploading", clients2[c] # "uploading",
         \A d \in Clients \ {c} : clients2[d] = clients[d],
         \A d \in Clients \ {c} : \A j \in Shell : ServesIn(shells2, j, d) <=> ServesIn(shells, j, d),
         \A j \in Shell \ {k} : ServesIn(shells2, j, c) <=> ServesIn(shells, j, c),
         ServesIn(shells, k, c), ~ServesIn(shells2, k, c)
  PROVE  Served(clients2, shells2)
<1>1. \A j \in Shell : ~ServesIn(shells2, j, c)
  BY DEF Served
<1>2. ASSUME NEW d \in Clients \ {c}
      PROVE  IF clients2[d] = "uploading"
             THEN \E i \in Shell : \A j \in Shell : ServesIn(shells2, j, d) <=> j = i
             ELSE \A j \in Shell : ~ServesIn(shells2, j, d)
  BY <1>2 DEF Served
<1> QED
  BY <1>1, <1>2 DEF Served

\* What cat writes is a file, and never takes one for nothing.
LEMMA WrittenIsAFile ==
  ASSUME NEW file, IsFile(file), NEW n \in 1..Size, NEW block \in Nat \ {0}
  PROVE  IsFile(WrittenAt(file, n, block)) /\ WrittenAt(file, n, block) # Nothing
<1> DEFINE old == file.content
           len == IF n > Len(old) THEN n ELSE Len(old)
           new == [i \in 1..len |->
                     IF i = n THEN block ELSE IF i <= Len(old) THEN old[i] ELSE Hole]
<1>1. old \in Seq(Nat) /\ Len(old) \in Nat /\ Len(old) <= Size /\ n \in Nat /\ n >= 1 /\ n <= Size
  BY ShipBounds DEF IsFile
<1>2. len \in Nat /\ len <= Size /\ n \in 1..len
  BY <1>1
<1>3. new \in Seq(Nat) /\ Len(new) = len /\ new[n] = block
  <2>1. \A i \in 1..len : new[i] \in Nat
    BY <1>1 DEF Hole
  <2> HIDE DEF len
  <2> QED
    BY <1>2, <2>1
<1>4. WrittenAt(file, n, block) = [file EXCEPT !.content = new]
  BY DEF WrittenAt
<1> HIDE DEF new, old, len
<1>5. IsFile(WrittenAt(file, n, block)) /\ WrittenAt(file, n, block).content = new
  BY <1>2, <1>3, <1>4 DEF IsFile
<1>6. new # << 0 >>
  <2> SUFFICES ASSUME new = << 0 >>
               PROVE  FALSE
    OBVIOUS
  <2>1. Len(new) = 1 /\ new[1] = 0
    OBVIOUS
  <2>2. n = 1
    BY <1>2, <1>3, <2>1
  <2> QED
    BY <1>3, <2>1, <2>2
<1> QED
  BY <1>5, <1>6 DEF Nothing, File

\* A shell goes on for the same client, or, cut off, to its end.
LEMMA OneShellOn ==
  ASSUME ShellsOK, Owned(shell), Served(client, shell), NEW k \in Shell, NEW new \in ShellRecord,
         \/ new.at # "none" /\ shell[k].at # "none" /\ new.owner = shell[k].owner /\ new.cut = shell[k].cut
         \/ new = NoShell /\ shell[k].cut,
         shell' = [shell EXCEPT ![k] = new], client' = client
  PROVE  Owned(shell') /\ Served(client', shell')
<1>1. shell'[k] = new /\ \A j \in Shell \ {k} : shell'[j] = shell[j]
  BY DEF ShellsOK
<1>2. Owned(shell')
  BY <1>1 DEF Owned, NoShell
<1>3. \A c \in Clients : \A j \in Shell : ServesIn(shell', j, c) <=> ServesIn(shell, j, c)
  <2> TAKE c \in Clients
  <2> TAKE j \in Shell
  <2>1. CASE j # k
    BY <1>1, <2>1 DEF ServesIn
  <2>2. CASE j = k
    BY <1>1, <2>2, ClientsAssumption DEF ServesIn, NoShell
  <2> QED
    BY <2>1, <2>2
<1> QED
  BY <1>2, <1>3, ServedStays

LEMMA ClientKeepsTypes ==
  ASSUME TInv, ShellsOK', NEW c \in Clients, ClientStep(c) \/ UploadCut(c) \/ SessionEnds(c)
  PROVE  TInv'
<1>0. UNCHANGED <<host, incoming, installed>>
  BY DEF ClientStep, Connect, Open, Identify, Installed, UploadCut, SessionEnds
<1>1. ASSUME NEW to \in Status, Moves(c, to)
      PROVE  /\ client' \in [Clients -> Status] /\ client'[c] = to
             /\ \A d \in Clients \ {c} : client'[d] = client[d]
  BY <1>1 DEF TInv, Moves
\* Those that move the client and leave the shells alone.
<1>2. ASSUME NEW to \in Status \ {"uploading"}, Moves(c, to), client[c] # "uploading", UNCHANGED shell,
             AgentsOK', \A d \in Clients \ {c} : runs'[d] = runs[d],
             (to = "connected") = (runs'[c] # "none")
      PROVE  TInv'
  <2>1. /\ client' \in [Clients -> Status] /\ client'[c] = to
        /\ \A d \in Clients \ {c} : client'[d] = client[d]
    BY <1>1, <1>2
  <2>2. Sessions(client', runs')
    BY <1>2, <2>1 DEF TInv, Sessions
  <2>3. Served(client', shell')
    <3>1. \A d \in Clients : (client'[d] = "uploading") = (client[d] = "uploading")
      BY <1>2, <2>1
    <3> QED
      BY <1>2, <3>1, ServedStays DEF TInv
  <2> QED
    BY <1>0, <1>2, <2>1, <2>2, <2>3 DEF TInv
\* Those that move it to or from an upload.
<1>3. ASSUME NEW to \in Status, Moves(c, to), client[c] # "connected", to # "connected", UNCHANGED runs,
             Owned(shell'), Served(client', shell'), Handles(shell', incoming, installed)
      PROVE  TInv'
  <2>1. Sessions(client', runs')
    BY <1>1, <1>3 DEF TInv, Sessions
  <2> QED
    BY <1>0, <1>1, <1>3, <2>1 DEF TInv, AgentsOK
<1>4. ASSUME OpenFails(c)
      PROVE  \E to \in {"out", "failed"} : Moves(c, to)
  BY <1>4 DEF OpenFails
<1>5. CASE Connect(c)
  <2>1. (runs[c] # "none") = FALSE
    BY <1>5 DEF Connect, TInv, Sessions
  <2> QED
    BY <1>2, <1>5, <2>1 DEF Connect, Status, TInv, AgentsOK
<1>6. CASE Open(c)
  <2>1. runs[c] = "none" /\ client[c] # "uploading" /\ UNCHANGED shell
    BY <1>6 DEF Open, TInv, Sessions
  <2>2. CASE Moves(c, "connected") /\ runs' = [runs EXCEPT ![c] = "installed"]
    <3>1. AgentsOK' /\ runs'[c] # "none" /\ \A d \in Clients \ {c} : runs'[d] = runs[d]
      BY <2>2 DEF TInv, AgentsOK
    <3> QED
      BY <1>2, <2>1, <2>2, <3>1 DEF Status
  <2>3. CASE UNCHANGED runs /\ \E to \in {"identifying", "out", "failed"} : Moves(c, to)
    BY <1>2, <2>1, <2>3 DEF Status, TInv, AgentsOK
  <2> QED
    BY <1>4, <1>6, <2>2, <2>3 DEF Open
<1>7. CASE Identify(c)
  <2>1. runs[c] = "none" /\ client[c] = "identifying" /\ UNCHANGED runs
    BY <1>7 DEF Identify, TInv, Sessions
  <2>2. CASE OpenFails(c) /\ UNCHANGED shell
    BY <1>2, <1>4, <2>1, <2>2 DEF Status, TInv, AgentsOK
  <2>3. ASSUME NEW k \in Shell, shell[k].at = "none", Moves(c, "uploading"),
               shell' = [shell EXCEPT ![k] = [NoShell EXCEPT !.at = "redirect", !.owner = c]]
        PROVE  TInv'
    <3>1. /\ shell'[k].at = "redirect" /\ shell'[k].owner = c /\ ~shell'[k].cut
          /\ shell'[k].hand = "none"
          /\ \A j \in Shell \ {k} : shell'[j] = shell[j]
      BY <2>3 DEF TInv, ShellsOK, NoShell
    <3>2. Owned(shell') /\ Handles(shell', incoming, installed)
      BY <3>1, ClientsAssumption DEF TInv, Owned, Handles
    <3>3. /\ client'[c] = "uploading" /\ \A d \in Clients \ {c} : client'[d] = client[d]
      BY <1>1, <2>3 DEF Status
    <3>4. shell[k].owner = "nobody"
      BY <2>3 DEF TInv, Owned
    <3>5. \A d \in Clients \ {c} : \A j \in Shell : ServesIn(shell', j, d) <=> ServesIn(shell, j, d)
      <4> TAKE d \in Clients \ {c}
      <4> TAKE j \in Shell
      <4>1. CASE j = k
        BY <3>1, <3>4, <4>1, ClientsAssumption DEF ServesIn
      <4>2. CASE j # k
        BY <3>1, <4>2 DEF ServesIn
      <4> QED
        BY <4>1, <4>2
    <3>6. ServesIn(shell', k, c) /\ \A j \in Shell \ {k} : ServesIn(shell', j, c) <=> ServesIn(shell, j, c)
      BY <3>1 DEF ServesIn
    <3>7. Served(client, shell)
      BY DEF TInv
    <3>8. Served(client', shell')
      BY <2>1, <3>3, <3>5, <3>6, <3>7, ServedFrom
    <3> QED
      BY <1>3, <2>1, <2>3, <3>2, <3>8 DEF Status
  <2> QED
    BY <1>7, <2>2, <2>3 DEF Identify, Shell
\* Those that end one: the shell is gone, or has nobody to report to.
<1>8. ASSUME client[c] = "uploading", UNCHANGED runs, NEW to \in Status \ {"uploading", "connected"},
             Moves(c, to), NEW k \in Shell, Serves(k, c), NEW new \in ShellRecord, new.owner # c \/ new.cut,
             new.owner \in {shell[k].owner, "nobody"},
             (new.at = "none") = (new.owner = "nobody"), (new.at = "cat") = (new.hand # "none"),
             new.hand \in {shell[k].hand, "none"},
             shell' = [shell EXCEPT ![k] = new]
      PROVE  TInv'
  <2>1. shell'[k] = new /\ \A j \in Shell \ {k} : shell'[j] = shell[j]
    BY <1>8 DEF TInv, ShellsOK
  <2>2. Owned(shell') /\ Handles(shell', incoming, installed)
    BY <1>8, <2>1 DEF TInv, Owned, Handles
  <2>3. ServesIn(shell, k, c) /\ ~ServesIn(shell', k, c)
    BY <1>8, <2>1 DEF Serves, ServesIn
  <2>4. \A d \in Clients \ {c} : \A j \in Shell : ServesIn(shell', j, d) <=> ServesIn(shell, j, d)
    <3> TAKE d \in Clients \ {c}
    <3> TAKE j \in Shell
    <3>1. CASE j = k
      BY <1>8, <2>1, <3>1, ClientsAssumption DEF Serves, ServesIn
    <3>2. CASE j # k
      BY <2>1, <3>2 DEF ServesIn
    <3> QED
      BY <3>1, <3>2
  <2>5. \A j \in Shell \ {k} : ServesIn(shell', j, c) <=> ServesIn(shell, j, c)
    BY <2>1 DEF ServesIn
  <2>6. Served(client, shell)
    BY DEF TInv
  <2>7. client'[c] = to /\ \A d \in Clients \ {c} : client'[d] = client[d]
    BY <1>1, <1>8
  <2>8. client[c] = "uploading" /\ client'[c] # "uploading"
    BY <1>8, <2>7
  <2>9. Served(client', shell')
    BY <2>3, <2>4, <2>5, <2>6, <2>7, <2>8, ServedUntil
  <2> QED
    BY <1>3, <1>8, <2>2, <2>9
<1>9. CASE Installed(c)
  <2>1. PICK k \in Shell : Serves(k, c) /\ shell' = [shell EXCEPT ![k] = NoShell]
    BY <1>9, Zenon DEF Installed, Shell
  <2>2. \E to \in {"reopening", "out", "failed"} : Moves(c, to)
    BY <1>4, <1>9 DEF Installed
  <2>3. NoShell.owner = "nobody" /\ NoShell.at = "none" /\ NoShell.hand = "none"
    BY DEF NoShell
  <2>4. c # "nobody"
    BY ClientsAssumption
  <2>5. client[c] = "uploading" /\ UNCHANGED runs
    BY <1>9 DEF Installed
  <2> QED
    BY <1>8, <2>1, <2>2, <2>3, <2>4, <2>5, NoShellIsOne DEF Status
<1>10. CASE UploadCut(c)
  <2>1. PICK k \in Shell : Serves(k, c) /\ shell' = [shell EXCEPT ![k].cut = TRUE]
    BY <1>10, Zenon DEF UploadCut, Shell
  <2> DEFINE new == [shell[k] EXCEPT !.cut = TRUE]
  <2>2. /\ new \in ShellRecord /\ new.cut /\ new.owner = shell[k].owner /\ new.at = shell[k].at
        /\ new.hand = shell[k].hand
    BY DEF TInv, ShellsOK, ShellRecord
  <2>3. shell' = [shell EXCEPT ![k] = new]
    BY <2>1
  <2>4. /\ (shell[k].at = "none") = (shell[k].owner = "nobody")
        /\ (shell[k].at = "cat") = (shell[k].hand # "none")
    BY DEF TInv, Owned, Handles
  <2>5. client[c] = "uploading" /\ UNCHANGED runs /\ \E to \in {"out", "failed"} : Moves(c, to)
    BY <1>4, <1>10 DEF UploadCut
  <2> HIDE DEF new
  <2>6. /\ (new.at = "none") = (new.owner = "nobody") /\ (new.at = "cat") = (new.hand # "none")
        /\ new.owner \in {shell[k].owner, "nobody"} /\ new.hand \in {shell[k].hand, "none"}
    BY <2>2, <2>4
  <2>7. PICK to \in {"out", "failed"} : Moves(c, to)
    BY <2>5
  <2>8. to \in Status \ {"uploading", "connected"}
    BY DEF Status
  <2> QED
    BY <1>8, <2>1, <2>2, <2>3, <2>5, <2>6, <2>7, <2>8
<1>11. CASE SessionEnds(c)
  <2>1. client[c] # "uploading" /\ UNCHANGED shell /\ \E to \in {"out", "done"} : Moves(c, to)
    BY <1>11 DEF SessionEnds
  <2>2. AgentsOK' /\ runs'[c] = "none" /\ \A d \in Clients \ {c} : runs'[d] = runs[d]
    BY <1>11 DEF SessionEnds, TInv, AgentsOK
  <2> QED
    BY <1>2, <2>1, <2>2 DEF Status
<1> QED
  BY <1>5, <1>6, <1>7, <1>9, <1>10, <1>11 DEF ClientStep

LEMMA ShellKeepsTypes ==
  ASSUME TInv, ShellsOK', NEW k \in Shell, ShellStep(k) \/ CommandFails(k)
  PROVE  TInv'
<1>0. UNCHANGED <<host, client>>
  BY DEF ShellStep, Redirect, CatBlock, CatEnds, Chmod, Move, CommandFails
\* One shell goes on, and what is at the two places stays there.
<1>1. ASSUME UNCHANGED runs, NEW new \in ShellRecord,
             \/ /\ new.at # "none" /\ shell[k].at # "none"
                /\ new.owner = shell[k].owner /\ new.cut = shell[k].cut
                /\ (new.at = "cat") = (new.hand # "none")
                /\ new.hand = "incoming" => incoming' # Nothing
                /\ new.hand = "installed" => installed' # Nothing
             \/ new = NoShell /\ shell[k].cut,
             shell' = [shell EXCEPT ![k] = new],
             IsFile(incoming'), IsFile(installed'),
             incoming # Nothing => incoming' # Nothing, installed # Nothing => installed' # Nothing
      PROVE  TInv'
  <2>1. shell'[k] = new /\ \A j \in Shell \ {k} : shell'[j] = shell[j]
    BY <1>1 DEF TInv, ShellsOK
  <2>2. Owned(shell') /\ Served(client', shell')
    <3>1. ShellsOK /\ Owned(shell) /\ Served(client, shell)
      BY DEF TInv
    <3>2. \/ new.at # "none" /\ shell[k].at # "none" /\ new.owner = shell[k].owner /\ new.cut = shell[k].cut
          \/ new = NoShell /\ shell[k].cut
      BY <1>1
    <3> QED
      BY <1>0, <1>1, <3>1, <3>2, OneShellOn
  <2>3. (new.at = "cat") = (new.hand # "none")
    BY <1>1 DEF NoShell
  <2>4. (new.hand = "incoming" => incoming' # Nothing) /\ (new.hand = "installed" => installed' # Nothing)
    BY <1>1 DEF NoShell
  <2>5. Handles(shell', incoming', installed')
    <3> SUFFICES ASSUME NEW j \in Shell
                 PROVE  /\ (shell'[j].at = "cat") = (shell'[j].hand # "none")
                        /\ shell'[j].hand = "incoming" => incoming' # Nothing
                        /\ shell'[j].hand = "installed" => installed' # Nothing
      BY DEF Handles
    <3>1. CASE j = k
      BY <2>1, <2>3, <2>4, <3>1
    <3>2. CASE j # k
      BY <1>1, <2>1, <3>2 DEF TInv, Handles
    <3> QED
      BY <3>1, <3>2
  <2> QED
    BY <1>0, <1>1, <2>2, <2>5 DEF TInv, AgentsOK
<1>2. /\ IsFile(incoming) /\ IsFile(installed) /\ shell[k] \in ShellRecord
      /\ (shell[k].at = "none") = (shell[k].owner = "nobody")
      /\ (shell[k].at = "cat") = (shell[k].hand # "none")
      /\ shell[k].hand = "incoming" => incoming # Nothing
      /\ shell[k].hand = "installed" => installed # Nothing
  BY DEF TInv, ShellsOK, Owned, Handles
\* A shell that stops had nothing open.
<1>3. ASSUME NEW status \in {"succeeded", "failed"}, Stops(k, status), UNCHANGED <<runs, incoming, installed>>,
             shell[k].at \in {"chmod", "mv"}
      PROVE  TInv'
  <2> DEFINE going == [shell[k] EXCEPT !.at = status]
  <2>1. /\ going \in ShellRecord /\ going.at # "none" /\ going.at # "cat" /\ shell[k].at # "none"
        /\ going.owner = shell[k].owner /\ going.cut = shell[k].cut /\ going.hand = "none"
    BY <1>2, <1>3 DEF ShellRecord, Place, Name
  <2>2. shell' = [shell EXCEPT ![k] = IF shell[k].cut THEN NoShell ELSE going]
    BY <1>3 DEF Stops
  <2> HIDE DEF going
  <2>3. CASE shell[k].cut
    BY <1>1, <1>2, <1>3, <2>2, <2>3, NoShellIsOne
  <2>4. CASE ~shell[k].cut
    BY <1>1, <1>2, <1>3, <2>1, <2>2, <2>4
  <2> QED
    BY <2>3, <2>4
<1>4. CASE Redirect(k)
  <2> DEFINE new == [shell[k] EXCEPT !.at = "cat", !.hand = "incoming"]
  <2>1. /\ new \in ShellRecord /\ new.at = "cat" /\ new.hand = "incoming" /\ shell[k].at # "none"
        /\ new.owner = shell[k].owner /\ new.cut = shell[k].cut
    BY <1>2, <1>4 DEF Redirect, ShellRecord, Place, Name
  <2>2. shell' = [shell EXCEPT ![k] = new]
    BY <1>2, <1>4 DEF Redirect, TInv, ShellsOK
  <2>3. IsFile(incoming') /\ incoming' # Nothing
    <3> DEFINE none == <<>>
    <3>0. none \in Seq(Nat) /\ Len(none) <= Size /\ none # << 0 >>
      BY ShipBounds
    <3> HIDE DEF none
    <3>1. IsFile(File(none, FALSE)) /\ File(none, FALSE) # Nothing
      BY <3>0 DEF Nothing, File, IsFile
    <3> DEFINE cut == [incoming EXCEPT !.content = none]
    <3>2. IsFile(cut) /\ cut.content = none
      BY <1>2, <3>0 DEF IsFile
    <3>3. cut # Nothing
      BY <3>0, <3>2 DEF Nothing, File
    <3>4. incoming' = IF incoming = Nothing THEN File(none, FALSE) ELSE cut
      BY <1>4 DEF Redirect, Empty, none
    <3> HIDE DEF cut
    <3> QED
      BY <3>1, <3>2, <3>3, <3>4
  <2>4. UNCHANGED <<runs, installed>>
    BY <1>4 DEF Redirect
  <2> HIDE DEF new
  <2> QED
    BY <1>1, <1>2, <2>1, <2>2, <2>3, <2>4
<1>5. CASE CatBlock(k)
  <2> DEFINE n == shell[k].sent + 1
             block == Version[shell[k].owner]
             new == [shell[k] EXCEPT !.sent = n]
  <2>1. n \in 1..Size
    BY <1>2, <1>5, ShipBounds DEF CatBlock, ShellRecord
  <2>2. /\ new \in ShellRecord /\ new.at = "cat" /\ shell[k].at = "cat" /\ new.hand = shell[k].hand
        /\ new.owner = shell[k].owner /\ new.cut = shell[k].cut
    BY <1>2, <1>5, <2>1, ShipBounds DEF CatBlock, ShellRecord
  <2>3. block \in Nat \ {0}
    <3>1. shell[k].owner \in Clients
      BY <1>2, <2>2 DEF ShellRecord
    <3> QED
      BY <3>1, ClientsAssumption
  <2>4. /\ UNCHANGED runs /\ shell' = [shell EXCEPT ![k] = new]
        /\ incoming' = IF shell[k].hand = "incoming" THEN WrittenAt(incoming, n, block) ELSE incoming
        /\ installed' = IF shell[k].hand = "installed" THEN WrittenAt(installed, n, block) ELSE installed
    BY <1>2, <1>5 DEF CatBlock, TInv, ShellsOK
  <2> HIDE DEF n, block, new
  <2>5. IsFile(incoming') /\ (incoming # Nothing => incoming' # Nothing)
    BY <1>2, <2>1, <2>3, <2>4, WrittenIsAFile
  <2>6. IsFile(installed') /\ (installed # Nothing => installed' # Nothing)
    BY <1>2, <2>1, <2>3, <2>4, WrittenIsAFile
  <2> QED
    BY <1>1, <1>2, <2>2, <2>4, <2>5, <2>6
<1>6. CASE CatEnds(k)
  <2> DEFINE new == [shell[k] EXCEPT !.at = "chmod", !.hand = "none"]
  <2>1. /\ new \in ShellRecord /\ new.at = "chmod" /\ new.hand = "none" /\ shell[k].at # "none"
        /\ new.owner = shell[k].owner /\ new.cut = shell[k].cut
    BY <1>2, <1>6 DEF CatEnds, ShellRecord, Place, Name
  <2>2. shell' = [shell EXCEPT ![k] = new] /\ UNCHANGED <<runs, incoming, installed>>
    BY <1>2, <1>6 DEF CatEnds, TInv, ShellsOK
  <2> HIDE DEF new
  <2> QED
    BY <1>1, <1>2, <2>1, <2>2
<1>7. CASE Chmod(k)
  <2>1. CASE incoming = Nothing
    BY <1>3, <1>7, <2>1 DEF Chmod
  <2>2. CASE incoming # Nothing
    <3> DEFINE new == [shell[k] EXCEPT !.at = "mv"]
    <3>1. /\ new \in ShellRecord /\ new.at = "mv" /\ new.hand = "none" /\ shell[k].at # "none"
          /\ new.owner = shell[k].owner /\ new.cut = shell[k].cut
      BY <1>2, <1>7 DEF Chmod, ShellRecord, Place, Name
    <3>2. shell' = [shell EXCEPT ![k] = new] /\ UNCHANGED <<runs, installed>>
      BY <1>2, <1>7, <2>2 DEF Chmod, Goes, TInv, ShellsOK
    <3>3. IsFile(incoming') /\ incoming'.executable
      BY <1>2, <1>7, <2>2 DEF Chmod, IsFile
    <3>4. incoming' # Nothing
      BY <3>3 DEF Nothing, File
    <3> HIDE DEF new
    <3> QED
      BY <1>1, <1>2, <3>1, <3>2, <3>3, <3>4
  <2> QED
    BY <2>1, <2>2
\* Whoever had either file open has it still, and knows the first by the second's name.
<1>8. CASE Move(k)
  <2>1. CASE incoming = Nothing
    BY <1>3, <1>8, <2>1 DEF Move
  <2>2. CASE incoming # Nothing
    <3>1. /\ shell[k].at = "mv" /\ installed' = incoming /\ incoming' = Nothing
          /\ runs' = [c \in Clients |-> Renamed(runs[c])]
          /\ shell' = [j \in Shell |->
               IF j # k THEN [shell[j] EXCEPT !.hand = Renamed(@)]
               ELSE IF shell[k].cut THEN NoShell ELSE [shell[k] EXCEPT !.at = "succeeded"]]
      BY <1>8, <2>2 DEF Move, Shell
    <3>2. /\ Renamed("none") = "none" /\ Renamed("incoming") = "installed"
          /\ Renamed("installed") = "gone" /\ Renamed("gone") = "gone"
      BY DEF Renamed
    <3>3. AgentsOK' /\ Sessions(client', runs')
      BY <1>0, <3>1, <3>2 DEF TInv, AgentsOK, Sessions
    <3>4. \A j \in Shell \ {k} :
            /\ shell'[j].at = shell[j].at /\ shell'[j].owner = shell[j].owner /\ shell'[j].cut = shell[j].cut
            /\ shell'[j].hand = Renamed(shell[j].hand)
      BY <3>1 DEF TInv, ShellsOK, ShellRecord
    <3>5. \/ shell[k].cut /\ shell'[k] = NoShell
          \/ /\ ~shell[k].cut /\ shell'[k].at = "succeeded" /\ shell'[k].owner = shell[k].owner
             /\ ~shell'[k].cut /\ shell'[k].hand = "none"
      BY <1>2, <3>1 DEF ShellRecord
    <3>6. Owned(shell')
      BY <1>2, <3>1, <3>4, <3>5 DEF TInv, Owned, NoShell
    <3>7. Handles(shell', incoming', installed')
      <4> SUFFICES ASSUME NEW j \in Shell
                   PROVE  /\ (shell'[j].at = "cat") = (shell'[j].hand # "none")
                          /\ shell'[j].hand # "incoming"
        BY <2>2, <3>1 DEF Handles
      <4>1. CASE j = k
        BY <3>5, <4>1 DEF NoShell
      <4>2. CASE j # k
        BY <3>2, <3>4, <4>2 DEF TInv, Handles, ShellsOK, ShellRecord, Name
      <4> QED
        BY <4>1, <4>2
    <3>8. \A c \in Clients : \A j \in Shell : ServesIn(shell', j, c) <=> ServesIn(shell, j, c)
      <4> TAKE c \in Clients
      <4> TAKE j \in Shell
      <4>1. CASE j = k
        BY <3>5, <4>1, ClientsAssumption DEF ServesIn, NoShell
      <4>2. CASE j # k
        BY <3>4, <4>2 DEF ServesIn
      <4> QED
        BY <4>1, <4>2
    <3>9. Served(client', shell')
      BY <1>0, <3>8, ServedStays DEF TInv
    <3> QED
      BY <1>0, <1>2, <3>1, <3>3, <3>6, <3>7, <3>9, NothingIsAFile DEF TInv
  <2> QED
    BY <2>1, <2>2
<1>9. CASE CommandFails(k)
  <2> DEFINE going == [shell[k] EXCEPT !.at = "failed", !.hand = "none"]
  <2>1. /\ going \in ShellRecord /\ going.at = "failed" /\ going.hand = "none" /\ shell[k].at # "none"
        /\ going.owner = shell[k].owner /\ going.cut = shell[k].cut
    BY <1>2, <1>9 DEF CommandFails, ShellRecord, Place, Name
  <2>2. /\ shell' = [shell EXCEPT ![k] = IF shell[k].cut THEN NoShell ELSE going]
        /\ UNCHANGED <<runs, incoming, installed>>
    BY <1>9 DEF CommandFails
  <2> HIDE DEF going
  <2>3. CASE shell[k].cut
    BY <1>1, <1>2, <2>2, <2>3, NoShellIsOne
  <2>4. CASE ~shell[k].cut
    BY <1>1, <1>2, <2>1, <2>2, <2>4
  <2> QED
    BY <2>3, <2>4
<1> QED
  BY <1>4, <1>5, <1>6, <1>7, <1>8, <1>9 DEF ShellStep

LEMMA TypesInductive == TInv /\ [Next]_vars => TInv'
<1> SUFFICES ASSUME TInv, [Next]_vars
             PROVE  TInv'
  OBVIOUS
<1>1. ShellsOK'
  BY ShellsInductive DEF TInv
<1>2. CASE UNCHANGED vars
  BY <1>1, <1>2 DEF TInv, AgentsOK, vars
<1>3. CASE Next
  BY <1>1, <1>3, ClientKeepsTypes, ShellKeepsTypes DEF Next, Shell
<1> QED
  BY <1>2, <1>3

LEMMA TypesImplied == TInv => TypeOK
<1> SUFFICES ASSUME TInv
             PROVE  TypeOK
  OBVIOUS
<1>1. \A k \in Shell :
        /\ shell[k].at \in Place /\ shell[k].sent \in 0..Size
        /\ (shell[k].at = "cat") = (shell[k].hand # "none")
        /\ shell[k].hand = "incoming" => incoming # Nothing
        /\ shell[k].hand = "installed" => installed # Nothing
  BY DEF TInv, ShellsOK, ShellRecord, Handles
<1>2. \A file \in {incoming, installed} :
        file.content \in Seq(Nat) /\ Len(file.content) <= Size + 1 /\ file.executable \in BOOLEAN
  BY ShipBounds DEF TInv, IsFile
<1>3. \A c \in Clients :
        Cardinality({k \in 1..Shells : Serves(k, c)}) = IF client[c] = "uploading" THEN 1 ELSE 0
  <2> TAKE c \in Clients
  <2>1. CASE client[c] = "uploading"
    <3>1. PICK k \in Shell : \A j \in Shell : ServesIn(shell, j, c) <=> j = k
      BY <2>1 DEF TInv, Served
    <3>2. {j \in 1..Shells : Serves(j, c)} = {k}
      BY <3>1 DEF Serves, ServesIn, Shell
    <3>3. Cardinality({k}) = 1
      BY FS_Singleton
    <3> QED
      BY <2>1, <3>2, <3>3
  <2>2. CASE client[c] # "uploading"
    <3>1. {j \in 1..Shells : Serves(j, c)} = {}
      BY <2>2 DEF TInv, Served, Serves, ServesIn, Shell
    <3> QED
      BY <2>2, <3>1, FS_EmptySet
  <2> QED
    BY <2>1, <2>2
<1>4. host \in Hosts /\ client \in [Clients -> Status] /\ AgentsOK /\ Sessions(client, runs)
  BY DEF TInv
<1> QED
  BY <1>1, <1>2, <1>3, <1>4 DEF TypeOK, Place, Status, AgentsOK, Sessions, Shell

\* The host, the clients, the shells and the files keep their types: a file is never
\* longer than a binary, only a cat has one open and what it has open is there, and an
\* upload that is waited for has exactly one shell.
THEOREM ShipTypes == Spec => []TypeOK
BY TypesInitially, TypesInductive, TypesImplied, PTL DEF Spec
=============================================================================
