------------------------------ MODULE Transfer ------------------------------
(***************************************************************************)
(* One file on its way to a remote target.  A pass compares it with the    *)
(* target's index and, if it differs, the client (SshSink) streams it, as  *)
(* it is or as a delta against what the target has, to the agent, which    *)
(* builds it in a temporary beside the destination and renames that over   *)
(* the destination.  The source is written while it is read; the link      *)
(* drops between any two frames, after which the client opens another      *)
(* session and goes on from what it can verify of the temporary.  The      *)
(* agent of the lost session reads on what had reached it, also in the     *)
(* next one's time.                                                        *)
(*                                                                         *)
(* A file is a sequence of blocks and a modification time, and a hash is   *)
(* the sequence it is of.  What an agent does on one frame is one step.    *)
(*                                                                         *)
(* Not variables of the program: "reads", what the client has read from    *)
(* beginning to end; "steady", the source has kept still since the action  *)
(* began; "lapsed", the client has walked away from a stream it left       *)
(* unended; "stuck", what is at the temporary's path is there because it   *)
(* could not be removed; "crossed", two agents have had one temporary;     *)
(* "belated", the agent of a lost session has published in a later one's   *)
(* time since the action began.                                            *)
(***************************************************************************)
EXTENDS Integers, SequencesExt

CONSTANTS
  Contents,    \* what a file may hold
  MaxWrites,   \* bound: writes, replacements and removals of the source
  MaxFaults,   \* bound: calls that fail, and sessions begun while the agent of another lingers
  MaxDrops,    \* bound: sessions lost
  Overlapping  \* bound: the sessions that may be begun so

ASSUME ContentsAssumption == \A c \in Contents : c \in Seq(Nat \ {0})
ASSUME TransferBounds == MaxWrites \in Nat /\ MaxFaults \in Nat /\ MaxDrops \in Nat

VARIABLES
  source,      \* the file at the source's path, or Nothing
  held,        \* the file the client has open
  linked,      \* which is still the one at the path
  client,      \* where the client stands
  method,      \* "file" or "patch"
  signature,   \* the blocks the agent described
  seen,        \* what has been read of the source: the matcher's hash
  resumeFrom,
  outcome,     \* of the last action
  session,     \* the client's connection, counted from 1
  up,          \* it has not been lost
  agents,      \* for each session, the agent at its far end
  replies,     \* on their way to the client
  dest, temp,  \* the files at the destination and at the temporary's path, or Nothing
  reads, steady, lapsed, stuck, crossed, belated,
  writes, faults

sourceVars == <<source, held, linked, writes>>
clientVars == <<client, method, signature, seen, resumeFrom, outcome>>
linkVars == <<session, up>>
targetVars == <<dest, temp>>
meetings == <<crossed, belated>>
ghosts == <<reads, steady, lapsed, stuck, meetings>>
vars == <<sourceVars, clientVars, linkVars, agents, replies, targetVars, ghosts, faults>>

File(data, time) == [data |-> data, time |-> time]
Nothing == File(<<>>, -2)
Unstamped == -1                       \* the clock's time, which no source has
InPlace == File(<<>>, -3)             \* in "existing": what is at the destination
Sessions == 1..(MaxDrops + 1)

\* Frames.  A request for the index or the signature, a transfer or its state; a
\* piece of content; the end of a stream; a reply.
Request(kind, from) == [kind |-> kind, from |-> from]
Literal(block) == [kind |-> "literal", block |-> block]
Copy(at) == [kind |-> "copy", at |-> at]
Commit(time, hash) == [kind |-> "commit", time |-> time, hash |-> hash]
Abort == [kind |-> "abort"]
Ok == [kind |-> "ok"]
Error == [kind |-> "error"]
Described(kind, file) == [kind |-> kind, file |-> file]

\* hand: which file the handle of the temporary is of by now; existing: the
\* destination as it was opened, if it was; hash: what has been absorbed, whose
\* length is also where the handle writes; refused: failure is set.
Agent == [at |-> "requests", inbox |-> <<>>, cut |-> FALSE, hand |-> "none",
          hash |-> <<>>, refused |-> FALSE, existing |-> Nothing]
Starting(requests) == [Agent EXCEPT !.inbox = requests]

Fault == faults < MaxFaults /\ faults' = faults + 1

-----------------------------------------------------------------------------
(* The source, and whoever writes it *)

Written ==
  /\ writes < MaxWrites /\ writes' = writes + 1
  /\ steady' = FALSE
  /\ UNCHANGED <<clientVars, linkVars, agents, replies, targetVars, reads, lapsed, stuck, meetings,
                 faults>>

\* In place: what is open sees it.
Rewrite(data) ==
  /\ source # Nothing
  /\ source' = File(data, writes + 1)
  /\ held' = IF linked THEN source' ELSE held
  /\ UNCHANGED linked
  /\ Written

\* Renamed over it, or created anew: what is open does not.
Replace(data) ==
  /\ source' = File(data, writes + 1)
  /\ linked' = FALSE
  /\ UNCHANGED held
  /\ Written

Unlink ==
  /\ source # Nothing
  /\ source' = Nothing
  /\ linked' = FALSE
  /\ UNCHANGED held
  /\ Written

-----------------------------------------------------------------------------
(* The client *)

\* On a lost session a write goes nowhere; that is found out no later than at
\* the reply.
Send(frame) ==
  agents' = IF up THEN [agents EXCEPT ![session].inbox = Append(@, frame)] ELSE agents

Answered == up /\ replies # <<>> /\ replies' = Tail(replies)

Returned(result) ==
  /\ client' = "idle" /\ outcome' = result
  /\ method' = "file" /\ signature' = <<>> /\ seen' = <<>> /\ resumeFrom' = 0
  /\ held' = Nothing /\ linked' = FALSE

\* A pass asks for the index of the target.
Look ==
  /\ client = "idle"
  /\ Send(Request("index", 0))
  /\ client' = "indexing" /\ outcome' = "none" /\ steady' = TRUE /\ belated' = FALSE
  /\ UNCHANGED <<sourceVars, method, signature, seen, resumeFrom, linkVars, replies, targetVars,
                 reads, lapsed, stuck, crossed, faults>>

\* The quick check, on size and time.
Differs(file) ==
  file = Nothing \/ file.time # source.time \/ Len(file.data) # Len(source.data)

\* Different, it is copied: whole if deltas are off or the file is small.
GotIndex ==
  /\ client = "indexing" /\ Answered
  /\ \/ /\ Head(replies) \in {Ok, Error}
        /\ Returned("failed") /\ UNCHANGED agents
     \/ /\ Head(replies) \notin {Ok, Error}
        /\ source = Nothing \/ ~Differs(Head(replies).file)
        /\ Returned("none") /\ UNCHANGED agents
     \/ /\ Head(replies) \notin {Ok, Error}
        /\ source # Nothing /\ Differs(Head(replies).file)
        /\ \/ client' = "signing" /\ Send(Request("signature", 0))
           \/ client' = "opening" /\ UNCHANGED agents
        /\ UNCHANGED <<held, linked, method, signature, seen, resumeFrom, outcome>>
  /\ UNCHANGED <<source, writes, linkVars, targetVars, ghosts, faults>>

\* An empty signature leaves nothing to build on.
GotSignature ==
  /\ client = "signing" /\ Answered
  /\ \/ /\ Head(replies) = Error
        /\ Returned("failed")
     \/ /\ Head(replies) # Error
        /\ client' = "opening"
        /\ signature' = Head(replies).file.data
        /\ method' = IF signature' = <<>> THEN "file" ELSE "patch"
        /\ UNCHANGED <<held, linked, seen, resumeFrom, outcome>>
  /\ UNCHANGED <<source, writes, linkVars, agents, targetVars, ghosts, faults>>

\* send_file and send_patch begin alike: a source that cannot be opened is the
\* action's failure, and nothing is sent.
Open ==
  /\ client = "opening"
  /\ \/ /\ source = Nothing
        /\ Returned("failed") /\ UNCHANGED agents
     \/ /\ source # Nothing
        /\ held' = source /\ linked' = TRUE
        /\ client' = "sending" /\ seen' = <<>>
        /\ Send(Request(method, resumeFrom))
        /\ UNCHANGED <<method, signature, resumeFrom, outcome>>
  /\ UNCHANGED <<source, writes, linkVars, replies, targetVars, ghosts, faults>>

\* The matcher reuses a block that is equal.
Tokens(block) ==
  LET same == {i \in DOMAIN signature : signature[i] = block}
  IN IF method = "file" \/ same = {} THEN {Literal(block)} ELSE {Copy(i) : i \in same}

AtEnd == Len(seen) >= Len(held.data)

\* What lies behind the resume point is read, for the hash, and not sent.
SendBlock ==
  /\ client = "sending" /\ up /\ ~AtEnd
  /\ LET block == held.data[Len(seen) + 1]
     IN /\ seen' = Append(seen, block)
        /\ IF Len(seen) < resumeFrom
           THEN UNCHANGED agents
           ELSE \E token \in Tokens(block) : Send(token)
  /\ UNCHANGED <<sourceVars, client, method, signature, resumeFrom, outcome, linkVars, replies,
                 targetVars, ghosts, faults>>

\* The time is taken after the content: by send_file from the open file, by
\* send_patch from whatever is at the path.
Stamped == IF method = "file" THEN held ELSE source

SendCommit ==
  /\ client = "sending" /\ up /\ AtEnd /\ Stamped # Nothing
  /\ Send(Commit(Stamped.time, seen))
  /\ reads' = reads \cup {seen}
  /\ client' = "waiting"
  /\ UNCHANGED <<sourceVars, method, signature, seen, resumeFrom, outcome, linkVars, replies,
                 targetVars, steady, lapsed, stuck, meetings, faults>>

NoTime == (Stamped = Nothing /\ UNCHANGED faults) \/ Fault

\* Variant: the time could not be taken, and a reply is waited for.
NoStampWaits ==
  /\ client = "sending" /\ up /\ AtEnd /\ NoTime
  /\ client' = "waiting"
  /\ UNCHANGED <<sourceVars, method, signature, seen, resumeFrom, outcome, linkVars, agents, replies,
                 targetVars, ghosts>>

\* The time cannot be taken, for one if there is nothing at the path: send_file and
\* send_patch return with the stream left as it is.
NoStamp ==
  /\ client = "sending" /\ up /\ AtEnd /\ NoTime
  /\ Returned("failed")
  /\ reads' = reads \cup {seen}
  /\ lapsed' = TRUE
  /\ UNCHANGED <<source, writes, linkVars, agents, replies, targetVars, steady, stuck, meetings>>

\* The source cannot be read on.
SendAbort ==
  /\ client = "sending" /\ up /\ Fault
  /\ Send(Abort)
  /\ client' = "waiting"
  /\ UNCHANGED <<sourceVars, method, signature, seen, resumeFrom, outcome, linkVars, replies,
                 targetVars, ghosts>>

GotReply ==
  /\ client = "waiting" /\ Answered
  /\ Returned(IF Head(replies) = Ok THEN "ok" ELSE "failed")
  /\ UNCHANGED <<source, writes, linkVars, agents, targetVars, ghosts, faults>>

\* resumable_from: what the target has is continued if the source begins with it.
Verified(partial) == IF IsPrefix(partial.data, source.data) THEN Len(partial.data) ELSE 0

\* Anything unexpected, a session lost again too, means to start over.
GotResumeState ==
  /\ client = "resuming"
  /\ client' = "opening"
  /\ \/ Answered /\ resumeFrom' = IF Head(replies) = Error THEN 0 ELSE Verified(Head(replies).file)
     \/ ~up /\ resumeFrom' = 0 /\ UNCHANGED replies
  /\ UNCHANGED <<sourceVars, method, signature, seen, outcome, linkVars, agents, targetVars, ghosts, faults>>

-----------------------------------------------------------------------------
(* The link *)

\* The agent reads on what had arrived; replies are lost.
Drop ==
  /\ up /\ session <= MaxDrops
  /\ up' = FALSE
  /\ \E arrived \in 0..Len(agents[session].inbox) :
       agents' = [agents EXCEPT ![session].inbox = SubSeq(@, 1, arrived), ![session].cut = TRUE]
  /\ replies' = <<>>
  /\ lapsed' = FALSE
  /\ UNCHANGED <<sourceVars, clientVars, session, targetVars, reads, steady, stuck, meetings, faults>>

\* The new session is opened before the old one is dropped.
Reopened(requests) ==
  /\ ~up /\ up' = TRUE /\ session' = session + 1
  /\ IF \A s \in Sessions : agents[s].at = "over"
     THEN UNCHANGED faults
     ELSE session' \in Overlapping /\ Fault
  /\ agents' = [agents EXCEPT ![session'] = Starting(requests)]
  /\ UNCHANGED <<source, writes, signature, outcome, replies, targetVars, ghosts>>

\* request: what was in flight is issued again.
ReissueRequest ==
  /\ client \in {"indexing", "signing"}
  /\ Reopened(<<Request(IF client = "indexing" THEN "index" ELSE "signature", 0)>>)
  /\ UNCHANGED <<held, linked, client, method, seen, resumeFrom>>

Restarted(step) ==
  /\ client' = step /\ seen' = <<>> /\ held' = Nothing /\ linked' = FALSE
  /\ UNCHANGED <<method, resumeFrom>>

\* write_file begins again.
RestartFile ==
  /\ client \in {"sending", "waiting"} /\ method = "file"
  /\ Reopened(<<>>)
  /\ Restarted("opening")

\* patch_file asks first what is left of its attempt.
RestartPatch ==
  /\ client \in {"sending", "waiting"} /\ method = "patch"
  /\ Reopened(<<Request("resume", 0)>>)
  /\ Restarted("resuming")

\* restore's attempts are spent, or it is told to shut down.
GiveUp ==
  /\ ~up /\ client \in {"indexing", "signing", "sending", "waiting"}
  /\ Returned("failed")
  /\ UNCHANGED <<source, writes, linkVars, agents, replies, targetVars, ghosts, faults>>

-----------------------------------------------------------------------------
(* The agent of session s *)

Reply(s, frame) == replies' = IF s = session /\ up THEN Append(replies, frame) ELSE replies

\* The agent's next state; "others", what has become of every agent's handles.
Becomes(s, agent, others) ==
  agents' = [others EXCEPT ![s] = [agent EXCEPT !.inbox = Tail(@)]]

\* Handles follow the file when the temporary is unlinked, and when it is renamed.
TemporaryUnlinked ==
  [s \in Sessions |-> [agents[s] EXCEPT !.hand = IF @ = "temp" THEN "unlinked" ELSE @]]
TemporaryRenamed ==
  [s \in Sessions |->
     [agents[s] EXCEPT !.hand = CASE @ = "temp" -> "dest" [] @ = "dest" -> "unlinked" [] OTHER -> @,
                       !.existing = IF @ = InPlace THEN dest ELSE @]]

Receives(s, kinds) == agents[s].inbox # <<>> /\ Head(agents[s].inbox).kind \in kinds
Transferring(s) == agents[s].at \in {"chunks", "tokens"}
Existing(s) == IF agents[s].existing = InPlace THEN dest ELSE agents[s].existing

\* What is not there is described as empty.
IndexOfTarget == Described("index", dest)
SignatureOfTarget == Described("signature", dest)
ResumeState == Described("resume", temp)

\* Described, and nothing changed.
Answer(s) ==
  /\ agents[s].at = "requests"
  /\ \/ Receives(s, {"index"}) /\ Reply(s, IndexOfTarget) /\ UNCHANGED faults
     \/ Receives(s, {"signature"}) /\ Reply(s, SignatureOfTarget) /\ UNCHANGED faults
     \/ Receives(s, {"resume"}) /\ Reply(s, ResumeState) /\ UNCHANGED faults
     \/ Receives(s, {"index", "signature", "resume"}) /\ Reply(s, Error) /\ Fault
  /\ Becomes(s, agents[s], agents)
  /\ UNCHANGED <<sourceVars, clientVars, linkVars, targetVars, ghosts>>

\* Variant: the handle and the hash outlive the transfer.
StillOpen(s) == [agents[s] EXCEPT !.at = "requests"]
Idle(s) == [Agent EXCEPT !.inbox = agents[s].inbox, !.cut = agents[s].cut]

\* Variant: the temporary is opened as it is found.
LeftOver == IF temp = Nothing THEN File(<<>>, Unstamped) ELSE temp
\* create_temporary: what is there is unlinked.
Fresh == File(<<>>, Unstamped)

\* Variant: a refusal is answered before the stream has been read.
RefuseAtOnce(s, begun) == Becomes(s, Idle(s), agents) /\ Reply(s, Error)
\* A transfer that cannot begin is read to its end before it is answered.
Refuse(s, begun) == Becomes(s, [begun EXCEPT !.refused = TRUE], agents) /\ UNCHANGED replies

Begun(s, at) ==
  [Agent EXCEPT !.inbox = agents[s].inbox, !.cut = agents[s].cut, !.at = at,
                !.existing = IF at = "tokens" /\ dest # Nothing THEN InPlace ELSE Nothing]

BeginFresh(s, begun) ==
  /\ temp' = Fresh /\ stuck' = FALSE
  /\ Becomes(s, [begun EXCEPT !.hand = "temp"], TemporaryUnlinked)
  /\ UNCHANGED <<replies, crossed, faults>>

\* resume: the temporary is cut where the client has verified it, and read back
\* into the hash.
BeginResumed(s, begun, from) ==
  LET verified == SubSeq(temp.data, 1, from)
  IN /\ temp' = File(verified, Unstamped) /\ stuck' = FALSE
     /\ Becomes(s, [begun EXCEPT !.hand = "temp", !.hash = verified], agents)
     /\ crossed' = (crossed \/ \E t \in Sessions : agents[t].hand = "temp")
     /\ UNCHANGED <<replies, faults>>

\* receive_file
BeginFile(s) ==
  /\ agents[s].at = "requests" /\ Receives(s, {"file"})
  /\ \/ BeginFresh(s, Begun(s, "chunks"))
     \/ Fault /\ Refuse(s, Begun(s, "chunks")) /\ UNCHANGED <<temp, stuck, crossed>>
  /\ UNCHANGED <<sourceVars, clientVars, linkVars, dest, reads, steady, lapsed, belated>>

\* receive_patch
BeginPatch(s) ==
  /\ agents[s].at = "requests" /\ Receives(s, {"patch"})
  /\ LET from == Head(agents[s].inbox).from
         begun == Begun(s, "tokens")
     IN \/ from = 0 /\ BeginFresh(s, begun)
        \/ from \in 1..Len(temp.data) /\ BeginResumed(s, begun, from)
        \/ from > Len(temp.data) /\ Refuse(s, begun) /\ UNCHANGED <<temp, stuck, crossed, faults>>
        \/ Fault /\ Refuse(s, begun) /\ UNCHANGED <<temp, stuck, crossed>>
  /\ UNCHANGED <<sourceVars, clientVars, linkVars, dest, reads, steady, lapsed, belated>>

\* A write through a handle that stands at "at"; a hole is zero.
WrittenAt(data, at, block) ==
  [i \in 1..(IF at >= Len(data) THEN at + 1 ELSE Len(data)) |->
     IF i = at + 1 THEN block ELSE IF i <= Len(data) THEN data[i] ELSE 0]

WriteThrough(s, block) ==
  LET written(file) == File(WrittenAt(file.data, Len(agents[s].hash), block), Unstamped)
  IN /\ temp' = IF agents[s].hand = "temp" THEN written(temp) ELSE temp
     /\ dest' = IF agents[s].hand = "dest" THEN written(dest) ELSE dest

\* What ends a transfer.  Variants are encoded by their position: an index request
\* decodes as a commit where a chunk is expected, of a time at the epoch, and where a
\* token is, as a literal, of what its path begins with.
Ending(s) == {"commit", "abort"} \cup IF agents[s].at = "chunks" THEN {"index"} ELSE {}
CommitTime(frame) == IF frame.kind = "index" THEN Unstamped ELSE frame.time

\* The block a frame stands for, if it is there to be had.
Content(s) ==
  LET frame == Head(agents[s].inbox)
      there == Existing(s).data
  IN CASE frame.kind = "literal" -> <<frame.block>>
       [] frame.kind = "copy" /\ frame.at \in DOMAIN there -> <<there[frame.at]>>
       [] frame.kind = "index" -> <<0>>
       [] OTHER -> <<>>

\* A piece of content; after a failure it is only taken off the stream.
TakeContent(s) ==
  /\ Transferring(s) /\ Receives(s, {"literal", "copy", "index"} \ Ending(s))
  /\ LET agent == agents[s]
         block == Content(s)
         fails == [agent EXCEPT !.refused = TRUE, !.hand = "none"]
     IN \/ /\ agent.refused
           /\ Becomes(s, agent, agents) /\ UNCHANGED <<targetVars, faults>>
        \/ /\ ~agent.refused /\ block = <<>>
           /\ Becomes(s, fails, agents) /\ UNCHANGED <<targetVars, faults>>
        \/ /\ ~agent.refused /\ Fault
           /\ Becomes(s, fails, agents) /\ UNCHANGED targetVars
        \/ /\ ~agent.refused /\ block # <<>>
           /\ WriteThrough(s, block[1])
           /\ Becomes(s, [agent EXCEPT !.hash = Append(@, block[1])], agents)
           /\ UNCHANGED faults
  /\ UNCHANGED <<sourceVars, clientVars, linkVars, replies, ghosts>>

\* Variant: what was rebuilt is published whatever it hashes to.
Committed(s) == ~agents[s].refused /\ temp # Nothing
\* Only a patch carries a hash.  What is stamped and renamed is what is at the
\* temporary's path by now.
Publishable(s) ==
  /\ ~agents[s].refused /\ temp # Nothing
  /\ agents[s].at = "tokens" => agents[s].hash = Head(agents[s].inbox).hash

\* Variant: the temporary is renamed as it is.
UnstampedTemporary(time) == temp
Stamp(time) == File(temp.data, time)

Publish(s) ==
  /\ Transferring(s) /\ Receives(s, Ending(s) \ {"abort"}) /\ Publishable(s)
  /\ dest' = Stamp(CommitTime(Head(agents[s].inbox))) /\ temp' = Nothing
  /\ Becomes(s, Idle(s), TemporaryRenamed)
  /\ Reply(s, Ok)
  /\ lapsed' = (lapsed /\ s # session) /\ stuck' = FALSE
  /\ crossed' = (crossed \/ agents[s].hand # "temp")
  /\ belated' = (belated \/ s # session)
  /\ UNCHANGED <<sourceVars, clientVars, linkVars, reads, steady, faults>>

\* Variant: a transfer that fails leaves its temporary.
Kept == temp
Discarded == Nothing

\* remove_file, whose failure is ignored.
CanRemove == temp' = Discarded /\ stuck' = FALSE
CannotRemove == temp # Nothing /\ Fault /\ UNCHANGED temp /\ stuck' = TRUE

\* A commit that cannot be honoured, or an abort.
Discard(s) ==
  /\ Transferring(s) /\ Receives(s, Ending(s))
  /\ LET honoured == Head(agents[s].inbox).kind # "abort" /\ Publishable(s)
     IN \/ /\ IF honoured THEN Fault ELSE UNCHANGED faults
           /\ CanRemove /\ Becomes(s, Idle(s), TemporaryUnlinked)
        \/ CannotRemove /\ Becomes(s, Idle(s), agents)
  /\ Reply(s, Error)
  /\ lapsed' = (lapsed /\ s # session)
  /\ UNCHANGED <<sourceVars, clientVars, linkVars, dest, reads, steady, meetings>>

Ended(s, others) == agents' = [others EXCEPT ![s] = [Agent EXCEPT !.at = "over", !.cut = TRUE]]

\* The stream has ended in the middle of a file: its temporary goes.
FileCut(s) ==
  /\ agents[s].at = "chunks" /\ agents[s].cut /\ agents[s].inbox = <<>>
  /\ \/ CanRemove /\ Ended(s, TemporaryUnlinked) /\ UNCHANGED faults
     \/ CannotRemove /\ Ended(s, agents)
  /\ UNCHANGED <<sourceVars, clientVars, linkVars, replies, dest, reads, steady, lapsed, meetings>>

\* In the middle of a patch it is kept, to be resumed.
PatchCut(s) ==
  /\ agents[s].at = "tokens" /\ agents[s].cut /\ agents[s].inbox = <<>>
  /\ Ended(s, agents)
  /\ UNCHANGED <<sourceVars, clientVars, linkVars, replies, targetVars, ghosts, faults>>

SessionEnds(s) ==
  /\ agents[s].at = "requests" /\ agents[s].cut /\ agents[s].inbox = <<>>
  /\ Ended(s, agents)
  /\ UNCHANGED <<sourceVars, clientVars, linkVars, replies, targetVars, ghosts, faults>>

\* The agent of a lost session is killed, by kill_on_drop or with its host.
Killed(s) ==
  /\ agents[s].cut /\ agents[s].at # "over"
  /\ Ended(s, agents)
  /\ UNCHANGED <<sourceVars, clientVars, linkVars, replies, targetVars, ghosts, faults>>

-----------------------------------------------------------------------------
Init ==
  /\ source \in {File(data, 0) : data \in Contents}
  /\ dest \in {Nothing} \cup {File(data, Unstamped) : data \in Contents}
  /\ held = Nothing /\ linked = FALSE /\ temp = Nothing
  /\ client = "idle" /\ method = "file" /\ signature = <<>> /\ seen = <<>>
  /\ resumeFrom = 0 /\ outcome = "none"
  /\ session = 1 /\ up = TRUE /\ replies = <<>>
  /\ agents = [s \in Sessions |-> IF s = 1 THEN Agent ELSE [Agent EXCEPT !.at = "over"]]
  /\ reads = {dest.data} /\ steady = FALSE /\ lapsed = FALSE
  /\ stuck = FALSE /\ crossed = FALSE /\ belated = FALSE
  /\ writes = 0 /\ faults = 0

Environment == Unlink \/ \E data \in Contents : Rewrite(data) \/ Replace(data)

Client ==
  \/ GotIndex \/ GotSignature \/ GotReply \/ GotResumeState
  \/ Open \/ SendBlock \/ SendCommit \/ NoStamp \/ SendAbort
  \/ ReissueRequest \/ RestartFile \/ RestartPatch \/ GiveUp

AgentStep(s) ==
  \/ Answer(s) \/ BeginFile(s) \/ BeginPatch(s) \/ TakeContent(s) \/ Publish(s) \/ Discard(s)
  \/ FileCut(s) \/ PatchCut(s) \/ SessionEnds(s)

Next == Environment \/ Look \/ Client \/ Drop \/ \E s \in Sessions : AgentStep(s) \/ Killed(s)

Spec == Init /\ [][Next]_vars

\* The two ends do not both stop while either has something to do.
FairSpec == Spec /\ WF_vars(Client \/ \E s \in Sessions : AgentStep(s))

-----------------------------------------------------------------------------
(* Properties *)

Data == Seq(Nat)
IsFile(file) == file \in [data : Data, time : Int]

\* Every variable keeps its type, no more frames are under way to the client than
\* the one it waits for, and what is open at an agent that is not mid-transfer is nothing.
TypeOK ==
  /\ \A file \in {source, held, dest, temp} : IsFile(file)
  /\ linked \in BOOLEAN /\ up \in BOOLEAN
  /\ client \in {"idle", "indexing", "signing", "opening", "sending", "waiting", "resuming"}
  /\ method \in {"file", "patch"} /\ (signature # <<>>) = (method = "patch")
  /\ seen \in Data /\ signature \in Data /\ resumeFrom \in Nat
  /\ outcome \in {"none", "ok", "failed"}
  /\ session \in Sessions /\ Len(replies) <= 1
  /\ \A s \in Sessions :
       /\ agents[s].at \in {"requests", "chunks", "tokens", "over"}
       /\ agents[s].hand \in {"none", "temp", "dest", "unlinked"}
       /\ agents[s].hand # "none" => Transferring(s)
       /\ IsFile(agents[s].existing) /\ agents[s].hash \in Data
  /\ writes \in 0..MaxWrites /\ faults \in 0..MaxFaults

\* At the destination is what was there, until at one stroke it is something the client
\* has read from beginning to end: a reader never sees part of a file, nothing where
\* something was, a delta applied to other blocks than it was made against, or a
\* temporary resumed over another prefix.  Also while the agent of a lost session is
\* still at work, up to where it and another have one temporary: the one resumes what the
\* other has open, or publishes what the other has put in the place of its own.
Shown == INSTANCE AtomicReplace WITH
           Absent <- <<>>,
           offered <- reads,
           removable <- FALSE,
           shown <- dest.data

ReplacesAtomically == Shown!Init /\ [][crossed' \/ Shown!Next]_(Shown!vars)

\* As documented, a reader sees the old file or the new one, whoever else is at work.
OldOrWhole == dest.data \in reads

\* Success is reported only once the target has the source's content and time, if
\* the source has kept still meanwhile, whatever was lost or resumed on the way; unless
\* the agent of a lost session has published since, or has met another's temporary.
Acknowledged ==
  client = "idle" /\ outcome = "ok" /\ steady /\ ~crossed /\ ~belated => dest = source

\* What an agent has hashed and will be held to is what its temporary holds, or the
\* temporary has been unlinked by another, until two agents have one.
HashVouches ==
  ~crossed => \A s \in Sessions : Transferring(s) /\ ~agents[s].refused =>
    \/ agents[s].hand = "unlinked"
    \/ agents[s].hand = "temp" /\ temp.data = agents[s].hash

\* The two ends agree on whose turn it is: between actions the agent waits for a
\* request and nothing is under way, also after a refusal, a failure or an abort.
\* Only not where the client has walked away from a transfer it could not stamp.
TurnsKept ==
  client = "idle" /\ up /\ ~lapsed =>
    agents[session].at = "requests" /\ agents[session].inbox = <<>> /\ replies = <<>>

\* As documented, it never walks away.
TurnsAlwaysKept ==
  client = "idle" /\ up => agents[session].at = "requests"

\* A transfer that fails takes its temporary with it, unless that cannot be removed or
\* a lost link left it to be resumed.
NothingLeftBehind ==
  client = "idle" /\ up /\ session = 1 /\ ~lapsed /\ ~stuck => temp = Nothing

\* As documented, a source that is written while it is copied does not look settled
\* afterwards: what the next pass takes for equal is equal.
LooksSettled ==
  client = "idle" /\ outcome = "ok" /\ source # Nothing /\ ~Differs(dest) => dest.data = source.data

\* Every action comes to an end, whatever is refused, fails or is lost, unless its
\* session is one that the client has walked away from mid-stream.  Links are lost
\* finitely often.
ActionsEnd == []<>(client = "idle" \/ lapsed)
=============================================================================
