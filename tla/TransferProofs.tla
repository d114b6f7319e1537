---------------------------- MODULE TransferProofs ----------------------------
(***************************************************************************)
(* What one copy to a remote target may rely on, for any contents, any     *)
(* number of writes, faults and lost sessions, and whichever sessions      *)
(* begin while the agents of others linger.  What is at the destination    *)
(* is vouched for until two agents have had one temporary.                 *)
(***************************************************************************)
EXTENDS Transfer, SequenceTheorems, TLAPS

Files == [data : Data, time : Int]
RequestKinds == {"index", "signature", "file", "patch", "resume"}
Frames ==
  [kind : RequestKinds, from : Nat] \cup [kind : {"literal"}, block : Nat]
    \cup [kind : {"copy"}, at : Nat] \cup [kind : {"commit"}, time : Int, hash : Data]
    \cup {Abort}
Replies == {Ok, Error} \cup [kind : {"index", "signature", "resume"}, file : Files]
Places == {"requests", "chunks", "tokens", "over"}
Hands == {"none", "temp", "dest", "unlinked"}
AgentRecords ==
  [at : Places, inbox : Seq(Frames), cut : BOOLEAN, hand : Hands, hash : Data,
   refused : BOOLEAN, existing : Files]
Steps == {"idle", "indexing", "signing", "opening", "sending", "waiting", "resuming"}

AgentsTyped == agents \in [Sessions -> AgentRecords]
FilesTyped == source \in Files /\ held \in Files /\ dest \in Files /\ temp \in Files

Typed ==
  /\ FilesTyped /\ AgentsTyped
  /\ linked \in BOOLEAN /\ up \in BOOLEAN
  /\ client \in Steps /\ method \in {"file", "patch"}
  /\ signature \in Data /\ (signature # <<>>) = (method = "patch")
  /\ seen \in Data /\ resumeFrom \in Nat /\ outcome \in {"none", "ok", "failed"}
  /\ session \in Sessions /\ replies \in Seq(Replies)
  /\ reads \in SUBSET Data /\ steady \in BOOLEAN /\ lapsed \in BOOLEAN
  /\ stuck \in BOOLEAN /\ crossed \in BOOLEAN /\ belated \in BOOLEAN
  /\ writes \in 0..MaxWrites /\ faults \in 0..MaxFaults

Ends == {"commit", "abort"}
Finals == Ends \cup {"index"}
Contentful == {"literal", "copy", "index"}
Inbox(s) == agents[s].inbox

\* Frames come in the order the client sends them: only the first may open anything, only
\* the last may end it or ask for the index, and a commit is of what has been read whole.
OrderedAt(s) ==
  /\ agents[s].hand # "none" => Transferring(s)
  /\ agents[s].at = "requests" => agents[s].hash = <<>>
  /\ agents[s].at = "over" => Inbox(s) = <<>>
  /\ \A i \in DOMAIN Inbox(s) :
       /\ Inbox(s)[i].kind \in Finals => i = Len(Inbox(s))
       /\ Inbox(s)[i].kind \in RequestKinds \ {"index"} => i = 1 /\ agents[s].at = "requests"
       /\ Inbox(s)[i].kind = "commit" => Inbox(s)[i].hash \in reads
Ordered == \A s \in Sessions : OrderedAt(s)

Connected ==
  /\ agents[session].cut = ~up
  /\ up => agents[session].at # "over"
  /\ ~up => session <= MaxDrops /\ ~lapsed /\ replies = <<>>
  /\ \A s \in Sessions : s > session => agents[s].at = "over"
  /\ method = "file" => resumeFrom = 0
  /\ source # Nothing => source.time >= 0
  /\ client = "sending" => held.time >= 0
  /\ client = "resuming" => method = "patch"
  /\ client \in {"idle", "indexing", "signing"} => method = "file"

\* Whose turn it is.
AtRest(s) == agents[s].at = "requests" /\ Inbox(s) = <<>>
InStream(s) ==
  \/ Transferring(s)
  \/ agents[s].at = "requests" /\ Inbox(s) # <<>> /\ Inbox(s)[1].kind \in {"file", "patch"}
EndSent(s) == \E i \in DOMAIN Inbox(s) : Inbox(s)[i].kind \in Ends
Unclosed(s) == \A i \in DOMAIN Inbox(s) : Inbox(s)[i].kind \notin Finals

Wanted ==
  CASE client = "indexing" -> "index" [] client = "signing" -> "signature" [] OTHER -> "resume"
Asking == client \in {"indexing", "signing", "resuming"}

Resting == client \in {"idle", "opening"} /\ AtRest(session) /\ replies = <<>>
Asked ==
  /\ Asking /\ agents[session].at = "requests" /\ replies = <<>>
  /\ Inbox(session) = <<Request(Wanted, 0)>>
Told ==
  /\ Asking /\ AtRest(session)
  /\ Len(replies) = 1
  /\ replies[1].kind \in {"error", Wanted} \/ (client = "indexing" /\ replies[1] = Ok)
Streaming == client = "sending" /\ replies = <<>> /\ InStream(session) /\ Unclosed(session)
Streamed == client = "waiting" /\ replies = <<>> /\ InStream(session) /\ EndSent(session)
Concluded ==
  /\ client = "waiting" /\ AtRest(session)
  /\ Len(replies) = 1 /\ replies[1] \in {Ok, Error}
WalkedAway ==
  /\ client \in {"idle", "indexing"} /\ outcome # "ok" /\ replies = <<>>
  /\ InStream(session) /\ ~EndSent(session)
  /\ client = "idle" => Unclosed(session)

Turns ==
  up => IF lapsed THEN WalkedAway
        ELSE Resting \/ Asked \/ Told \/ Streaming \/ Streamed \/ Concluded

\* A whole file comes as it was read: what an agent has hashed of it and what is under way
\* make up what the commit names or, before that, what the client has seen; and where the
\* client has walked away from it, what it had read whole.
Ahead(agent) == IF agent.at = "requests" THEN 1 ELSE 0
Taking(agent) ==
  \/ agent.at = "chunks" /\ ~agent.refused
  \/ agent.at = "requests" /\ agent.inbox # <<>> /\ agent.inbox[1].kind = "file"
Follows(agent, data, upto) ==
  /\ Len(data) = Len(agent.hash) + upto - Ahead(agent)
  /\ \A j \in 1..Len(agent.hash) : agent.hash[j] = data[j]
  /\ \A j \in 1..upto :
       j > Ahead(agent) => agent.inbox[j] = Literal(data[Len(agent.hash) + j - Ahead(agent)])
WholeAt(agent) ==
  Taking(agent) =>
    \A i \in DOMAIN agent.inbox :
      /\ agent.inbox[i].kind = "commit" => Follows(agent, agent.inbox[i].hash, i - 1)
      /\ agent.inbox[i].kind = "index" => \E data \in reads : Follows(agent, data, i - 1)
SentAsSeen ==
  client = "sending" /\ up /\ Taking(agents[session]) =>
    method = "file" /\ Follows(agents[session], seen, Len(Inbox(session)))
LeftWhole ==
  client = "idle" /\ lapsed /\ Taking(agents[session]) =>
    \E data \in reads : Follows(agents[session], data, Len(Inbox(session)))
Whole == SentAsSeen /\ LeftWhole /\ \A s \in Sessions : WholeAt(agents[s])

TempGone == session = 1 /\ agents[1].at = "requests" => temp = Nothing \/ stuck

IInv == Typed /\ Ordered /\ Connected /\ Turns /\ Whole /\ TempGone

-----------------------------------------------------------------------------
(* The operators *)

LEMMA FrameShapes ==
  /\ \A f \in Frames :
       /\ f.kind \in RequestKinds \cup {"literal", "copy", "commit", "abort"}
       /\ f.kind \in RequestKinds => f.from \in Nat
       /\ f.kind = "literal" => f.block \in Nat
       /\ f.kind = "copy" => f.at \in Nat
       /\ f.kind = "commit" => f.time \in Int /\ f.hash \in Data
  /\ \A kind \in RequestKinds, from \in Nat : Request(kind, from) \in Frames
  /\ \A n \in Nat : Literal(n) \in Frames /\ Copy(n) \in Frames
  /\ \A time \in Int, hash \in Data : Commit(time, hash) \in Frames
  /\ Abort \in Frames
BY DEF Frames, RequestKinds, Request, Literal, Copy, Commit, Abort

LEMMA FileShapes ==
  /\ \A data \in Data, time \in Int : File(data, time) \in Files
  /\ Nothing \in Files /\ InPlace \in Files /\ <<>> \in Data
  /\ \A f \in Files : f.data \in Data /\ f.time \in Int
BY DEF Files, Data, File, Nothing, InPlace

\* A write where the file ends appends to it; any write leaves blocks.
LEMMA WrittenAtTyped ==
  ASSUME NEW data \in Data, NEW at \in Nat, NEW block \in Nat
  PROVE  WrittenAt(data, at, block) \in Data
<1> DEFINE n == IF at >= Len(data) THEN at + 1 ELSE Len(data)
<1>1. n \in Nat /\ \A i \in 1..Len(data) : data[i] \in Nat
  BY DEF Data
<1>2. WrittenAt(data, at, block) \in [1..n -> Nat]
  BY <1>1 DEF WrittenAt
<1> HIDE DEF n
<1> QED
  BY <1>1, <1>2, SeqDef DEF Data

LEMMA WrittenAtEnd ==
  ASSUME NEW data \in Data, NEW block \in Nat
  PROVE  WrittenAt(data, Len(data), block) = Append(data, block)
<1> DEFINE written == WrittenAt(data, Len(data), block)
           appended == Append(data, block)
<1>1. Len(data) \in Nat
  BY DEF Data
<1>2. written \in Seq(Nat)
  BY <1>1, WrittenAtTyped DEF Data
<1>3. Len(written) = Len(data) + 1
  BY <1>1 DEF WrittenAt
<1>4. \A i \in 1..(Len(data) + 1) : written[i] = IF i = Len(data) + 1 THEN block ELSE data[i]
  BY <1>1 DEF WrittenAt
<1>5. /\ appended \in Seq(Nat) /\ Len(appended) = Len(data) + 1
      /\ \A i \in 1..Len(appended) : appended[i] = IF i = Len(data) + 1 THEN block ELSE data[i]
  BY DEF Data
<1> HIDE DEF written, appended
<1> QED
  <2>1. written = appended
    BY <1>1, <1>2, <1>3, <1>4, <1>5, SeqEqual
  <2> QED
    BY <2>1 DEF written, appended

-----------------------------------------------------------------------------
(* What a step of an agent does to the conversation *)

\* What the conversation is about is, for another agent, as it was.
Unheard(t) ==
  /\ agents'[t].at = agents[t].at /\ agents'[t].inbox = agents[t].inbox
  /\ agents'[t].cut = agents[t].cut /\ agents'[t].hash = agents[t].hash
  /\ agents'[t].refused = agents[t].refused
  /\ agents[t].hand = "none" => agents'[t].hand = "none"

Quiet == UNCHANGED <<sourceVars, clientVars, linkVars, reads, steady>>

Reads(s) ==
  /\ Inbox(s) # <<>> /\ Inbox(s)[1] \in Frames
  /\ agents'[s].inbox = Tail(Inbox(s)) /\ agents'[s].cut = agents[s].cut

Describes(s) ==
  /\ Reads(s) /\ Inbox(s)[1].kind \in {"index", "signature", "resume"}
  /\ agents[s].at = "requests" /\ agents'[s].at = "requests" /\ UNCHANGED lapsed
  /\ agents'[s].hash = agents[s].hash /\ agents'[s].hand = agents[s].hand
  /\ \E reply \in Replies : Reply(s, reply) /\ reply.kind \in {"error", Inbox(s)[1].kind}

Starts(s) ==
  /\ Reads(s) /\ agents[s].at = "requests" /\ UNCHANGED <<replies, lapsed>>
  /\ \/ Inbox(s)[1].kind = "file" /\ agents'[s].at = "chunks" /\ agents'[s].hash = <<>>
     \/ Inbox(s)[1].kind = "patch" /\ agents'[s].at = "tokens"

Absorbs(s) ==
  /\ Reads(s) /\ Inbox(s)[1].kind \in Contentful
  /\ Transferring(s) /\ agents'[s].at = agents[s].at /\ UNCHANGED <<replies, lapsed>>
  /\ \/ agents'[s].refused
     \/ /\ ~agents[s].refused
        /\ \E block \in Nat :
             /\ agents'[s].hash = Append(agents[s].hash, block)
             /\ Inbox(s)[1].kind = "literal" => block = Inbox(s)[1].block

Concludes(s) ==
  /\ Reads(s) /\ Inbox(s)[1].kind \in Finals /\ lapsed' = (lapsed /\ s # session)
  /\ Transferring(s) /\ agents'[s].at = "requests"
  /\ agents'[s].hash = <<>> /\ agents'[s].hand = "none"
  /\ \E reply \in {Ok, Error} : Reply(s, reply)

Stops(s) ==
  /\ agents[s].cut /\ agents'[s].cut /\ agents'[s].at = "over" /\ agents'[s].inbox = <<>>
  /\ agents'[s].hand = "none" /\ UNCHANGED <<replies, lapsed>>

Moves(s) ==
  /\ AgentsTyped' /\ Quiet
  /\ \A t \in Sessions \ {s} : Unheard(t)
  /\ Describes(s) \/ Starts(s) \/ Absorbs(s) \/ Concludes(s) \/ Stops(s)

LEMMA AgentShapes ==
  /\ Agent \in AgentRecords
  /\ \A s \in Sessions, at \in {"chunks", "tokens"} :
       AgentsTyped => Idle(s) \in AgentRecords /\ Begun(s, at) \in AgentRecords
<1>1. Agent \in AgentRecords
  BY FileShapes DEF Agent, AgentRecords, Places, Hands
<1>2. ASSUME NEW s \in Sessions, NEW at \in {"chunks", "tokens"}, AgentsTyped
      PROVE  Idle(s) \in AgentRecords /\ Begun(s, at) \in AgentRecords
  <2>1. agents[s].inbox \in Seq(Frames) /\ agents[s].cut \in BOOLEAN
    BY <1>2 DEF AgentsTyped, AgentRecords
  <2> QED
    BY <1>1, <2>1, FileShapes DEF Idle, Begun, AgentRecords, Places
<1> QED
  BY <1>1, <1>2

LEMMA Received ==
  ASSUME AgentsTyped, NEW s \in Sessions, Inbox(s) # <<>>
  PROVE  /\ Head(Inbox(s)) = Inbox(s)[1] /\ Inbox(s)[1] \in Frames
         /\ Tail(Inbox(s)) \in Seq(Frames) /\ Len(Tail(Inbox(s))) = Len(Inbox(s)) - 1
         /\ Len(Inbox(s)) \in Nat \ {0}
         /\ \A i \in 1..Len(Tail(Inbox(s))) : Tail(Inbox(s))[i] = Inbox(s)[i + 1]
<1>1. Inbox(s) \in Seq(Frames)
  BY DEF AgentsTyped, AgentRecords, Inbox
<1> QED
  BY <1>1, HeadTailProperties, EmptySeq

\* Unlinking and renaming the temporary move handles, and nothing else.
HandsOnly(others) ==
  /\ others \in [Sessions -> AgentRecords]
  /\ \A t \in Sessions :
       /\ others[t].at = agents[t].at /\ others[t].inbox = agents[t].inbox
       /\ others[t].cut = agents[t].cut /\ others[t].hash = agents[t].hash
       /\ others[t].refused = agents[t].refused
       /\ agents[t].hand = "none" => others[t].hand = "none"

LEMMA HandlesMove ==
  ASSUME AgentsTyped, FilesTyped
  PROVE  HandsOnly(agents) /\ HandsOnly(TemporaryUnlinked) /\ HandsOnly(TemporaryRenamed)
<1>1. HandsOnly(agents)
  BY DEF HandsOnly, AgentsTyped
<1>2. HandsOnly(TemporaryUnlinked)
  BY DEF HandsOnly, TemporaryUnlinked, AgentsTyped, AgentRecords, Hands
<1>3. HandsOnly(TemporaryRenamed)
  BY DEF HandsOnly, TemporaryRenamed, AgentsTyped, AgentRecords, Hands, FilesTyped
<1> QED
  BY <1>1, <1>2, <1>3

LEMMA Becoming ==
  ASSUME AgentsTyped, NEW s \in Sessions, NEW others, HandsOnly(others),
         NEW agent \in AgentRecords, agent.inbox = Inbox(s), agent.cut = agents[s].cut,
         Inbox(s) # <<>>, Becomes(s, agent, others)
  PROVE  /\ AgentsTyped' /\ Reads(s)
         /\ \A t \in Sessions \ {s} : Unheard(t) /\ agents'[t] = others[t]
         /\ agents'[s].at = agent.at /\ agents'[s].hash = agent.hash
         /\ agents'[s].refused = agent.refused /\ agents'[s].hand = agent.hand
         /\ agents'[s].existing = agent.existing
<1> DEFINE new == [agent EXCEPT !.inbox = Tail(@)]
<1>1. Tail(agent.inbox) \in Seq(Frames) /\ Inbox(s)[1] \in Frames
  BY Received
<1>2. new \in AgentRecords
  BY <1>1 DEF AgentRecords
<1>3. /\ new.inbox = Tail(Inbox(s)) /\ new.cut = agents[s].cut
      /\ new.at = agent.at /\ new.hash = agent.hash /\ new.refused = agent.refused
      /\ new.hand = agent.hand /\ new.existing = agent.existing
  BY DEF AgentRecords
<1>4. agents' = [others EXCEPT ![s] = new]
  BY DEF Becomes
<1> HIDE DEF new
<1>5. AgentsTyped' /\ agents'[s] = new /\ \A t \in Sessions \ {s} : agents'[t] = others[t]
  BY <1>2, <1>4 DEF HandsOnly, AgentsTyped
<1>6. \A t \in Sessions \ {s} : Unheard(t)
  BY <1>5 DEF Unheard, HandsOnly
<1>7. Reads(s)
  BY <1>1, <1>3, <1>5 DEF Reads
<1> QED
  BY <1>3, <1>5, <1>6, <1>7

LEMMA EndingMoves ==
  ASSUME AgentsTyped, NEW s \in Sessions, NEW others, HandsOnly(others), agents[s].cut,
         Ended(s, others), UNCHANGED <<replies, lapsed>>, Quiet
  PROVE  Moves(s) /\ Stops(s)
<1> DEFINE new == [Agent EXCEPT !.at = "over", !.cut = TRUE]
<1>1. /\ new \in AgentRecords /\ new.at = "over" /\ new.cut /\ new.inbox = <<>>
      /\ new.hand = "none"
  BY AgentShapes DEF Agent, AgentRecords, Places
<1>2. agents' = [others EXCEPT ![s] = new]
  BY DEF Ended
<1> HIDE DEF new
<1>3. AgentsTyped' /\ agents'[s] = new /\ \A t \in Sessions \ {s} : agents'[t] = others[t]
  BY <1>1, <1>2 DEF HandsOnly, AgentsTyped
<1> QED
  BY <1>1, <1>3 DEF Moves, Stops, Unheard, HandsOnly

\* What else a step of an agent may change keeps its type.
Bounded ==
  /\ FilesTyped' /\ replies' \in Seq(Replies) /\ faults' \in 0..MaxFaults
  /\ stuck' \in BOOLEAN /\ crossed' \in BOOLEAN /\ belated' \in BOOLEAN

LEMMA Replying ==
  ASSUME Typed, NEW s \in Sessions, NEW reply \in Replies, Reply(s, reply)
  PROVE  replies' \in Seq(Replies)
BY DEF Typed, Reply

LEMMA Faulting ==
  ASSUME Typed, Fault
  PROVE  faults' \in 0..MaxFaults
BY TransferBounds DEF Typed, Fault

LEMMA AnswerMoves ==
  ASSUME Typed, NEW s \in Sessions, Answer(s)
  PROVE  Moves(s) /\ Bounded
<1>1. AgentsTyped /\ FilesTyped /\ agents[s] \in AgentRecords
  BY DEF Typed, AgentsTyped
<1>2. Inbox(s) # <<>> /\ Head(Inbox(s)).kind \in {"index", "signature", "resume"}
  BY DEF Answer, Receives, Inbox
<1>3. /\ Quiet /\ UNCHANGED <<targetVars, lapsed, stuck, meetings>>
      /\ Becomes(s, agents[s], agents) /\ agents[s].at = "requests"
  BY DEF Answer, Quiet, ghosts
<1>4. PICK reply \in Replies : Reply(s, reply) /\ reply.kind \in {"error", Head(Inbox(s)).kind}
  BY <1>1 DEF Answer, Receives, Inbox, Replies, Error, Described, IndexOfTarget, SignatureOfTarget,
              ResumeState, FilesTyped
<1>5. Inbox(s)[1] = Head(Inbox(s))
  BY <1>1, <1>2, Received
<1>6. /\ AgentsTyped' /\ Reads(s) /\ \A t \in Sessions \ {s} : Unheard(t)
      /\ agents'[s].at = agents[s].at /\ agents'[s].hash = agents[s].hash
      /\ agents'[s].hand = agents[s].hand
  BY <1>1, <1>2, <1>3, HandlesMove, Becoming DEF Inbox
<1>7. Describes(s)
  BY <1>2, <1>3, <1>4, <1>5, <1>6 DEF Describes
<1>8. Bounded
  <2>1. faults' \in 0..MaxFaults
    BY Faulting DEF Answer, Typed
  <2>2. stuck' \in BOOLEAN /\ crossed' \in BOOLEAN /\ belated' \in BOOLEAN
    BY <1>3 DEF Typed, meetings
  <2> QED
    BY <1>1, <1>3, <1>4, <2>1, <2>2, Replying DEF Bounded, FilesTyped, targetVars, Quiet, sourceVars
<1> QED
  BY <1>3, <1>6, <1>7, <1>8 DEF Moves

\* A transfer begins: the handle of what it opened, or a refusal.
LEMMA Beginning ==
  ASSUME Typed, NEW s \in Sessions, NEW at \in {"chunks", "tokens"}, NEW others, HandsOnly(others),
         agents[s].at = "requests", Inbox(s) # <<>>,
         Head(Inbox(s)).kind = IF at = "chunks" THEN "file" ELSE "patch",
         NEW begun \in AgentRecords, begun.inbox = Inbox(s), begun.cut = agents[s].cut, begun.at = at,
         at = "chunks" => begun.hash = <<>>,
         Becomes(s, begun, others), UNCHANGED <<replies, lapsed>>, Quiet
  PROVE  Moves(s)
<1>1. AgentsTyped
  BY DEF Typed
<1>2. Inbox(s)[1] = Head(Inbox(s))
  BY <1>1, Received
<1>3. /\ AgentsTyped' /\ Reads(s) /\ \A t \in Sessions \ {s} : Unheard(t)
      /\ agents'[s].at = begun.at /\ agents'[s].hash = begun.hash
  BY <1>1, Becoming
<1> QED
  BY <1>2, <1>3 DEF Moves, Starts

LEMMA FreshBegins ==
  ASSUME Typed, NEW s \in Sessions, NEW at \in {"chunks", "tokens"},
         agents[s].at = "requests", Inbox(s) # <<>>,
         Head(Inbox(s)).kind = IF at = "chunks" THEN "file" ELSE "patch",
         BeginFresh(s, Begun(s, at)) \/ (Refuse(s, Begun(s, at)) /\ UNCHANGED temp),
         Quiet, UNCHANGED <<dest, lapsed>>
  PROVE  Moves(s) /\ FilesTyped' /\ replies' = replies
<1> DEFINE begun == Begun(s, at)
           opened == [begun EXCEPT !.hand = "temp"]
           refused == [begun EXCEPT !.refused = TRUE]
<1>1. AgentsTyped /\ FilesTyped /\ HandsOnly(agents) /\ HandsOnly(TemporaryUnlinked)
  BY HandlesMove DEF Typed
<1>2. begun \in AgentRecords
  BY <1>1, AgentShapes
<1>3. /\ begun.inbox = Inbox(s) /\ begun.cut = agents[s].cut /\ begun.at = at /\ begun.hash = <<>>
  BY DEF Begun, Agent, Inbox
<1>4. FilesTyped'
  BY <1>1, FileShapes DEF FilesTyped, BeginFresh, Fresh, Unstamped, Quiet, sourceVars
<1>5. CASE BeginFresh(s, begun)
  <2>1. /\ opened \in AgentRecords /\ opened.inbox = Inbox(s) /\ opened.cut = agents[s].cut
        /\ opened.at = at /\ opened.hash = <<>>
    BY <1>2, <1>3 DEF AgentRecords, Hands
  <2>2. Becomes(s, opened, TemporaryUnlinked) /\ UNCHANGED replies
    BY <1>5 DEF BeginFresh
  <2> HIDE DEF begun, opened
  <2> QED
    BY <1>1, <1>4, <2>1, <2>2, Beginning
<1>6. CASE Refuse(s, begun)
  <2>1. /\ refused \in AgentRecords /\ refused.inbox = Inbox(s) /\ refused.cut = agents[s].cut
        /\ refused.at = at /\ refused.hash = <<>>
    BY <1>2, <1>3 DEF AgentRecords
  <2>2. Becomes(s, refused, agents) /\ UNCHANGED replies
    BY <1>6 DEF Refuse
  <2> HIDE DEF begun, refused
  <2> QED
    BY <1>1, <1>4, <2>1, <2>2, Beginning
<1> QED
  BY <1>5, <1>6

LEMMA ResumedBegins ==
  ASSUME Typed, NEW s \in Sessions, NEW from \in 1..Len(temp.data),
         agents[s].at = "requests", Inbox(s) # <<>>, Head(Inbox(s)).kind = "patch",
         BeginResumed(s, Begun(s, "tokens"), from), Quiet, UNCHANGED <<dest, lapsed>>
  PROVE  Moves(s) /\ FilesTyped' /\ replies' = replies
<1> DEFINE begun == Begun(s, "tokens")
           verified == SubSeq(temp.data, 1, from)
           opened == [begun EXCEPT !.hand = "temp", !.hash = verified]
<1>1. AgentsTyped /\ FilesTyped /\ HandsOnly(agents)
  BY HandlesMove DEF Typed
<1>2. begun \in AgentRecords
  BY <1>1, AgentShapes
<1>3. begun.inbox = Inbox(s) /\ begun.cut = agents[s].cut /\ begun.at = "tokens"
  BY DEF Begun, Agent, Inbox
<1>4. verified \in Data
  <2>1. temp.data \in Seq(Nat)
    BY <1>1, FileShapes DEF FilesTyped, Data
  <2> QED
    BY <2>1 DEF Data
<1>5. FilesTyped'
  BY <1>1, <1>4, FileShapes DEF FilesTyped, BeginResumed, Unstamped, Quiet, sourceVars
<1>6. /\ opened \in AgentRecords /\ opened.inbox = Inbox(s) /\ opened.cut = agents[s].cut
      /\ opened.at = "tokens"
  BY <1>2, <1>3, <1>4 DEF AgentRecords, Hands
<1>7. Becomes(s, opened, agents) /\ UNCHANGED replies
  BY DEF BeginResumed
<1> HIDE DEF begun, opened, verified
<1> QED
  BY <1>1, <1>5, <1>6, <1>7, Beginning

LEMMA BeginMoves ==
  ASSUME Typed, NEW s \in Sessions, BeginFile(s) \/ BeginPatch(s)
  PROVE  Moves(s) /\ Bounded
<1>1. agents[s].at = "requests" /\ Inbox(s) # <<>> /\ Quiet /\ UNCHANGED <<dest, lapsed>>
  BY DEF BeginFile, BeginPatch, Receives, Inbox, Quiet
<1>2. /\ faults' \in 0..MaxFaults /\ replies \in Seq(Replies)
      /\ stuck' \in BOOLEAN /\ crossed' \in BOOLEAN /\ belated' \in BOOLEAN
  BY Faulting DEF BeginFile, BeginPatch, BeginFresh, BeginResumed, Typed
<1>3. CASE BeginFile(s)
  BY <1>1, <1>2, <1>3, FreshBegins DEF BeginFile, Receives, Inbox, Bounded
<1>4. CASE BeginPatch(s)
  <2>1. Head(Inbox(s)).kind = "patch"
    BY <1>4 DEF BeginPatch, Receives, Inbox
  <2>2. CASE \/ BeginFresh(s, Begun(s, "tokens"))
             \/ Refuse(s, Begun(s, "tokens")) /\ UNCHANGED temp
    BY <1>1, <1>2, <2>1, <2>2, FreshBegins DEF Bounded
  <2>3. CASE \E from \in 1..Len(temp.data) : BeginResumed(s, Begun(s, "tokens"), from)
    BY <1>1, <1>2, <2>1, <2>3, ResumedBegins DEF Bounded
  <2> QED
    BY <1>4, <2>2, <2>3 DEF BeginPatch
<1> QED
  BY <1>3, <1>4

\* The block a frame stands for, where there is one.
LEMMA ContentTyped ==
  ASSUME Typed, NEW s \in Sessions, Inbox(s) # <<>>, Content(s) # <<>>
  PROVE  /\ Content(s)[1] \in Nat
         /\ Inbox(s)[1].kind = "literal" => Content(s)[1] = Inbox(s)[1].block
<1>1. Head(agents[s].inbox) = Inbox(s)[1] /\ Inbox(s)[1] \in Frames
  BY Received DEF Typed, Inbox
<1>2. Existing(s).data \in Seq(Nat)
  <2>1. Existing(s) \in Files
    BY DEF Existing, Typed, FilesTyped, AgentsTyped, AgentRecords
  <2> QED
    BY <2>1, FileShapes DEF Data
<1>3. CASE Inbox(s)[1].kind = "literal"
  BY <1>1, <1>3, FrameShapes DEF Content
<1>4. CASE Inbox(s)[1].kind = "copy" /\ Inbox(s)[1].at \in DOMAIN Existing(s).data
  BY <1>1, <1>2, <1>4 DEF Content
<1>5. CASE Inbox(s)[1].kind = "index"
  BY <1>1, <1>5 DEF Content
<1> QED
  BY <1>1, <1>3, <1>4, <1>5 DEF Content

LEMMA WriteTyped ==
  ASSUME Typed, NEW s \in Sessions, NEW block \in Nat, WriteThrough(s, block),
         UNCHANGED <<source, held>>
  PROVE  FilesTyped'
<1>1. FilesTyped /\ agents[s].hash \in Data
  BY DEF Typed, AgentsTyped, AgentRecords
<1>2. Len(agents[s].hash) \in Nat
  BY <1>1 DEF Data
<1>3. \A file \in Files :
        File(WrittenAt(file.data, Len(agents[s].hash), block), Unstamped) \in Files
  <2> TAKE file \in Files
  <2>1. file.data \in Data /\ Unstamped \in Int
    BY FileShapes DEF Unstamped
  <2>2. WrittenAt(file.data, Len(agents[s].hash), block) \in Data
    BY <1>2, <2>1, WrittenAtTyped
  <2> QED
    BY <2>1, <2>2, FileShapes
<1> QED
  BY <1>1, <1>3 DEF FilesTyped, WriteThrough

LEMMA ContentMoves ==
  ASSUME Typed, NEW s \in Sessions, TakeContent(s)
  PROVE  Moves(s) /\ Bounded
<1> DEFINE agent == agents[s]
           block == Content(s)[1]
           fails == [agent EXCEPT !.refused = TRUE, !.hand = "none"]
           takes == [agent EXCEPT !.hash = Append(@, block)]
<1>1. AgentsTyped /\ FilesTyped /\ HandsOnly(agents) /\ agent \in AgentRecords
  BY HandlesMove DEF Typed, AgentsTyped
<1>2. /\ Inbox(s) # <<>> /\ Head(Inbox(s)).kind \in Contentful /\ Transferring(s)
      /\ Quiet /\ UNCHANGED <<replies, lapsed, stuck, meetings>>
  BY DEF TakeContent, Receives, Inbox, Contentful, Quiet, ghosts
<1>3. Inbox(s)[1].kind \in Contentful
  BY <1>1, <1>2, Received
<1>4. /\ faults' \in 0..MaxFaults /\ replies' \in Seq(Replies)
      /\ stuck' \in BOOLEAN /\ crossed' \in BOOLEAN /\ belated' \in BOOLEAN
  BY <1>2, Faulting DEF TakeContent, Typed, meetings
<1>5. CASE agent.refused /\ Becomes(s, agent, agents) /\ UNCHANGED targetVars
  <2>1. /\ AgentsTyped' /\ Reads(s) /\ \A t \in Sessions \ {s} : Unheard(t)
        /\ agents'[s].at = agent.at /\ agents'[s].refused = agent.refused
    BY <1>1, <1>2, <1>5, Becoming DEF Inbox
  <2> QED
    BY <1>1, <1>2, <1>3, <1>4, <1>5, <2>1
    DEF Moves, Absorbs, Bounded, FilesTyped, targetVars, Quiet, sourceVars
<1>6. CASE Becomes(s, fails, agents) /\ UNCHANGED targetVars
  <2>1. /\ fails \in AgentRecords /\ fails.inbox = Inbox(s) /\ fails.cut = agents[s].cut
        /\ fails.at = agents[s].at /\ fails.refused = TRUE
    BY <1>1 DEF AgentRecords, Hands, Inbox
  <2> HIDE DEF fails
  <2>2. /\ AgentsTyped' /\ Reads(s) /\ \A t \in Sessions \ {s} : Unheard(t)
        /\ agents'[s].at = agents[s].at /\ agents'[s].refused
    BY <1>1, <1>2, <1>6, <2>1, Becoming
  <2> QED
    BY <1>1, <1>2, <1>3, <1>4, <1>6, <2>2
    DEF Moves, Absorbs, Bounded, FilesTyped, targetVars, Quiet, sourceVars
<1>7. CASE ~agent.refused /\ Content(s) # <<>> /\ WriteThrough(s, block) /\ Becomes(s, takes, agents)
  <2>1. block \in Nat /\ (Inbox(s)[1].kind = "literal" => block = Inbox(s)[1].block)
    BY <1>2, <1>7, ContentTyped
  <2> HIDE DEF block
  <2>2. Append(agents[s].hash, block) \in Data
    BY <1>1, <2>1, AppendProperties DEF AgentRecords, Data
  <2>3. /\ takes \in AgentRecords /\ takes.inbox = Inbox(s) /\ takes.cut = agents[s].cut
        /\ takes.at = agents[s].at /\ takes.hash = Append(agents[s].hash, block)
    BY <1>1, <2>2 DEF AgentRecords, Inbox
  <2>4. FilesTyped'
    BY <1>2, <1>7, <2>1, WriteTyped DEF Quiet, sourceVars
  <2> HIDE DEF takes
  <2>5. /\ AgentsTyped' /\ Reads(s) /\ \A t \in Sessions \ {s} : Unheard(t)
        /\ agents'[s].at = agents[s].at /\ agents'[s].hash = Append(agents[s].hash, block)
    BY <1>1, <1>2, <1>7, <2>3, Becoming
  <2> QED
    BY <1>2, <1>3, <1>4, <1>7, <2>1, <2>4, <2>5 DEF Moves, Absorbs, Bounded
<1> QED
  BY <1>5, <1>6, <1>7 DEF TakeContent

LEMMA EndMoves ==
  ASSUME Typed, NEW s \in Sessions, Publish(s) \/ Discard(s)
  PROVE  Moves(s) /\ Bounded
<1>1. AgentsTyped /\ FilesTyped /\ Idle(s) \in AgentRecords
  BY AgentShapes DEF Typed
<1>2. /\ Inbox(s) # <<>> /\ Head(Inbox(s)).kind \in Finals /\ Transferring(s) /\ Quiet
      /\ lapsed' = (lapsed /\ s # session)
  BY DEF Publish, Discard, Receives, Inbox, Ends, Finals, Ending, Quiet
<1>3. Inbox(s)[1] = Head(Inbox(s)) /\ Inbox(s)[1] \in Frames
  BY <1>1, <1>2, Received
<1>4. PICK others : HandsOnly(others) /\ Becomes(s, Idle(s), others)
  BY <1>1, HandlesMove DEF Publish, Discard
<1>5. PICK reply \in {Ok, Error} : Reply(s, reply)
  BY DEF Publish, Discard
<1>6. /\ Idle(s).inbox = Inbox(s) /\ Idle(s).cut = agents[s].cut /\ Idle(s).at = "requests"
      /\ Idle(s).hash = <<>> /\ Idle(s).hand = "none"
  BY DEF Idle, Agent, Inbox
<1>7. /\ AgentsTyped' /\ Reads(s) /\ \A t \in Sessions \ {s} : Unheard(t)
      /\ agents'[s].at = "requests" /\ agents'[s].hash = <<>> /\ agents'[s].hand = "none"
  BY <1>1, <1>2, <1>4, <1>6, Becoming
<1>8. Concludes(s)
  BY <1>2, <1>3, <1>5, <1>7 DEF Concludes
<1>9. FilesTyped'
  <2>1. CASE Publish(s)
    <3>1. Inbox(s)[1].kind \in {"commit", "index"}
      BY <1>3, <2>1 DEF Publish, Receives, Ending, Inbox
    <3>2. CommitTime(Inbox(s)[1]) \in Int
      BY <1>3, <3>1, FrameShapes DEF CommitTime, Unstamped
    <3>3. Stamp(CommitTime(Inbox(s)[1])) \in Files
      BY <1>1, <3>2, FileShapes DEF Stamp, FilesTyped
    <3> QED
      BY <1>1, <1>2, <1>3, <2>1, <3>3, FileShapes
      DEF Publish, FilesTyped, Inbox, Quiet, sourceVars
  <2>2. CASE Discard(s)
    BY <1>1, <2>2, FileShapes
    DEF Discard, CanRemove, CannotRemove, Discarded, FilesTyped, sourceVars
  <2> QED
    BY <2>1, <2>2
<1>10. /\ faults' \in 0..MaxFaults /\ replies' \in Seq(Replies)
       /\ stuck' \in BOOLEAN /\ crossed' \in BOOLEAN /\ belated' \in BOOLEAN
  <2>1. faults' \in 0..MaxFaults
    BY Faulting DEF Publish, Discard, CannotRemove, Typed
  <2>2. replies' \in Seq(Replies)
    BY <1>5, Replying DEF Replies
  <2>3. stuck' \in BOOLEAN /\ crossed' \in BOOLEAN /\ belated' \in BOOLEAN
    BY DEF Publish, Discard, CanRemove, CannotRemove, Typed, meetings
  <2> QED
    BY <2>1, <2>2, <2>3
<1> QED
  BY <1>2, <1>7, <1>8, <1>9, <1>10 DEF Moves, Bounded

LEMMA CutMoves ==
  ASSUME Typed, NEW s \in Sessions, FileCut(s) \/ PatchCut(s) \/ SessionEnds(s) \/ Killed(s)
  PROVE  Moves(s) /\ Bounded /\ Stops(s)
<1>1. AgentsTyped /\ FilesTyped /\ HandsOnly(agents) /\ HandsOnly(TemporaryUnlinked)
  BY HandlesMove DEF Typed
<1>2. agents[s].cut /\ Quiet /\ UNCHANGED <<replies, lapsed>>
  BY DEF FileCut, PatchCut, SessionEnds, Killed, Quiet, ghosts
<1>3. Ended(s, agents) \/ Ended(s, TemporaryUnlinked)
  BY DEF FileCut, PatchCut, SessionEnds, Killed
<1>4. Moves(s) /\ Stops(s)
  BY <1>1, <1>2, <1>3, EndingMoves
<1>5. FilesTyped'
  BY <1>1, FileShapes
  DEF FileCut, PatchCut, SessionEnds, Killed, CanRemove, CannotRemove, Discarded, FilesTyped,
      targetVars, sourceVars
<1>6. faults' \in 0..MaxFaults
  BY Faulting DEF FileCut, PatchCut, SessionEnds, Killed, CannotRemove, Typed
<1>7. stuck' \in BOOLEAN /\ crossed' \in BOOLEAN /\ belated' \in BOOLEAN
  BY DEF FileCut, PatchCut, SessionEnds, Killed, CanRemove, CannotRemove, Typed, ghosts, meetings
<1> QED
  BY <1>2, <1>4, <1>5, <1>6, <1>7 DEF Bounded, Typed

LEMMA AgentMoves ==
  ASSUME Typed, NEW s \in Sessions, AgentStep(s) \/ Killed(s)
  PROVE  Moves(s) /\ Bounded
BY AnswerMoves, BeginMoves, ContentMoves, EndMoves, CutMoves DEF AgentStep

LEMMA AgentTyped ==
  ASSUME Typed, NEW s \in Sessions, AgentStep(s) \/ Killed(s)
  PROVE  Typed'
<1>1. Moves(s) /\ Bounded
  BY AgentMoves
<1>2. lapsed' \in BOOLEAN
  BY <1>1 DEF Moves, Describes, Starts, Absorbs, Concludes, Stops, Typed
<1> QED
  BY <1>1, <1>2 DEF Moves, Bounded, Typed, Quiet, sourceVars, clientVars, linkVars

-----------------------------------------------------------------------------
(* What a step of the client does to it *)

Speaks(frame) ==
  /\ \A t \in Sessions : t # session \/ ~up => agents'[t] = agents[t]
  /\ up => agents'[session].inbox = Append(Inbox(session), frame)
  /\ agents'[session].at = agents[session].at /\ agents'[session].cut = agents[session].cut
  /\ agents'[session].hand = agents[session].hand /\ agents'[session].hash = agents[session].hash
  /\ agents'[session].refused = agents[session].refused

LEMMA Sending ==
  ASSUME AgentsTyped, session \in Sessions, NEW frame \in Frames, Send(frame)
  PROVE  AgentsTyped' /\ Speaks(frame)
<1> DEFINE new == [agents[session] EXCEPT !.inbox = Append(@, frame)]
<1>1. agents[session] \in AgentRecords
  BY DEF AgentsTyped
<1>2. Append(agents[session].inbox, frame) \in Seq(Frames)
  BY <1>1, AppendProperties DEF AgentRecords
<1>3. /\ new \in AgentRecords /\ new.inbox = Append(Inbox(session), frame)
      /\ new.at = agents[session].at /\ new.cut = agents[session].cut
      /\ new.hand = agents[session].hand /\ new.hash = agents[session].hash
      /\ new.refused = agents[session].refused
  BY <1>1, <1>2 DEF AgentRecords, Inbox
<1>4. agents' = IF up THEN [agents EXCEPT ![session] = new] ELSE agents
  BY DEF Send
<1> HIDE DEF new
<1> QED
  BY <1>3, <1>4 DEF AgentsTyped, Speaks

LEMMA Appended ==
  ASSUME AgentsTyped, NEW s \in Sessions, NEW frame \in Frames
  PROVE  LET longer == Append(Inbox(s), frame)
         IN /\ Len(Inbox(s)) \in Nat /\ Len(longer) = Len(Inbox(s)) + 1
            /\ \A i \in 1..Len(Inbox(s)) : longer[i] = Inbox(s)[i]
            /\ longer[Len(Inbox(s)) + 1] = frame
            /\ DOMAIN longer = 1..(Len(Inbox(s)) + 1) /\ DOMAIN Inbox(s) = 1..Len(Inbox(s))
<1>1. Inbox(s) \in Seq(Frames)
  BY DEF AgentsTyped, AgentRecords, Inbox
<1>2. Append(Inbox(s), frame) \in Seq(Frames)
  BY <1>1, AppendProperties
<1> QED
  BY <1>1, <1>2, AppendProperties, LenProperties

\* An answer that has come is the one that was asked for.
LEMMA Answering ==
  ASSUME Typed, Turns, Answered
  PROVE  /\ replies' \in Seq(Replies) /\ replies' = <<>> /\ Head(replies) = replies[1]
         /\ Asking => Told
         /\ client = "waiting" => Concluded
         /\ Asking /\ Head(replies) # Error /\ (client = "indexing" => Head(replies) # Ok) =>
              Head(replies).file \in Files /\ Head(replies).kind = Wanted
<1>1. up /\ replies # <<>> /\ replies' = Tail(replies) /\ replies \in Seq(Replies)
  BY DEF Answered, Typed
<1>2. ~lapsed /\ (Told \/ Concluded)
  BY <1>1 DEF Turns, WalkedAway, Resting, Asked, Streaming, Streamed
<1>3. Len(replies) = 1
  BY <1>2 DEF Told, Concluded
<1>4. replies' \in Seq(Replies) /\ replies' = <<>> /\ Head(replies) = replies[1] /\ replies[1] \in Replies
  BY <1>1, <1>3, HeadTailProperties, EmptySeq
<1>5. Asking => Told
  BY <1>2 DEF Asking, Concluded
<1>6. client = "waiting" => Concluded
  BY <1>2 DEF Told, Asking
<1>7. ASSUME Asking, replies[1] # Error, client = "indexing" => replies[1] # Ok
      PROVE  replies[1].file \in Files /\ replies[1].kind = Wanted
  <2>1. replies[1].kind \in {"error", Wanted} /\ Wanted \in {"index", "signature", "resume"}
    BY <1>5, <1>7 DEF Told, Wanted
  <2> QED
    BY <1>4, <1>7, <2>1 DEF Replies, Ok, Error
<1> QED
  BY <1>4, <1>5, <1>6, <1>7

LEMMA ReturnedTyped ==
  ASSUME Typed, NEW result \in {"none", "ok", "failed"}, Returned(result), UNCHANGED <<source, targetVars>>
  PROVE  /\ FilesTyped' /\ linked' \in BOOLEAN
         /\ client' \in Steps /\ method' \in {"file", "patch"} /\ (signature' # <<>>) = (method' = "patch")
         /\ signature' \in Data /\ seen' \in Data /\ resumeFrom' \in Nat
         /\ outcome' \in {"none", "ok", "failed"}
BY FileShapes DEF Typed, FilesTyped, Returned, Steps, targetVars

LEMMA RequestsTyped ==
  ASSUME Typed, Turns, Look \/ GotIndex \/ GotSignature \/ GotReply \/ GotResumeState \/ Open
  PROVE  Typed'
<1>1. AgentsTyped /\ session \in Sessions /\ FilesTyped
  BY DEF Typed
<1>2. CASE Look
  <2>1. Request("index", 0) \in Frames
    BY FrameShapes DEF RequestKinds
  <2>2. AgentsTyped'
    BY <1>1, <1>2, <2>1, Sending DEF Look
  <2> QED
    BY <1>2, <2>2 DEF Look, Typed, FilesTyped, Steps, sourceVars, linkVars, targetVars
<1>3. CASE GotIndex
  <2>1. replies' \in Seq(Replies) /\ Answered
    BY <1>3, Answering DEF GotIndex
  <2>2. Request("signature", 0) \in Frames
    BY FrameShapes DEF RequestKinds
  <2>3. AgentsTyped'
    BY <1>1, <1>3, <2>2, Sending DEF GotIndex, AgentsTyped
  <2>4. CASE Returned("failed") \/ Returned("none")
    BY <1>3, <2>1, <2>3, <2>4, ReturnedTyped DEF GotIndex, Typed, linkVars, targetVars, ghosts, meetings
  <2>5. CASE UNCHANGED <<held, linked, method, signature, seen, resumeFrom, outcome>>
                 /\ client' \in {"signing", "opening"}
    BY <1>3, <2>1, <2>3, <2>5 DEF GotIndex, Typed, FilesTyped, Steps, linkVars, targetVars, ghosts, meetings
  <2> QED
    BY <1>3, <2>4, <2>5 DEF GotIndex
<1>4. CASE GotSignature
  <2>1. replies' \in Seq(Replies) /\ Answered
    BY <1>4, Answering DEF GotSignature
  <2>2. AgentsTyped'
    BY <1>1, <1>4 DEF GotSignature, AgentsTyped
  <2>3. CASE Returned("failed")
    BY <1>4, <2>1, <2>2, <2>3, ReturnedTyped DEF GotSignature, Typed, linkVars, targetVars, ghosts, meetings
  <2>4. CASE ~Returned("failed")
    <3>1. /\ client' = "opening" /\ signature' = Head(replies).file.data
          /\ method' = IF signature' = <<>> THEN "file" ELSE "patch"
          /\ UNCHANGED <<held, linked, seen, resumeFrom, outcome>> /\ Head(replies) # Error
      BY <1>4, <2>4 DEF GotSignature
    <3>2. signature' \in Data
      BY <1>4, <2>1, <3>1, Answering, FileShapes DEF GotSignature, Asking
    <3> QED
      BY <1>4, <2>1, <2>2, <3>1, <3>2 DEF GotSignature, Typed, FilesTyped, Steps, linkVars, targetVars, ghosts, meetings
  <2> QED
    BY <2>3, <2>4
<1>5. CASE GotReply
  <2>1. replies' \in Seq(Replies)
    BY <1>5, Answering DEF GotReply
  <2>2. AgentsTyped'
    BY <1>1, <1>5 DEF GotReply, AgentsTyped
  <2>3. PICK result \in {"ok", "failed"} : Returned(result)
    BY <1>5 DEF GotReply
  <2> QED
    BY <1>5, <2>1, <2>2, <2>3, ReturnedTyped DEF GotReply, Typed, linkVars, targetVars, ghosts, meetings
<1>6. CASE GotResumeState
  <2>1. AgentsTyped' /\ replies' \in Seq(Replies)
    BY <1>1, <1>6, Answering DEF GotResumeState, AgentsTyped, Typed
  <2>2. resumeFrom' \in Nat
    <3>1. CASE Answered /\ Head(replies) # Error
      <4>1. Head(replies).file.data \in Data
        BY <1>6, <3>1, Answering, FileShapes DEF GotResumeState, Asking
      <4>2. Len(Head(replies).file.data) \in Nat
        BY <4>1 DEF Data
      <4> QED
        BY <1>6, <3>1, <4>2 DEF GotResumeState, Verified
    <3>2. CASE ~Answered \/ Head(replies) = Error
      BY <1>6, <3>2 DEF GotResumeState
    <3> QED
      BY <3>1, <3>2
  <2> QED
    BY <1>6, <2>1, <2>2 DEF GotResumeState, Typed, FilesTyped, Steps, sourceVars, linkVars, targetVars, ghosts, meetings
<1>7. CASE Open
  <2>1. Request(method, resumeFrom) \in Frames
    BY FrameShapes DEF RequestKinds, Typed
  <2>2. AgentsTyped'
    BY <1>1, <1>7, <2>1, Sending DEF Open, AgentsTyped
  <2>3. CASE Returned("failed")
    BY <1>7, <2>2, <2>3, ReturnedTyped DEF Open, Typed, linkVars, targetVars, ghosts, meetings
  <2>4. CASE ~Returned("failed")
    BY <1>7, <2>2, <2>4, FileShapes DEF Open, Typed, FilesTyped, Steps, linkVars, targetVars, ghosts, meetings
  <2> QED
    BY <2>3, <2>4
<1> QED
  BY <1>2, <1>3, <1>4, <1>5, <1>6, <1>7

\* A block read is a block, and what stands for it a frame.
LEMMA BlockRead ==
  ASSUME Typed, client = "sending", ~AtEnd
  PROVE  /\ held.data[Len(seen) + 1] \in Nat /\ Len(seen) \in Nat /\ Len(seen) < Len(held.data)
         /\ \A token \in Tokens(held.data[Len(seen) + 1]) :
              /\ token \in Frames /\ token.kind \in {"literal", "copy"}
              /\ method = "file" => token = Literal(held.data[Len(seen) + 1])
<1>1. seen \in Seq(Nat) /\ held.data \in Seq(Nat) /\ signature \in Seq(Nat)
  BY FileShapes DEF Typed, FilesTyped, Data
<1>2. held.data[Len(seen) + 1] \in Nat /\ Len(seen) \in Nat /\ Len(seen) < Len(held.data)
  BY <1>1 DEF AtEnd
<1>3. DOMAIN signature \subseteq Nat
  BY <1>1
<1>4. Literal(held.data[Len(seen) + 1]) \in Frames /\ \A i \in Nat : Copy(i) \in Frames
  BY <1>2, FrameShapes
<1>5. /\ Literal(held.data[Len(seen) + 1]).kind = "literal"
      /\ \A i \in Nat : Copy(i).kind = "copy"
  BY DEF Literal, Copy
<1> HIDE DEF Frames
<1>6. ASSUME NEW token \in Tokens(held.data[Len(seen) + 1])
      PROVE  /\ token \in Frames /\ token.kind \in {"literal", "copy"}
             /\ method = "file" => token = Literal(held.data[Len(seen) + 1])
  <2>1. \/ token = Literal(held.data[Len(seen) + 1])
        \/ method # "file" /\ \E i \in DOMAIN signature : token = Copy(i)
    BY <1>6 DEF Tokens
  <2> QED
    BY <1>3, <1>4, <1>5, <2>1
<1> QED
  BY <1>2, <1>6

LEMMA SendsTyped ==
  ASSUME Typed, SendBlock \/ SendCommit \/ NoStamp \/ SendAbort
  PROVE  Typed'
<1>1. AgentsTyped /\ session \in Sessions /\ FilesTyped
  BY DEF Typed
<1>2. CASE SendBlock
  <2>1. client = "sending" /\ ~AtEnd
    BY <1>2 DEF SendBlock
  <2>2. AgentsTyped'
    BY <1>1, <1>2, <2>1, BlockRead, Sending DEF SendBlock, AgentsTyped
  <2>3. seen' \in Data
    <3>1. seen' = Append(seen, held.data[Len(seen) + 1]) /\ seen \in Seq(Nat)
      BY <1>2 DEF SendBlock, Typed, Data
    <3> QED
      BY <2>1, <3>1, BlockRead, AppendProperties DEF Data
  <2> QED
    BY <1>2, <2>2, <2>3 DEF SendBlock, Typed, FilesTyped, sourceVars, linkVars, targetVars, ghosts, meetings
<1>3. CASE SendCommit
  <2>1. Commit(Stamped.time, seen) \in Frames /\ seen \in Data
    BY <1>1, FrameShapes, FileShapes DEF Stamped, Typed, FilesTyped
  <2>2. AgentsTyped'
    BY <1>1, <1>3, <2>1, Sending DEF SendCommit
  <2> QED
    BY <1>3, <2>1, <2>2
    DEF SendCommit, Typed, FilesTyped, Steps, sourceVars, linkVars, targetVars, meetings
<1>4. CASE NoStamp
  <2>1. faults' \in 0..MaxFaults /\ seen \in Data
    BY <1>4, Faulting DEF NoStamp, NoTime, Typed
  <2> QED
    BY <1>4, <2>1, ReturnedTyped DEF NoStamp, Typed, AgentsTyped, linkVars, targetVars, meetings
<1>5. CASE SendAbort
  <2>1. AgentsTyped' /\ faults' \in 0..MaxFaults
    BY <1>1, <1>5, FrameShapes, Sending, Faulting DEF SendAbort
  <2> QED
    BY <1>5, <2>1 DEF SendAbort, Typed, FilesTyped, Steps, sourceVars, linkVars, targetVars, ghosts, meetings
<1> QED
  BY <1>2, <1>3, <1>4, <1>5

\* The new session's agent is the only one that changes.
Reconnected(requests) ==
  /\ AgentsTyped' /\ session' \in Sessions /\ session' = session + 1
  /\ \A t \in Sessions \ {session'} : agents'[t] = agents[t]
  /\ agents'[session'].inbox = requests /\ agents'[session'].at = "requests"
  /\ agents'[session'].hash = <<>> /\ agents'[session'].hand = "none" /\ agents'[session'].cut = FALSE

LEMMA Reopening ==
  ASSUME Typed, Connected, NEW requests \in Seq(Frames), Reopened(requests)
  PROVE  Reconnected(requests)
<1>1. session \in 1..(MaxDrops + 1) /\ session <= MaxDrops /\ session' = session + 1
  BY DEF Reopened, Connected, Typed, Sessions
<1>2. session' \in Sessions
  BY <1>1, TransferBounds DEF Sessions
<1>3. Starting(requests) \in AgentRecords
  BY AgentShapes DEF Starting, AgentRecords
<1>4. /\ Starting(requests).inbox = requests /\ Starting(requests).at = "requests"
      /\ Starting(requests).hash = <<>> /\ Starting(requests).hand = "none"
      /\ Starting(requests).cut = FALSE
  BY DEF Starting, Agent
<1>5. agents' = [agents EXCEPT ![session'] = Starting(requests)]
  BY DEF Reopened
<1> QED
  BY <1>1, <1>2, <1>3, <1>4, <1>5 DEF Reconnected, Typed, AgentsTyped

LEMMA ReopeningTyped ==
  ASSUME Typed, Connected, NEW requests \in Seq(Frames), Reopened(requests)
  PROVE  /\ AgentsTyped' /\ session' \in Sessions /\ up' \in BOOLEAN
         /\ UNCHANGED <<source, writes, signature, outcome, replies, targetVars, ghosts>>
         /\ faults' \in 0..MaxFaults
<1>1. faults' \in 0..MaxFaults
  BY Faulting DEF Reopened, Typed
<1> QED
  BY <1>1, Reopening DEF Reconnected, Reopened

LEMMA RestartsTyped ==
  ASSUME Typed, Connected, ReissueRequest \/ RestartFile \/ RestartPatch \/ GiveUp
  PROVE  Typed'
<1>1. AgentsTyped /\ FilesTyped
  BY DEF Typed
<1>2. \A kind \in RequestKinds : <<Request(kind, 0)>> \in Seq(Frames)
  <2> SUFFICES ASSUME NEW kind \in RequestKinds
               PROVE  <<Request(kind, 0)>> \in Seq(Frames)
    OBVIOUS
  <2>1. Request(kind, 0) \in Frames
    BY FrameShapes
  <2> HIDE DEF Frames
  <2> QED
    BY <2>1
<1>3. CASE ReissueRequest
  <2>1. PICK requests \in Seq(Frames) : Reopened(requests)
    BY <1>2, <1>3 DEF ReissueRequest, RequestKinds
  <2> QED
    BY <1>3, <2>1, ReopeningTyped DEF ReissueRequest, Typed, FilesTyped, targetVars, ghosts, meetings
<1>4. CASE RestartFile
  <2>1. Reopened(<<>>) /\ <<>> \in Seq(Frames)
    BY <1>4 DEF RestartFile
  <2> QED
    BY <1>4, <2>1, ReopeningTyped, FileShapes
    DEF RestartFile, Restarted, Typed, FilesTyped, targetVars, Steps, ghosts, meetings
<1>5. CASE RestartPatch
  <2>1. PICK requests \in Seq(Frames) : Reopened(requests)
    BY <1>2, <1>5 DEF RestartPatch, RequestKinds
  <2> QED
    BY <1>5, <2>1, ReopeningTyped, FileShapes
    DEF RestartPatch, Restarted, Typed, FilesTyped, targetVars, Steps, ghosts, meetings
<1>6. CASE GiveUp
  BY <1>6, ReturnedTyped DEF GiveUp, Typed, AgentsTyped, linkVars, targetVars, ghosts, meetings
<1> QED
  BY <1>3, <1>4, <1>5, <1>6

\* What had arrived of the inbox is a beginning of it.
LEMMA Dropping ==
  ASSUME Typed, Drop
  PROVE  /\ AgentsTyped' /\ \A t \in Sessions \ {session} : agents'[t] = agents[t]
         /\ agents'[session].at = agents[session].at /\ agents'[session].cut
         /\ agents'[session].hand = agents[session].hand
         /\ agents'[session].hash = agents[session].hash
         /\ agents'[session].refused = agents[session].refused
         /\ Len(agents'[session].inbox) \in 0..Len(Inbox(session))
         /\ \A i \in 1..Len(agents'[session].inbox) : agents'[session].inbox[i] = Inbox(session)[i]
<1> DEFINE new(n) == [agents[session] EXCEPT !.inbox = SubSeq(@, 1, n), !.cut = TRUE]
<1>1. agents[session] \in AgentRecords /\ Inbox(session) \in Seq(Frames) /\ session \in Sessions
  BY DEF Typed, AgentsTyped, AgentRecords, Inbox
<1>2. PICK n \in 0..Len(Inbox(session)) : agents' = [agents EXCEPT ![session] = new(n)]
  BY DEF Drop, Inbox
<1>3. /\ SubSeq(Inbox(session), 1, n) \in Seq(Frames) /\ Len(SubSeq(Inbox(session), 1, n)) = n
      /\ \A i \in 1..n : SubSeq(Inbox(session), 1, n)[i] = Inbox(session)[i]
  BY <1>1, <1>2
<1>4. /\ new(n) \in AgentRecords /\ new(n).inbox = SubSeq(Inbox(session), 1, n)
      /\ new(n).at = agents[session].at /\ new(n).cut
      /\ new(n).hand = agents[session].hand /\ new(n).hash = agents[session].hash
      /\ new(n).refused = agents[session].refused
  BY <1>1, <1>3 DEF AgentRecords, Inbox
<1> HIDE DEF new
<1> QED
  BY <1>1, <1>2, <1>3, <1>4 DEF Typed, AgentsTyped

LEMMA ElsewhereTyped ==
  ASSUME Typed, Drop \/ Environment
  PROVE  Typed'
<1>1. CASE Drop
  <2>1. AgentsTyped'
    BY <1>1, Dropping
  <2>2. /\ ~up' /\ replies' = <<>> /\ ~lapsed'
        /\ UNCHANGED <<sourceVars, clientVars, session, targetVars, reads, steady, stuck, meetings,
                       faults>>
    BY <1>1 DEF Drop
  <2>3. up' \in BOOLEAN /\ lapsed' \in BOOLEAN
    BY <1>1 DEF Drop
  <2> QED
    BY <2>1, <2>2, <2>3 DEF Typed, FilesTyped, sourceVars, clientVars, targetVars, meetings
<1>2. CASE Environment
  <2>1. \A data \in Contents : data \in Data
    <3> TAKE data \in Contents
    <3>1. data \in Seq(Nat \ {0})
      BY ContentsAssumption
    <3> QED
      BY <3>1, SeqMonotonic DEF Data
  <2>2. writes + 1 \in Int
    BY TransferBounds DEF Typed
  <2>3. source' \in Files /\ held' \in Files /\ linked' \in BOOLEAN
    <3>1. source' \in Files
      BY <1>2, <2>1, <2>2, FileShapes DEF Environment, Rewrite, Replace, Unlink
    <3>2. held' \in {source', held} /\ linked' \in {linked, FALSE}
      BY <1>2 DEF Environment, Rewrite, Replace, Unlink
    <3> QED
      BY <3>1, <3>2 DEF Typed, FilesTyped
  <2>4. Written
    BY <1>2 DEF Environment, Rewrite, Replace, Unlink
  <2>5. writes' \in 0..MaxWrites
    BY <2>4, TransferBounds DEF Written, Typed
  <2> QED
    BY <2>3, <2>4, <2>5
    DEF Written, Typed, FilesTyped, AgentsTyped, clientVars, linkVars, targetVars, meetings
<1> QED
  BY <1>1, <1>2

LEMMA TypedInductive == IInv /\ [Next]_vars => Typed'
<1> SUFFICES ASSUME IInv, [Next]_vars
             PROVE  Typed'
  OBVIOUS
<1>1. Typed /\ Connected /\ Turns
  BY DEF IInv
<1>2. CASE Client \/ Look
  BY <1>1, <1>2, RequestsTyped, SendsTyped, RestartsTyped DEF Client
<1>3. CASE Drop \/ Environment
  BY <1>1, <1>3, ElsewhereTyped
<1>4. CASE \E s \in Sessions : AgentStep(s) \/ Killed(s)
  BY <1>1, <1>4, AgentTyped
<1>5. CASE UNCHANGED vars
  BY <1>1, <1>5 DEF vars, Typed, FilesTyped, AgentsTyped, sourceVars, clientVars, linkVars, targetVars, ghosts, meetings
<1> QED
  BY <1>2, <1>3, <1>4, <1>5 DEF Next

-----------------------------------------------------------------------------
(* An agent keeps the order of frames, the turns and what a file is made of *)

\* What is left of an inbox one frame of which is read.
LEMMA Shifted ==
  ASSUME AgentsTyped, NEW s \in Sessions, Reads(s)
  PROVE  /\ Len(Inbox(s)) \in Nat \ {0} /\ DOMAIN Inbox(s) = 1..Len(Inbox(s))
         /\ DOMAIN agents'[s].inbox = 1..(Len(Inbox(s)) - 1)
         /\ Len(agents'[s].inbox) = Len(Inbox(s)) - 1
         /\ \A i \in 1..(Len(Inbox(s)) - 1) : agents'[s].inbox[i] = Inbox(s)[i + 1]
         /\ Len(Inbox(s)) = 1 => agents'[s].inbox = <<>>
<1>1. Inbox(s) \in Seq(Frames) /\ Inbox(s) # <<>> /\ agents'[s].inbox = Tail(Inbox(s))
  BY DEF AgentsTyped, AgentRecords, Inbox, Reads
<1>2. Tail(Inbox(s)) \in Seq(Frames) /\ Len(Tail(Inbox(s))) = Len(Inbox(s)) - 1
  BY <1>1, HeadTailProperties
<1> QED
  BY <1>1, <1>2, HeadTailProperties, EmptySeq, LenProperties

LEMMA AgentOrdered ==
  ASSUME Typed, Ordered, NEW s \in Sessions, Moves(s)
  PROVE  Ordered'
<1>1. ASSUME NEW t \in Sessions \ {s}
      PROVE  OrderedAt(t)'
  <2>1. OrderedAt(t) /\ Unheard(t) /\ UNCHANGED reads
    BY DEF Ordered, Moves, Quiet
  <2> QED
    BY <2>1 DEF OrderedAt, Unheard, Inbox, Transferring
<1>2. OrderedAt(s)'
  <2>1. OrderedAt(s) /\ UNCHANGED reads /\ AgentsTyped
    BY DEF Ordered, Moves, Quiet, Typed
  <2>2. CASE Stops(s)
    BY <2>1, <2>2 DEF OrderedAt, Stops, Inbox, Transferring
  <2>3. CASE Reads(s) /\ ~Stops(s)
    <3>1. \A i \in DOMAIN agents'[s].inbox :
            /\ agents'[s].inbox[i].kind \in Finals => i = Len(agents'[s].inbox)
            /\ agents'[s].inbox[i].kind \notin RequestKinds \ {"index"}
            /\ agents'[s].inbox[i].kind = "commit" => agents'[s].inbox[i].hash \in reads'
      <4>1. PICK n \in Nat \ {0} :
              /\ n = Len(Inbox(s)) /\ DOMAIN Inbox(s) = 1..n
              /\ DOMAIN agents'[s].inbox = 1..(n - 1) /\ Len(agents'[s].inbox) = n - 1
              /\ \A i \in 1..(n - 1) : agents'[s].inbox[i] = Inbox(s)[i + 1]
        BY <2>1, <2>3, Shifted
      <4> SUFFICES ASSUME NEW i \in 1..(n - 1)
                   PROVE  /\ Inbox(s)[i + 1].kind \in Finals => i = n - 1
                          /\ Inbox(s)[i + 1].kind \notin RequestKinds \ {"index"}
                          /\ Inbox(s)[i + 1].kind = "commit" => Inbox(s)[i + 1].hash \in reads
        BY <2>1, <4>1
      <4>2. i + 1 \in DOMAIN Inbox(s) /\ i + 1 # 1
        BY <4>1
      <4>3. /\ Inbox(s)[i + 1].kind \in Finals => i + 1 = n
            /\ Inbox(s)[i + 1].kind \in RequestKinds \ {"index"} => i + 1 = 1
            /\ Inbox(s)[i + 1].kind = "commit" => Inbox(s)[i + 1].hash \in reads
        BY <2>1, <4>1, <4>2 DEF OrderedAt
      <4>4. i + 1 = n => i = n - 1
        OBVIOUS
      <4> QED
        BY <4>2, <4>3, <4>4
    <3>2. /\ agents'[s].hand # "none" => Transferring(s)'
          /\ agents'[s].at = "requests" => agents'[s].hash = <<>>
          /\ agents'[s].at # "over"
      BY <2>1, <2>3 DEF OrderedAt, Moves, Describes, Starts, Absorbs, Concludes, Transferring
    <3> QED
      BY <3>1, <3>2 DEF OrderedAt, Inbox
  <2> QED
    BY <2>2, <2>3 DEF Moves, Describes, Starts, Absorbs, Concludes
<1> QED
  BY <1>1, <1>2 DEF Ordered

LEMMA AgentConnected ==
  ASSUME Typed, Connected, NEW s \in Sessions, Moves(s)
  PROVE  Connected'
<1>1. UNCHANGED <<session, up, method, resumeFrom, source, held, client>>
  BY DEF Moves, Quiet, sourceVars, clientVars, linkVars
<1>2. agents[s].at # "over" => s <= session
  BY DEF Connected, Typed, Sessions
<1>3. /\ \A t \in Sessions \ {s} : agents'[t].at = agents[t].at /\ agents'[t].cut = agents[t].cut
      /\ agents'[s].cut = agents[s].cut
      /\ agents'[s].at = "over" \/ agents[s].at # "over"
      /\ agents'[s].at = "over" => agents[s].cut
  BY DEF Moves, Unheard, Describes, Starts, Absorbs, Concludes, Stops, Reads, Transferring
<1>4. (~up => replies' = replies) /\ (lapsed' => lapsed)
  <2>1. \A reply : ~up /\ Reply(s, reply) => replies' = replies
    BY DEF Reply
  <2>2. ~up => replies' = replies
    BY <2>1 DEF Moves, Describes, Starts, Absorbs, Concludes, Stops
  <2>3. lapsed' => lapsed
    BY Zenon DEF Moves, Describes, Starts, Absorbs, Concludes, Stops
  <2> QED
    BY <2>2, <2>3
<1>5. session \in Sessions
  BY DEF Typed
<1> QED
  BY <1>1, <1>2, <1>3, <1>4, <1>5 DEF Connected, Sessions

LEMMA AgentTurns ==
  ASSUME Typed, Ordered, Connected, Turns, NEW s \in Sessions, Moves(s)
  PROVE  Turns'
<1> SUFFICES ASSUME up
             PROVE  Turns'
  BY DEF Turns, Moves, Quiet, linkVars
<1>1. UNCHANGED <<session, up, client, outcome>>
  BY DEF Moves, Quiet, clientVars, linkVars
<1>2. Wanted' = Wanted /\ Asking' = Asking
  BY <1>1 DEF Wanted, Asking
<1>3. CASE s # session
  <2>1. /\ UNCHANGED replies /\ agents'[session].at = agents[session].at
        /\ agents'[session].inbox = agents[session].inbox /\ lapsed' = lapsed
    BY <1>3 DEF Moves, Describes, Starts, Absorbs, Concludes, Stops, Reply, Unheard, Typed
  <2> QED
    BY <1>1, <1>2, <2>1 DEF Turns, WalkedAway, Resting, Asked, Told, Streaming, Streamed, Concluded,
                             AtRest, InStream, EndSent, Unclosed, Inbox, Transferring
<1>4. CASE s = session
  <2>1. OrderedAt(session) /\ AgentsTyped /\ ~agents[session].cut
    BY DEF Ordered, Connected, Typed
  <2>2. Reads(session)
    BY <1>4, <2>1 DEF Moves, Describes, Starts, Absorbs, Concludes, Stops
  <2> DEFINE here == Inbox(session)
             left == agents'[session].inbox
  <2>3. /\ Len(here) \in Nat \ {0} /\ DOMAIN here = 1..Len(here)
        /\ DOMAIN left = 1..(Len(here) - 1)
        /\ \A i \in 1..(Len(here) - 1) : left[i] = here[i + 1]
        /\ Len(here) = 1 => left = <<>>
    BY <1>4, <2>1, <2>2, Shifted
  <2> HIDE DEF here, left
  <2>4. CASE Describes(session)
    <3>1. Asked /\ ~lapsed /\ Inbox(session) = <<Request(Wanted, 0)>>
      BY <2>2, <2>4 DEF Turns, WalkedAway, Resting, Asked, Told, Streaming, Streamed, Concluded,
                         AtRest, InStream, Describes, Transferring, Reads
    <3>2. Len(Inbox(session)) = 1 /\ Inbox(session)[1].kind = Wanted
      BY <3>1 DEF Request
    <3>3. AtRest(session)'
      BY <1>1, <2>4, <2>3, <3>2 DEF AtRest, Inbox, Describes, here, left
    <3>4. PICK reply : replies' = <<reply>> /\ reply.kind \in {"error", Wanted}
      BY <2>4, <3>1, <3>2 DEF Describes, Reply, Asked
    <3>5. Len(replies') = 1 /\ replies'[1].kind \in {"error", Wanted}
      BY <3>4
    <3>6. Told'
      BY <1>2, <3>1, <3>3, <3>5 DEF Told, Asked
    <3> QED
      BY <1>1, <2>4, <3>1, <3>6 DEF Turns, Describes
  <2>5. CASE Concludes(session)
    <3>1. ~Unclosed(session) /\ Len(Inbox(session)) = 1
      <4>1. 1 \in DOMAIN here /\ here[1].kind \in Finals
        BY <2>5, <2>3 DEF Concludes, here
      <4> QED
        BY <2>1, <4>1 DEF Unclosed, OrderedAt, here
    <3>2. /\ (Streamed /\ ~lapsed) \/ (WalkedAway /\ client = "indexing")
          /\ replies = <<>>
      BY <2>5, <3>1 DEF Turns, WalkedAway, Resting, Asked, Told, Streaming, Streamed, Concluded,
                         AtRest, Concludes, Transferring
    <3>3. AtRest(session)' /\ ~lapsed'
      BY <1>1, <1>4, <2>5, <2>3, <3>1 DEF AtRest, Inbox, Concludes, here, left
    <3>4. PICK reply \in {Ok, Error} : replies' = <<reply>>
      BY <2>5, <3>2 DEF Concludes, Reply
    <3>5. Len(replies') = 1 /\ replies'[1] \in {Ok, Error}
      BY <3>4
    <3>6. CASE Streamed
      BY <1>1, <3>3, <3>5, <3>6 DEF Turns, Concluded, Streamed
    <3>7. CASE client = "indexing"
      <4>1. Told'
        BY <1>1, <3>3, <3>5, <3>7 DEF Told, Asking, Error
      <4> QED
        BY <3>3, <4>1 DEF Turns
    <3> QED
      BY <3>2, <3>6, <3>7
  <2>6. CASE Starts(session) \/ Absorbs(session)
    <3>1. InStream(session)' /\ UNCHANGED <<replies, lapsed>> /\ agents'[session].at # "over"
      BY <1>1, <2>6 DEF InStream, Starts, Absorbs, Transferring
    <3>2. (EndSent(session)' <=> EndSent(session)) /\ (Unclosed(session) => Unclosed(session)')
      <4>1. Inbox(session)[1].kind \notin Ends
        BY <2>6 DEF Starts, Absorbs, Ends, Contentful
      <4>2. EndSent(session)' = \E i \in DOMAIN left : left[i].kind \in Ends
        BY <1>1 DEF EndSent, Inbox, left
      <4>3. EndSent(session) = \E i \in DOMAIN here : here[i].kind \in Ends
        BY DEF EndSent, here
      <4>4. ASSUME NEW i \in DOMAIN here, here[i].kind \in Ends
            PROVE  i - 1 \in DOMAIN left /\ left[i - 1] = here[i]
        <5>1. i # 1
          BY <4>1, <4>4 DEF here
        <5> QED
          BY <2>3, <4>4, <5>1
      <4>5. \A i \in DOMAIN left : i + 1 \in DOMAIN here /\ left[i] = here[i + 1]
        BY <2>3
      <4>6. EndSent(session)' <=> EndSent(session)
        BY <4>2, <4>3, <4>4, <4>5
      <4>7. Unclosed(session) => Unclosed(session)'
        <5>1. Unclosed(session)' <=> \A i \in DOMAIN left : left[i].kind \notin Finals
          BY <1>1 DEF Unclosed, Inbox, left
        <5>2. Unclosed(session) <=> \A i \in DOMAIN here : here[i].kind \notin Finals
          BY DEF Unclosed, here
        <5> QED
          BY <4>5, <5>1, <5>2
      <4> QED
        BY <4>6, <4>7
    <3>3. ~AtRest(session) /\ ~Asked
      <4>1. CASE Asked
        <5>1. Inbox(session)[1].kind = Wanted /\ Wanted \in {"index", "signature", "resume"}
          BY <4>1 DEF Asked, Request, Wanted
        <5> QED
          BY <2>6, <4>1, <5>1 DEF Asked, Starts, Absorbs, Transferring
      <4>2. CASE AtRest(session)
        BY <2>2, <4>2 DEF AtRest, Reads
      <4> QED
        BY <4>1, <4>2, <2>2 DEF AtRest, Reads
    <3> QED
      BY <1>1, <3>1, <3>2, <3>3 DEF Turns, WalkedAway, Resting, Told, Streaming, Streamed, Concluded
  <2> QED
    BY <1>4, <2>1, <2>4, <2>5, <2>6 DEF Moves, Stops
<1> QED
  BY <1>3, <1>4

\* Reading one more piece of a file leaves one less to follow.
LEMMA FollowsOn ==
  ASSUME Typed, Ordered, NEW s \in Sessions, NEW data \in Data, NEW n \in Nat,
         n >= 1, n <= Len(Inbox(s)), Follows(agents[s], data, n),
         \/ Starts(s) /\ Inbox(s)[1].kind = "file"
         \/ Absorbs(s) /\ ~agents'[s].refused
  PROVE  Follows(agents'[s], data, n - 1)
<1>1. Reads(s) /\ AgentsTyped /\ OrderedAt(s)
  BY DEF Starts, Absorbs, Typed, Ordered
<1>2. /\ Len(Inbox(s)) \in Nat \ {0}
      /\ \A i \in 1..(Len(Inbox(s)) - 1) : agents'[s].inbox[i] = Inbox(s)[i + 1]
  BY <1>1, Shifted
<1>3. agents[s].hash \in Seq(Nat) /\ Len(agents[s].hash) \in Nat /\ Len(data) \in Nat
  BY <1>1 DEF AgentsTyped, AgentRecords, Data
<1>4. CASE Starts(s) /\ Inbox(s)[1].kind = "file"
  <2>1. /\ agents[s].at = "requests" /\ agents[s].hash = <<>>
        /\ agents'[s].at = "chunks" /\ agents'[s].hash = <<>>
    BY <1>1, <1>4 DEF Starts, OrderedAt
  <2>2. /\ Len(data) = n - 1
        /\ \A j \in 1..n : j > 1 => Inbox(s)[j] = Literal(data[j - 1])
    BY <2>1 DEF Follows, Ahead, Inbox
  <2>3. ASSUME NEW j \in 1..(n - 1)
        PROVE  agents'[s].inbox[j] = Literal(data[j])
    <3>1. j + 1 \in 1..n /\ j + 1 > 1 /\ (j + 1) - 1 = j /\ j \in 1..(Len(Inbox(s)) - 1)
      BY <1>2
    <3>2. Inbox(s)[j + 1] = Literal(data[(j + 1) - 1])
      BY <2>2, <3>1
    <3> QED
      BY <1>2, <3>1, <3>2
  <2> QED
    BY <2>1, <2>2, <2>3 DEF Follows, Ahead, Inbox
<1>5. CASE Absorbs(s) /\ ~agents'[s].refused
  <2>1. PICK block \in Nat :
          /\ agents'[s].hash = Append(agents[s].hash, block)
          /\ Inbox(s)[1].kind = "literal" => block = Inbox(s)[1].block
    BY <1>5 DEF Absorbs
  <2>2. Ahead(agents[s]) = 0 /\ agents[s].at # "requests" /\ agents'[s].at # "requests"
    BY <1>5 DEF Absorbs, Transferring, Ahead
  <2>3. PICK k \in Nat : k = Len(agents[s].hash)
    BY <1>3
  <2>4. /\ Len(data) = k + n
        /\ \A j \in 1..k : agents[s].hash[j] = data[j]
        /\ \A j \in 1..n : Inbox(s)[j] = Literal(data[k + j])
    <3>1. \A j \in 1..n : k + j - 0 = k + j /\ j > 0
      OBVIOUS
    <3>2. \A j \in 1..n : j > 0 => Inbox(s)[j] = Literal(data[k + j - 0])
      BY <2>2, <2>3 DEF Follows, Inbox
    <3>3. \A j \in 1..n : Inbox(s)[j] = Literal(data[k + j])
      BY <3>1, <3>2
    <3> QED
      BY <2>2, <2>3, <3>3 DEF Follows
  <2>5. block = data[k + 1]
    <3>1. Inbox(s)[1] = Literal(data[k + 1])
      BY <2>4
    <3> QED
      BY <2>1, <3>1 DEF Literal
  <2>6. /\ Len(agents'[s].hash) = k + 1
        /\ \A j \in 1..k : agents'[s].hash[j] = agents[s].hash[j]
        /\ agents'[s].hash[k + 1] = block
    BY <1>3, <2>1, <2>3, AppendProperties
  <2>7. ASSUME NEW j \in 1..(k + 1)
        PROVE  agents'[s].hash[j] = data[j]
    <3>1. CASE j = k + 1
      BY <2>5, <2>6, <3>1
    <3>2. CASE j # k + 1
      <4>1. j \in 1..k
        BY <3>2
      <4> QED
        BY <2>4, <2>6, <4>1
    <3> QED
      BY <3>1, <3>2
  <2>8. ASSUME NEW j \in 1..(n - 1)
        PROVE  agents'[s].inbox[j] = Literal(data[(k + 1) + j])
    <3>1. /\ j + 1 \in 1..n /\ j \in 1..(Len(Inbox(s)) - 1)
          /\ k + (j + 1) = (k + 1) + j
      BY <1>2
    <3>2. Inbox(s)[j + 1] = Literal(data[k + (j + 1)])
      BY <2>4, <3>1
    <3> QED
      BY <1>2, <3>1, <3>2
  <2>9. Len(data) = (k + 1) + (n - 1)
    BY <2>4
  <2>10. Ahead(agents'[s]) = 0
    BY <2>2 DEF Ahead
  <2>11. \A j \in 1..(n - 1) : agents'[s].inbox[j] = Literal(data[(k + 1) + j - 0])
    BY <2>8
  <2>12. Len(data) = Len(agents'[s].hash) + (n - 1) - 0
    BY <2>6, <2>9
  <2> QED
    BY <2>6, <2>7, <2>10, <2>11, <2>12 DEF Follows
<1> QED
  BY <1>4, <1>5

\* An agent takes a file after a step only if it has gone on with one.
LEMMA TakingOn ==
  ASSUME Typed, Ordered, NEW s \in Sessions, Moves(s), Taking(agents'[s])
  PROVE  /\ Taking(agents[s]) /\ Reads(s)
         /\ \/ Starts(s) /\ Inbox(s)[1].kind = "file"
            \/ Absorbs(s) /\ ~agents'[s].refused
<1>1. AgentsTyped /\ OrderedAt(s)
  BY DEF Typed, Ordered
<1>2. CASE Describes(s) \/ Concludes(s)
  <2>1. Reads(s) /\ agents'[s].at = "requests"
    BY <1>2 DEF Describes, Concludes
  <2>2. agents'[s].inbox # <<>> /\ agents'[s].inbox[1].kind = "file"
    BY <2>1 DEF Taking
  <2>3. Len(Inbox(s)) > 1 /\ 2 \in DOMAIN Inbox(s) /\ agents'[s].inbox[1] = Inbox(s)[2]
    BY <1>1, <2>1, <2>2, Shifted
  <2> QED
    BY <1>1, <2>2, <2>3 DEF OrderedAt, RequestKinds
<1>3. CASE Starts(s)
  BY <1>3 DEF Taking, Starts, Reads, Inbox
<1>4. CASE Absorbs(s)
  BY <1>4 DEF Taking, Absorbs, Transferring
<1>5. CASE Stops(s)
  BY <1>5 DEF Taking, Stops
<1> QED
  BY <1>2, <1>3, <1>4, <1>5 DEF Moves

LEMMA AgentWhole ==
  ASSUME Typed, Ordered, Whole, NEW s \in Sessions, Moves(s)
  PROVE  Whole'
<1>1. /\ AgentsTyped /\ UNCHANGED <<session, up, client, method, seen, reads>>
      /\ session \in Sessions /\ seen \in Data /\ reads \subseteq Data /\ (lapsed' => lapsed)
  BY DEF Typed, Moves, Quiet, clientVars, linkVars, Describes, Starts, Absorbs, Concludes, Stops
<1>2. ASSUME NEW t \in Sessions \ {s}
      PROVE  /\ WholeAt(agents[t])' /\ Taking(agents'[t]) = Taking(agents[t])
             /\ \A data, n : Follows(agents'[t], data, n) = Follows(agents[t], data, n)
             /\ agents'[t].inbox = agents[t].inbox
  <2>1. WholeAt(agents[t]) /\ Unheard(t)
    BY DEF Whole, Moves
  <2>2. /\ Taking(agents'[t]) = Taking(agents[t])
        /\ agents'[t].inbox = agents[t].inbox
    BY <2>1 DEF Unheard, Taking
  <2>3. \A data, n : Follows(agents'[t], data, n) = Follows(agents[t], data, n)
    BY <2>1 DEF Unheard, Follows, Ahead
  <2> QED
    BY <1>1, <2>1, <2>2, <2>3 DEF WholeAt
<1>3. ASSUME Taking(agents'[s])
      PROVE  /\ WholeAt(agents[s])'
             /\ \A data \in Data : Follows(agents[s], data, Len(Inbox(s))) =>
                  Follows(agents'[s], data, Len(agents'[s].inbox))
  <2>1. /\ Taking(agents[s]) /\ Reads(s)
        /\ \/ Starts(s) /\ Inbox(s)[1].kind = "file"
           \/ Absorbs(s) /\ ~agents'[s].refused
    BY <1>3, TakingOn
  <2>2. PICK n \in Nat \ {0} : n = Len(Inbox(s))
    BY <1>1, <2>1, Shifted
  <2>3. /\ DOMAIN Inbox(s) = 1..n /\ DOMAIN agents'[s].inbox = 1..(n - 1)
        /\ Len(agents'[s].inbox) = n - 1
        /\ \A i \in 1..(n - 1) : agents'[s].inbox[i] = Inbox(s)[i + 1]
    BY <1>1, <2>1, <2>2, Shifted
  <2>4. ASSUME NEW data \in Data, Follows(agents[s], data, n)
        PROVE  Follows(agents'[s], data, n - 1)
    BY <2>1, <2>2, <2>4, FollowsOn
  <2>5. ASSUME NEW i \in 1..(n - 1), agents'[s].inbox[i].kind = "commit"
        PROVE  Follows(agents'[s], agents'[s].inbox[i].hash, i - 1)
    <3> DEFINE whole == Inbox(s)[i + 1].hash
    <3>1. i + 1 \in 1..n /\ agents'[s].inbox[i] = Inbox(s)[i + 1] /\ i \in Nat /\ i >= 1 /\ i <= n
      BY <2>3
    <3>2. WholeAt(agents[s]) /\ Inbox(s)[i + 1].kind = "commit"
      BY <2>5, <3>1 DEF Whole
    <3>3. whole \in Data
      <4>1. Inbox(s) \in Seq(Frames)
        BY <1>1 DEF AgentsTyped, AgentRecords, Inbox
      <4>2. Inbox(s)[i + 1] \in Frames
        BY <2>2, <3>1, <4>1, ElementOfSeq
      <4> QED
        BY <3>2, <4>2, FrameShapes
    <3>4. Follows(agents[s], whole, i)
      <4>1. Follows(agents[s], whole, (i + 1) - 1)
        BY <2>1, <2>3, <3>1, <3>2 DEF WholeAt, Inbox
      <4>2. (i + 1) - 1 = i
        BY <3>1
      <4> QED
        BY <4>1, <4>2
    <3>5. whole = agents'[s].inbox[i].hash
      BY <3>1
    <3> HIDE DEF whole
    <3>6. Follows(agents'[s], whole, i - 1)
      BY <2>1, <2>2, <3>1, <3>3, <3>4, FollowsOn
    <3> QED
      BY <3>5, <3>6
  <2>6. ASSUME NEW i \in 1..(n - 1), agents'[s].inbox[i].kind = "index"
        PROVE  \E data \in reads : Follows(agents'[s], data, i - 1)
    <3>1. i + 1 \in 1..n /\ agents'[s].inbox[i] = Inbox(s)[i + 1] /\ i \in Nat /\ i >= 1 /\ i <= n
      BY <2>3
    <3>2. WholeAt(agents[s]) /\ Inbox(s)[i + 1].kind = "index"
      BY <2>6, <3>1 DEF Whole
    <3>3. PICK data \in reads : Follows(agents[s], data, (i + 1) - 1)
      BY <2>1, <2>3, <3>1, <3>2 DEF WholeAt, Inbox
    <3>4. Follows(agents[s], data, i) /\ data \in Data
      <4>1. (i + 1) - 1 = i
        BY <3>1
      <4> QED
        BY <1>1, <3>3, <4>1
    <3>5. Follows(agents'[s], data, i - 1)
      BY <2>1, <2>2, <3>1, <3>4, FollowsOn
    <3> QED
      BY <3>3, <3>5
  <2> QED
    BY <1>1, <2>2, <2>3, <2>4, <2>5, <2>6 DEF WholeAt
<1>4. WholeAt(agents[s])'
  BY <1>3 DEF WholeAt
<1>5. ASSUME client = "sending", up, Taking(agents'[session])
      PROVE  method = "file" /\ Follows(agents'[session], seen, Len(agents'[session].inbox))
  <2>1. Taking(agents[session])
    BY <1>1, <1>2, <1>5, TakingOn
  <2>2. method = "file" /\ Follows(agents[session], seen, Len(Inbox(session)))
    BY <1>5, <2>1 DEF Whole, SentAsSeen
  <2>3. CASE s # session
    BY <1>1, <1>2, <2>2, <2>3 DEF Inbox
  <2>4. CASE s = session
    BY <1>1, <1>3, <1>5, <2>2, <2>4
  <2> QED
    BY <2>3, <2>4
<1>6. SentAsSeen'
  BY <1>1, <1>5 DEF SentAsSeen, Inbox
<1>7. ASSUME client = "idle", lapsed, Taking(agents'[session])
      PROVE  \E data \in reads : Follows(agents'[session], data, Len(agents'[session].inbox))
  <2>1. Taking(agents[session])
    BY <1>1, <1>2, <1>7, TakingOn
  <2>2. PICK data \in reads : Follows(agents[session], data, Len(Inbox(session)))
    BY <1>7, <2>1 DEF Whole, LeftWhole
  <2>3. CASE s # session
    BY <1>1, <1>2, <2>2, <2>3 DEF Inbox
  <2>4. CASE s = session
    BY <1>1, <1>3, <1>7, <2>2, <2>4
  <2> QED
    BY <2>3, <2>4
<1>8. LeftWhole'
  BY <1>1, <1>7 DEF LeftWhole, Inbox
<1> QED
  BY <1>2, <1>4, <1>6, <1>8 DEF Whole

\* An agent that takes a piece of content goes on with its transfer.
LEMMA ContentStays ==
  ASSUME Typed, NEW s \in Sessions, TakeContent(s)
  PROVE  agents'[s].at = agents[s].at /\ Transferring(s)
<1>1. AgentsTyped /\ HandsOnly(agents) /\ agents[s] \in AgentRecords
  BY HandlesMove DEF Typed, AgentsTyped
<1>2. Inbox(s) # <<>> /\ Transferring(s)
  BY DEF TakeContent, Receives, Inbox
<1>3. \A agent : agent.at = agents[s].at /\ Becomes(s, agent, agents) => agents'[s].at = agents[s].at
  BY <1>1 DEF Becomes, AgentsTyped
<1> DEFINE fails == [agents[s] EXCEPT !.refused = TRUE, !.hand = "none"]
           takes == [agents[s] EXCEPT !.hash = Append(@, Content(s)[1])]
<1>4. fails.at = agents[s].at /\ takes.at = agents[s].at
  BY <1>1 DEF AgentRecords
<1>5. Becomes(s, agents[s], agents) \/ Becomes(s, fails, agents) \/ Becomes(s, takes, agents)
  BY DEF TakeContent
<1> HIDE DEF fails, takes
<1> QED
  BY <1>2, <1>3, <1>4, <1>5

\* The temporary of the first session is there only while its agent is at work, or where it
\* could not be removed.
LEMMA AgentTempGone ==
  ASSUME IInv, NEW s \in Sessions, AgentStep(s) \/ Killed(s)
  PROVE  TempGone'
<1>1. Typed /\ Connected /\ TempGone /\ Moves(s)
  BY AgentMoves DEF IInv
<1> SUFFICES ASSUME session = 1, agents'[1].at = "requests"
             PROVE  temp' = Nothing \/ stuck'
  BY <1>1 DEF TempGone, Moves, Quiet, linkVars
<1>2. s = 1 /\ Moves(1) /\ (AgentStep(1) \/ Killed(1))
  <2>1. agents[s].at # "over"
    BY DEF AgentStep, Killed, Answer, BeginFile, BeginPatch, TakeContent, Publish, Discard,
           FileCut, PatchCut, SessionEnds, Transferring
  <2> QED
    BY <1>1, <2>1 DEF Connected, Sessions
<1>3. CASE Publish(1) \/ Discard(1)
  BY <1>3 DEF Publish, Discard, CanRemove, CannotRemove, Discarded
<1>4. CASE Answer(1)
  BY <1>1, <1>4 DEF Answer, TempGone, targetVars, ghosts
<1>5. CASE BeginFile(1) \/ BeginPatch(1)
  <2>1. Inbox(1) # <<>> /\ Head(Inbox(1)).kind \in {"file", "patch"}
    BY <1>5 DEF BeginFile, BeginPatch, Receives, Inbox
  <2>2. Inbox(1)[1].kind \in {"file", "patch"}
    BY <1>1, <1>2, <2>1, Received DEF Typed
  <2> QED
    BY <1>2, <2>2 DEF Moves, Describes, Starts, Absorbs, Concludes, Stops, Contentful, Finals, Ends
<1>6. CASE TakeContent(1)
  <2>1. Transferring(1) /\ Inbox(1) # <<>> /\ Head(Inbox(1)).kind \in Contentful
    BY <1>6 DEF TakeContent, Receives, Inbox, Contentful
  <2>2. Inbox(1)[1].kind \in Contentful
    BY <1>1, <1>2, <2>1, Received DEF Typed
  <2> QED
    BY <1>6, <1>1, <1>2, <2>1, <2>2, ContentStays DEF Transferring
<1>7. CASE FileCut(1) \/ PatchCut(1) \/ SessionEnds(1) \/ Killed(1)
  BY <1>1, <1>2, <1>7, CutMoves DEF Stops
<1> QED
  BY <1>2, <1>3, <1>4, <1>5, <1>6, <1>7 DEF AgentStep

LEMMA AgentKeeps ==
  ASSUME IInv, NEW s \in Sessions, AgentStep(s) \/ Killed(s)
  PROVE  Ordered' /\ Connected' /\ Turns' /\ Whole' /\ TempGone'
<1>1. Typed /\ Ordered /\ Connected /\ Turns /\ Whole /\ Moves(s)
  BY AgentMoves DEF IInv
<1> QED
  BY <1>1, AgentOrdered, AgentConnected, AgentTurns, AgentWhole, AgentTempGone

-----------------------------------------------------------------------------
(* And so does the client *)

\* Whose turn it is, by where the client stands.
LEMMA TurnOf ==
  ASSUME Turns, up
  PROVE  /\ client = "idle" => WalkedAway \/ Resting
         /\ client = "opening" => Resting /\ ~lapsed
         /\ client = "sending" => Streaming /\ ~lapsed
         /\ client = "waiting" => (Streamed \/ Concluded) /\ ~lapsed
         /\ replies # <<>> => (Told \/ Concluded) /\ ~lapsed
BY DEF Turns, WalkedAway, Resting, Asked, Told, Streaming, Streamed, Concluded, Asking

\* Frames that nothing follows yet, or nothing at all, are followed by one.
MayFollow(frame) ==
  up => /\ Unclosed(session) /\ agents[session].at # "over"
        /\ frame.kind \in RequestKinds \ {"index"} => AtRest(session)

LEMMA SpeakingOrdered ==
  ASSUME Typed, Ordered, reads \subseteq reads', UNCHANGED session,
         \/ UNCHANGED agents
         \/ \E frame \in Frames :
              Speaks(frame) /\ MayFollow(frame) /\ (frame.kind = "commit" => frame.hash \in reads')
  PROVE  Ordered'
<1>1. ASSUME NEW t \in Sessions, agents'[t] = agents[t]
      PROVE  OrderedAt(t)'
  <2>1. OrderedAt(t)
    BY DEF Ordered
  <2> QED
    BY <1>1, <2>1 DEF OrderedAt, Inbox, Transferring
<1>2. CASE UNCHANGED agents \/ ~up
  BY <1>1, <1>2 DEF Ordered, Speaks
<1>3. CASE up /\ ~UNCHANGED agents
  <2>1. PICK frame \in Frames :
          Speaks(frame) /\ MayFollow(frame) /\ (frame.kind = "commit" => frame.hash \in reads')
    BY <1>3
  <2>2. AgentsTyped /\ session \in Sessions /\ OrderedAt(session)
    BY DEF Typed, Ordered
  <2> DEFINE here == Inbox(session)
             more == agents'[session].inbox
  <2>3. /\ Len(here) \in Nat /\ Len(more) = Len(here) + 1
        /\ \A i \in 1..Len(here) : more[i] = here[i]
        /\ more[Len(here) + 1] = frame
        /\ DOMAIN more = 1..(Len(here) + 1) /\ DOMAIN here = 1..Len(here)
    BY <1>3, <2>1, <2>2, Appended DEF Speaks
  <2> HIDE DEF here, more
  <2>4. /\ \A i \in DOMAIN here : here[i].kind \notin Finals
        /\ frame.kind \in RequestKinds \ {"index"} => agents[session].at = "requests" /\ here = <<>>
    BY <1>3, <2>1 DEF MayFollow, Unclosed, AtRest, here
  <2>5. \A i \in DOMAIN here :
          /\ here[i].kind \in RequestKinds \ {"index"} => i = 1 /\ agents[session].at = "requests"
          /\ here[i].kind = "commit" => here[i].hash \in reads'
    BY <2>2 DEF OrderedAt, here
  <2>6. ASSUME NEW i \in DOMAIN more
        PROVE  /\ more[i].kind \in Finals => i = Len(more)
               /\ more[i].kind \in RequestKinds \ {"index"} => i = 1 /\ agents[session].at = "requests"
               /\ more[i].kind = "commit" => more[i].hash \in reads'
    <3>1. CASE i = Len(here) + 1
      BY <2>1, <2>3, <2>4, <3>1
    <3>2. CASE i # Len(here) + 1
      <4>1. i \in DOMAIN here /\ more[i] = here[i]
        BY <2>3, <3>2
      <4> QED
        BY <2>4, <2>5, <4>1
    <3> QED
      BY <3>1, <3>2
  <2>7. OrderedAt(session)'
    BY <1>3, <2>1, <2>2, <2>6 DEF OrderedAt, Speaks, MayFollow, Inbox, Transferring, more
  <2> QED
    BY <1>1, <2>1, <2>7 DEF Ordered, Speaks
<1> QED
  BY <1>2, <1>3

\* What has been read ends where the inbox does; a frame more does not change it.
LEMMA FollowsMore ==
  ASSUME Typed, up, NEW frame \in Frames, Speaks(frame), NEW data \in Data,
         Follows(agents[session], data, Len(Inbox(session)))
  PROVE  Follows(agents'[session], data, Len(Inbox(session)))
<1>1. AgentsTyped /\ session \in Sessions
  BY DEF Typed
<1>2. \A i \in 1..Len(Inbox(session)) : agents'[session].inbox[i] = Inbox(session)[i]
  BY <1>1, Appended DEF Speaks
<1> QED
  BY <1>2 DEF Follows, Ahead, Speaks, Inbox

LEMMA FollowsBlock ==
  ASSUME Typed, up, NEW block \in Nat, Speaks(Literal(block)), NEW data \in Data,
         Inbox(session) # <<>> \/ agents[session].at # "requests",
         Follows(agents[session], data, Len(Inbox(session)))
  PROVE  Follows(agents'[session], Append(data, block), Len(agents'[session].inbox))
<1>1. AgentsTyped /\ session \in Sessions /\ Literal(block) \in Frames
  BY FrameShapes DEF Typed
<1>2. PICK n \in Nat : n = Len(Inbox(session))
  BY <1>1, Appended
<1>3. /\ \A i \in 1..n : agents'[session].inbox[i] = Inbox(session)[i]
      /\ agents'[session].inbox[n + 1] = Literal(block)
      /\ Len(agents'[session].inbox) = n + 1
  BY <1>1, <1>2, Appended DEF Speaks
<1>4. PICK k \in Nat : k = Len(agents[session].hash)
  BY <1>1 DEF AgentsTyped, AgentRecords, Data
<1>5. PICK a \in {0, 1} : a = Ahead(agents[session])
  BY DEF Ahead
<1>6. n >= a
  <2>1. Inbox(session) \in Seq(Frames)
    BY <1>1 DEF AgentsTyped, AgentRecords, Inbox
  <2> QED
    BY <1>2, <1>5, <2>1, EmptySeq DEF Ahead
<1>7. /\ Len(data) = k + n - a
      /\ \A j \in 1..k : agents[session].hash[j] = data[j]
      /\ \A j \in 1..n : j > a => Inbox(session)[j] = Literal(data[k + j - a])
  BY <1>2, <1>4, <1>5 DEF Follows, Inbox
<1> DEFINE longer == Append(data, block)
<1>8. /\ Len(longer) = k + n - a + 1 /\ longer[k + n - a + 1] = block
      /\ \A j \in 1..(k + n - a) : longer[j] = data[j]
  BY <1>7, AppendProperties DEF Data
<1> HIDE DEF longer
<1>9. ASSUME NEW j \in 1..(n + 1), j > a
      PROVE  agents'[session].inbox[j] = Literal(longer[k + j - a])
  <2>1. CASE j = n + 1
    <3>1. k + j - a = k + n - a + 1
      BY <2>1
    <3> QED
      BY <1>3, <1>8, <2>1, <3>1
  <2>2. CASE j # n + 1
    <3>1. j \in 1..n /\ k + j - a \in 1..(k + n - a)
      BY <1>9, <2>2
    <3> QED
      BY <1>3, <1>7, <1>8, <1>9, <3>1
  <2> QED
    BY <2>1, <2>2
<1>10. \A j \in 1..k : agents[session].hash[j] = longer[j]
  <2> SUFFICES ASSUME NEW j \in 1..k
               PROVE  agents[session].hash[j] = longer[j]
    OBVIOUS
  <2>1. j \in 1..(k + n - a)
    BY <1>6
  <2> QED
    BY <1>7, <1>8, <2>1
<1>11. Len(longer) = k + (n + 1) - a
  BY <1>8
<1>12. agents'[session].hash = agents[session].hash /\ Ahead(agents'[session]) = a
  BY <1>5 DEF Speaks, Ahead
<1> QED
  BY <1>3, <1>4, <1>9, <1>10, <1>11, <1>12 DEF Follows, longer

LEMMA TakingMore ==
  ASSUME Typed, up, NEW frame \in Frames, Speaks(frame), Taking(agents'[session])
  PROVE  \/ Taking(agents[session]) /\ (Inbox(session) # <<>> \/ agents[session].at # "requests")
         \/ frame.kind = "file" /\ AtRest(session)
<1>1. AgentsTyped /\ session \in Sessions /\ Inbox(session) \in Seq(Frames)
  BY DEF Typed, AgentsTyped, AgentRecords, Inbox
<1>2. /\ Len(Inbox(session)) \in Nat
      /\ \A i \in 1..Len(Inbox(session)) : agents'[session].inbox[i] = Inbox(session)[i]
      /\ agents'[session].inbox[Len(Inbox(session)) + 1] = frame
  BY <1>1, Appended DEF Speaks
<1>3. CASE agents[session].at = "chunks"
  BY <1>3 DEF Taking, Speaks
<1>4. CASE agents[session].at # "chunks"
  <2>1. agents[session].at = "requests" /\ agents'[session].inbox[1].kind = "file"
    BY <1>4 DEF Taking, Speaks
  <2>2. CASE Inbox(session) = <<>>
    BY <1>2, <2>1, <2>2 DEF AtRest
  <2>3. CASE Inbox(session) # <<>>
    <3>1. 1 \in 1..Len(Inbox(session))
      BY <1>1, <2>3, EmptySeq
    <3> QED
      BY <1>2, <2>1, <2>3, <3>1 DEF Taking, Inbox
  <2> QED
    BY <2>2, <2>3
<1> QED
  BY <1>3, <1>4

\* The end of a file is of what has been sent of it.
EndsWhole(frame) ==
  up /\ Taking(agents[session]) =>
    /\ frame.kind = "commit" => Follows(agents[session], frame.hash, Len(Inbox(session)))
    /\ frame.kind = "index" => \E data \in reads : Follows(agents[session], data, Len(Inbox(session)))

LEMMA SpeakingWhole ==
  ASSUME Typed, Whole, reads \subseteq reads',
         \/ UNCHANGED agents
         \/ \E frame \in Frames : Speaks(frame) /\ MayFollow(frame) /\ EndsWhole(frame)
  PROVE  \A s \in Sessions : WholeAt(agents[s])'
<1>1. \A s \in Sessions : WholeAt(agents[s]) /\ (agents'[s] = agents[s] => WholeAt(agents[s])')
  BY DEF Whole, WholeAt
<1>2. CASE UNCHANGED agents \/ ~up
  BY <1>1, <1>2 DEF Speaks
<1>3. CASE up /\ ~UNCHANGED agents
  <2>1. PICK frame \in Frames : Speaks(frame) /\ MayFollow(frame) /\ EndsWhole(frame)
    BY <1>3
  <2>2. AgentsTyped /\ session \in Sessions /\ reads \subseteq Data
    BY DEF Typed
  <2>3. PICK n \in Nat : n = Len(Inbox(session))
    BY <2>1, <2>2, Appended
  <2>4. /\ \A i \in 1..n : agents'[session].inbox[i] = Inbox(session)[i]
        /\ agents'[session].inbox[n + 1] = frame /\ DOMAIN agents'[session].inbox = 1..(n + 1)
        /\ DOMAIN Inbox(session) = 1..n
    BY <1>3, <2>1, <2>2, <2>3, Appended DEF Speaks
  <2>5. ASSUME Taking(agents'[session]), NEW i \in 1..(n + 1),
               agents'[session].inbox[i].kind \in {"commit", "index"}
        PROVE  /\ agents'[session].inbox[i].kind = "commit" =>
                    Follows(agents'[session], agents'[session].inbox[i].hash, i - 1)
               /\ agents'[session].inbox[i].kind = "index" =>
                    \E data \in reads' : Follows(agents'[session], data, i - 1)
    <3>1. i = n + 1
      <4> SUFFICES ASSUME i # n + 1
                   PROVE  FALSE
        OBVIOUS
      <4>1. i \in DOMAIN Inbox(session) /\ Inbox(session)[i].kind \in Finals
        BY <2>4, <2>5 DEF Finals, Ends
      <4> QED
        BY <1>3, <2>1, <4>1 DEF MayFollow, Unclosed
    <3>2. frame.kind \in {"commit", "index"} /\ agents'[session].inbox[i] = frame /\ i - 1 = n
      BY <2>4, <2>5, <3>1
    <3>3. Taking(agents[session])
      BY <1>3, <2>1, <2>5, <3>2, TakingMore
    <3>4. \A data \in Data : Follows(agents[session], data, n) => Follows(agents'[session], data, n)
      BY <1>3, <2>1, <2>3, FollowsMore
    <3>5. CASE frame.kind = "commit"
      <4>1. Follows(agents[session], frame.hash, n) /\ frame.hash \in Data
        BY <1>3, <2>1, <2>3, <3>3, <3>5, FrameShapes DEF EndsWhole
      <4> QED
        BY <3>2, <3>4, <3>5, <4>1
    <3>6. CASE frame.kind = "index"
      <4>1. PICK data \in reads : Follows(agents[session], data, n)
        BY <1>3, <2>1, <2>3, <3>3, <3>6 DEF EndsWhole
      <4> QED
        BY <2>2, <3>2, <3>4, <3>6, <4>1
    <3> QED
      BY <3>2, <3>5, <3>6
  <2>6. ASSUME NEW s \in Sessions, s = session
        PROVE  WholeAt(agents[s])'
    BY <2>4, <2>5, <2>6 DEF WholeAt
  <2>7. \A s \in Sessions : s # session => agents'[s] = agents[s]
    BY <2>1 DEF Speaks
  <2> QED
    BY <1>1, <2>6, <2>7
<1> QED
  BY <1>2, <1>3

Preserved == Ordered' /\ Connected' /\ Turns' /\ Whole' /\ TempGone'

\* What the client's steps in an open session have in common.
Talks ==
  /\ UNCHANGED <<source, linkVars, temp, stuck>>
  /\ reads \subseteq reads'
  /\ \/ UNCHANGED agents
     \/ \E frame \in Frames :
          /\ Speaks(frame) /\ MayFollow(frame) /\ EndsWhole(frame)
          /\ frame.kind = "commit" => frame.hash \in reads'

LEMMA TalkingKeeps ==
  ASSUME IInv, Talks, SentAsSeen', client' = "idle" => ~lapsed' \/ LeftWhole', Turns',
         ~up => ~lapsed' /\ replies' = <<>>,
         method' = "file" => resumeFrom' = 0,
         client' = "sending" => held'.time >= 0,
         client' = "resuming" => method' = "patch",
         client' \in {"idle", "indexing", "signing"} => method' = "file"
  PROVE  Preserved
<1>1. Typed /\ Ordered /\ Connected /\ Whole /\ TempGone /\ AgentsTyped /\ session \in Sessions
  BY DEF IInv, Typed
<1>2. UNCHANGED <<session, up>>
  BY DEF Talks, linkVars
<1>3. Ordered'
  BY <1>1, <1>2, SpeakingOrdered DEF Talks
<1>4. Whole'
  <2>1. LeftWhole'
    BY DEF LeftWhole
  <2> QED
    BY <1>1, <1>2, <2>1, SpeakingWhole DEF Talks, Whole
<1>5. \A s \in Sessions : agents'[s].at = agents[s].at /\ agents'[s].cut = agents[s].cut
  BY <1>1 DEF Talks, Speaks
<1>6. Connected'
  BY <1>1, <1>2, <1>5 DEF Connected, Talks
<1>7. TempGone'
  <2>1. CASE session # 1
    BY <1>2, <2>1 DEF TempGone
  <2>2. CASE session = 1
    BY <1>1, <1>2, <1>5, <2>2 DEF TempGone, Talks
  <2> QED
    BY <2>1, <2>2
<1> QED
  BY <1>3, <1>4, <1>6, <1>7 DEF Preserved

LEMMA StreamMore ==
  ASSUME Typed, up, UNCHANGED session, NEW frame \in Frames, Speaks(frame),
         InStream(session), Unclosed(session)
  PROVE  /\ InStream(session)' /\ (EndSent(session)' <=> frame.kind \in Ends)
         /\ Unclosed(session)' <=> frame.kind \notin Finals
<1>1. AgentsTyped /\ session \in Sessions /\ Inbox(session) \in Seq(Frames)
  BY DEF Typed, AgentsTyped, AgentRecords, Inbox
<1>2. PICK n \in Nat : n = Len(Inbox(session))
  BY <1>1, EmptySeq
<1>3. /\ \A i \in 1..n : agents'[session].inbox[i] = Inbox(session)[i]
      /\ agents'[session].inbox[n + 1] = frame /\ DOMAIN agents'[session].inbox = 1..(n + 1)
      /\ DOMAIN Inbox(session) = 1..n /\ agents'[session].inbox # <<>>
  <2>1. agents'[session].inbox # <<>>
    BY <1>1, AppendProperties DEF Speaks
  <2> QED
    BY <1>1, <1>2, <2>1, Appended DEF Speaks
<1>4. /\ EndSent(session)' <=> frame.kind \in Ends
      /\ Unclosed(session)' <=> frame.kind \notin Finals
  <2>1. /\ EndSent(session)' <=> \E i \in 1..(n + 1) : agents'[session].inbox[i].kind \in Ends
        /\ Unclosed(session)' <=> \A i \in 1..(n + 1) : agents'[session].inbox[i].kind \notin Finals
    BY <1>3 DEF EndSent, Unclosed, Inbox
  <2>2. \A i \in 1..n : agents'[session].inbox[i].kind \notin Finals
    BY <1>3 DEF Unclosed
  <2>3. n + 1 \in 1..(n + 1) /\ \A i \in 1..(n + 1) : i = n + 1 \/ i \in 1..n
    OBVIOUS
  <2> QED
    BY <1>3, <2>1, <2>2, <2>3 DEF Finals
<1>5. InStream(session)'
  <2>1. CASE Transferring(session)
    BY <2>1 DEF InStream, Transferring, Speaks
  <2>2. CASE Inbox(session) # <<>> /\ agents[session].at = "requests" /\ Inbox(session)[1].kind \in {"file", "patch"}
    <3>1. 1 \in 1..n
      BY <1>1, <1>2, <2>2, EmptySeq
    <3>2. agents'[session].inbox[1].kind \in {"file", "patch"}
      BY <1>3, <2>2, <3>1
    <3> QED
      BY <1>3, <2>2, <3>2 DEF InStream, Speaks, Inbox
  <2> QED
    BY <2>1, <2>2 DEF InStream
<1> QED
  BY <1>4, <1>5

LEMMA FirstFrame ==
  ASSUME Typed, up, NEW frame \in Frames, Speaks(frame), AtRest(session)
  PROVE  /\ agents'[session].at = "requests" /\ agents'[session].inbox = <<frame>>
         /\ Unclosed(session)
<1>1. Inbox(session) = <<>>
  BY DEF AtRest
<1>2. agents'[session].inbox = <<frame>>
  BY <1>1 DEF Speaks
<1> QED
  BY <1>1, <1>2 DEF AtRest, Speaks, Unclosed

\* Where the client has come to the end of an action, or to its next step, with nothing under way.
LEMMA TurnReached ==
  ASSUME UNCHANGED session, agents'[session].at = agents[session].at,
         agents'[session].inbox = Inbox(session), AtRest(session),
         client' \in {"idle", "opening"}, replies' = <<>>, ~lapsed'
  PROVE  Turns'
<1>1. AtRest(session)'
  BY DEF AtRest, Inbox
<1> QED
  BY <1>1 DEF Turns, Resting

LEMMA LookKeeps ==
  ASSUME IInv, Look
  PROVE  Preserved
<1> DEFINE frame == Request("index", 0)
<1>1. Typed /\ Connected /\ Turns /\ AgentsTyped /\ session \in Sessions
  BY DEF IInv, Typed
<1>2. frame \in Frames /\ frame.kind = "index"
  BY FrameShapes DEF RequestKinds, Request
<1>3. Speaks(frame)
  BY <1>1, <1>2, Sending DEF Look
<1> HIDE DEF frame
<1>4. /\ client = "idle" /\ client' = "indexing" /\ outcome' = "none"
      /\ UNCHANGED <<sourceVars, method, signature, seen, resumeFrom, linkVars, replies,
                     targetVars, reads, lapsed, stuck>>
  BY DEF Look
<1>5. up => WalkedAway \/ Resting
  BY <1>1, <1>4, TurnOf
<1>6. up => Unclosed(session) /\ agents[session].at # "over"
  BY <1>1, <1>4, <1>5 DEF Connected, WalkedAway, Resting, AtRest, Unclosed
<1>7. MayFollow(frame)
  BY <1>2, <1>6 DEF MayFollow, RequestKinds
<1>8. Talks
  <2>1. EndsWhole(frame)
    <3> SUFFICES ASSUME up, Taking(agents[session])
                 PROVE  \E data \in reads : Follows(agents[session], data, Len(Inbox(session)))
      BY <1>2 DEF EndsWhole
    <3>1. lapsed
      BY <1>1, <1>4 DEF Turns, Resting, AtRest, Asked, Told, Streaming, Streamed, Concluded, Asking,
                        Taking, Inbox
    <3> QED
      BY <1>4, <3>1 DEF IInv, Whole, LeftWhole
  <2> QED
    BY <1>2, <1>3, <1>4, <1>7, <2>1 DEF Talks, sourceVars, targetVars
<1>9. ASSUME up
      PROVE  Turns'
  <2>1. CASE lapsed
    <3>1. WalkedAway
      BY <1>1, <1>9, <2>1 DEF Turns
    <3>2. InStream(session)' /\ ~EndSent(session)'
      BY <1>1, <1>2, <1>3, <1>4, <1>6, <1>9, <3>1, StreamMore DEF WalkedAway, linkVars, Ends
    <3> QED
      BY <1>4, <2>1, <3>1, <3>2 DEF Turns, WalkedAway
  <2>2. CASE ~lapsed
    <3>1. Resting
      BY <1>1, <1>4, <1>9, <2>2, TurnOf DEF Turns, Asked, Told, Streaming, Streamed, Concluded, Asking
    <3>2. agents'[session].at = "requests" /\ agents'[session].inbox = <<frame>>
      BY <1>1, <1>2, <1>3, <1>9, <3>1, FirstFrame DEF Resting
    <3>3. Asked'
      BY <1>4, <3>1, <3>2 DEF Asked, Asking, Wanted, Resting, Inbox, linkVars, frame
    <3> QED
      BY <1>4, <2>2, <3>3 DEF Turns
  <2> QED
    BY <2>1, <2>2
<1>10. Turns'
  BY <1>4, <1>9 DEF Turns, linkVars
<1>11. SentAsSeen'
  BY <1>4 DEF SentAsSeen
<1>12. /\ ~up => ~lapsed' /\ replies' = <<>>
       /\ method' = "file" => resumeFrom' = 0
       /\ method' = "file"
  BY <1>1, <1>4 DEF Connected
<1> QED
  BY <1>4, <1>8, <1>10, <1>11, <1>12, TalkingKeeps

\* An action that ends where nothing is under way, or without a session.
LEMMA ReturningKeeps ==
  ASSUME IInv, NEW result, Returned(result),
         UNCHANGED <<source, linkVars, agents, temp, reads, stuck>>,
         up => AtRest(session) /\ replies' = <<>>, ~up => replies' = <<>>, ~lapsed'
  PROVE  Preserved
<1>1. client' = "idle" /\ method' = "file" /\ resumeFrom' = 0
  BY DEF Returned
<1>2. Talks
  BY DEF Talks
<1>3. Turns'
  <2>1. CASE up
    BY <1>1, <2>1, TurnReached DEF linkVars, Inbox
  <2>2. CASE ~up
    BY <2>2 DEF Turns, linkVars
  <2> QED
    BY <2>1, <2>2
<1>4. SentAsSeen'
  BY <1>1 DEF SentAsSeen
<1> QED
  BY <1>1, <1>2, <1>3, <1>4, TalkingKeeps

LEMMA GotIndexKeeps ==
  ASSUME IInv, GotIndex
  PROVE  Preserved
<1> DEFINE frame == Request("signature", 0)
<1>1. Typed /\ Connected /\ Turns /\ AgentsTyped /\ session \in Sessions
  BY DEF IInv, Typed
<1>2. /\ up /\ Answered /\ client = "indexing" /\ Asking /\ replies # <<>>
      /\ UNCHANGED <<source, writes, linkVars, targetVars, ghosts, faults>>
  BY DEF GotIndex, Answered, Asking
<1>3. Told /\ ~lapsed /\ replies' = <<>>
  BY <1>1, <1>2, Answering, TurnOf
<1>4. AtRest(session)
  BY <1>3 DEF Told
<1>5. CASE (Returned("failed") \/ Returned("none")) /\ UNCHANGED agents
  BY <1>2, <1>3, <1>4, <1>5, ReturningKeeps DEF targetVars, ghosts, meetings
<1>6. CASE /\ client' = "signing" /\ Send(frame)
           /\ UNCHANGED <<held, linked, method, signature, seen, resumeFrom, outcome>>
  <2>1. frame \in Frames /\ frame.kind = "signature"
    BY FrameShapes DEF RequestKinds, Request
  <2> HIDE DEF frame
  <2>2. Speaks(frame)
    BY <1>1, <1>6, <2>1, Sending
  <2>3. agents'[session].at = "requests" /\ agents'[session].inbox = <<frame>> /\ Unclosed(session)
    BY <1>1, <1>2, <1>4, <2>1, <2>2, FirstFrame
  <2>4. Talks
    BY <1>2, <1>4, <2>1, <2>2, <2>3
    DEF Talks, MayFollow, EndsWhole, targetVars, ghosts, meetings, AtRest
  <2>5. Asked'
    BY <1>2, <1>3, <1>6, <2>3 DEF Asked, Asking, Wanted, Inbox, linkVars, frame
  <2>6. Turns' /\ SentAsSeen'
    BY <1>2, <1>3, <1>6, <2>5 DEF Turns, SentAsSeen, ghosts, meetings
  <2> QED
    BY <1>1, <1>2, <1>3, <1>6, <2>4, <2>6, TalkingKeeps DEF linkVars, Connected
<1>7. CASE /\ client' = "opening" /\ UNCHANGED agents
           /\ UNCHANGED <<held, linked, method, signature, seen, resumeFrom, outcome>>
  <2>1. Talks
    BY <1>2, <1>7 DEF Talks, targetVars, ghosts, meetings
  <2>2. Turns' /\ SentAsSeen'
    BY <1>2, <1>3, <1>4, <1>7, TurnReached DEF SentAsSeen, linkVars, Inbox, ghosts, meetings
  <2> QED
    BY <1>1, <1>2, <1>3, <1>7, <2>1, <2>2, TalkingKeeps DEF linkVars, Connected
<1> QED
  BY <1>5, <1>6, <1>7 DEF GotIndex

LEMMA GotSignatureKeeps ==
  ASSUME IInv, GotSignature
  PROVE  Preserved
<1>1. Typed /\ Connected /\ Turns
  BY DEF IInv
<1>2. /\ up /\ Answered /\ client = "signing" /\ Asking /\ replies # <<>>
      /\ UNCHANGED <<source, writes, linkVars, agents, targetVars, ghosts, faults>>
  BY DEF GotSignature, Answered, Asking
<1>3. Told /\ ~lapsed /\ replies' = <<>>
  BY <1>1, <1>2, Answering, TurnOf
<1>4. AtRest(session)
  BY <1>3 DEF Told
<1>5. CASE Returned("failed")
  BY <1>2, <1>3, <1>4, <1>5, ReturningKeeps DEF targetVars, ghosts, meetings
<1>6. CASE client' = "opening" /\ UNCHANGED <<held, linked, seen, resumeFrom, outcome>>
  <2>1. Talks
    BY <1>2, <1>6 DEF Talks, targetVars, ghosts, meetings
  <2>2. Turns' /\ SentAsSeen'
    BY <1>2, <1>3, <1>4, <1>6, TurnReached DEF SentAsSeen, linkVars, Inbox, ghosts, meetings
  <2>3. resumeFrom' = 0
    BY <1>1, <1>2, <1>6 DEF Connected
  <2> QED
    BY <1>1, <1>2, <1>3, <1>6, <2>1, <2>2, <2>3, TalkingKeeps DEF linkVars
<1> QED
  BY <1>5, <1>6 DEF GotSignature

LEMMA GotReplyKeeps ==
  ASSUME IInv, GotReply
  PROVE  Preserved
<1>1. Typed /\ Connected /\ Turns
  BY DEF IInv
<1>2. /\ up /\ Answered /\ client = "waiting"
      /\ UNCHANGED <<source, writes, linkVars, agents, targetVars, ghosts, faults>>
  BY DEF GotReply, Answered
<1>3. Concluded /\ ~lapsed /\ replies' = <<>>
  BY <1>1, <1>2, Answering, TurnOf
<1>4. PICK result : Returned(result)
  BY DEF GotReply
<1> QED
  BY <1>2, <1>3, <1>4, ReturningKeeps DEF targetVars, ghosts, meetings, Concluded

LEMMA GotResumeStateKeeps ==
  ASSUME IInv, GotResumeState
  PROVE  Preserved
<1>1. Typed /\ Connected /\ Turns
  BY DEF IInv
<1>2. /\ client = "resuming" /\ client' = "opening" /\ Asking /\ method = "patch"
      /\ UNCHANGED <<sourceVars, method, signature, seen, outcome, linkVars, agents, targetVars, ghosts>>
  BY <1>1 DEF GotResumeState, Asking, Connected
<1>3. Talks
  BY <1>2 DEF Talks, sourceVars, targetVars, ghosts, meetings
<1>4. CASE up
  <2>1. Answered
    BY <1>4 DEF GotResumeState
  <2>2. Told /\ ~lapsed /\ replies' = <<>>
    BY <1>1, <1>2, <1>4, <2>1, Answering, TurnOf DEF Answered
  <2>3. Turns' /\ SentAsSeen'
    BY <1>2, <2>2, TurnReached DEF SentAsSeen, linkVars, Inbox, ghosts, meetings, Told
  <2> QED
    BY <1>2, <1>3, <1>4, <2>3, TalkingKeeps
<1>5. CASE ~up
  <2>1. ~lapsed /\ replies' = <<>>
    BY <1>1, <1>5 DEF GotResumeState, Answered, Connected
  <2>2. Turns' /\ SentAsSeen'
    BY <1>2, <1>5 DEF SentAsSeen, Turns, linkVars
  <2> QED
    BY <1>2, <1>3, <2>1, <2>2, TalkingKeeps DEF ghosts, meetings
<1> QED
  BY <1>4, <1>5

LEMMA OpenKeeps ==
  ASSUME IInv, Open
  PROVE  Preserved
<1> DEFINE frame == Request(method, resumeFrom)
<1>1. Typed /\ Ordered /\ Connected /\ Turns /\ AgentsTyped /\ session \in Sessions
  BY DEF IInv, Typed
<1>2. /\ client = "opening"
      /\ UNCHANGED <<source, writes, linkVars, replies, targetVars, ghosts, faults>>
  BY DEF Open
<1>3. ~lapsed /\ replies' = <<>> /\ (up => AtRest(session))
  <2>1. CASE up
    BY <1>1, <1>2, <2>1, TurnOf DEF Resting
  <2>2. CASE ~up
    BY <1>1, <1>2, <2>2 DEF Connected
  <2> QED
    BY <2>1, <2>2
<1>4. CASE Returned("failed") /\ UNCHANGED agents
  BY <1>2, <1>3, <1>4, ReturningKeeps DEF targetVars, ghosts, meetings
<1>5. CASE /\ source # Nothing /\ held' = source /\ client' = "sending" /\ seen' = <<>> /\ Send(frame)
           /\ UNCHANGED <<method, signature, resumeFrom, outcome>>
  <2>1. frame \in Frames /\ frame.kind \in {"file", "patch"} /\ frame.kind = method
    BY <1>1, FrameShapes DEF RequestKinds, Request, Typed
  <2> HIDE DEF frame
  <2>2. Speaks(frame)
    BY <1>1, <1>5, <2>1, Sending
  <2>3. up => /\ agents'[session].at = "requests" /\ agents'[session].inbox = <<frame>>
              /\ Unclosed(session)
    BY <1>1, <1>3, <2>1, <2>2, FirstFrame
  <2>4. Talks
    BY <1>2, <1>3, <2>1, <2>2, <2>3
    DEF Talks, MayFollow, EndsWhole, targetVars, ghosts, meetings, AtRest
  <2>5. ASSUME up
        PROVE  Streaming'
    <3>1. agents'[session].inbox = <<frame>> /\ UNCHANGED session
      BY <1>2, <2>3, <2>5 DEF linkVars
    <3>2. /\ agents'[session].inbox # <<>> /\ agents'[session].inbox[1] = frame
          /\ \A i \in DOMAIN agents'[session].inbox : agents'[session].inbox[i] = frame
      BY <3>1
    <3>3. InStream(session)'
      BY <2>1, <2>3, <2>5, <3>1, <3>2 DEF InStream, Inbox
    <3>4. Unclosed(session)'
      BY <2>1, <3>1, <3>2 DEF Unclosed, Inbox, Finals, Ends
    <3> QED
      BY <1>2, <1>3, <1>5, <3>3, <3>4 DEF Streaming
  <2>6. Turns'
    BY <1>2, <1>3, <2>5 DEF Turns, linkVars, ghosts, meetings
  <2>7. ASSUME up, Taking(agents'[session])
        PROVE  method = "file" /\ Follows(agents'[session], <<>>, Len(agents'[session].inbox))
    <3>1. /\ agents'[session].at = "requests" /\ agents'[session].inbox[1] = frame
          /\ Len(agents'[session].inbox) = 1
      BY <2>3, <2>7
    <3>2. agents'[session].hash = <<>>
      BY <1>1, <1>3, <2>2, <2>7 DEF Ordered, OrderedAt, AtRest, Speaks
    <3> QED
      BY <2>1, <2>7, <3>1, <3>2 DEF Taking, Follows, Ahead
  <2>8. SentAsSeen'
    BY <1>2, <1>5, <2>7 DEF SentAsSeen, linkVars, Inbox
  <2>9. held'.time >= 0 /\ (method' = "file" => resumeFrom' = 0)
    BY <1>1, <1>5 DEF Connected
  <2> QED
    BY <1>2, <1>3, <1>5, <2>4, <2>6, <2>8, <2>9, TalkingKeeps DEF ghosts, meetings
<1> QED
  BY <1>4, <1>5 DEF Open

LEMMA GiveUpKeeps ==
  ASSUME IInv, GiveUp
  PROVE  Preserved
<1>1. ~up /\ ~lapsed /\ replies = <<>>
  BY DEF IInv, Connected, GiveUp
<1> QED
  BY <1>1, ReturningKeeps DEF GiveUp, targetVars, ghosts, meetings

LEMMA SendBlockKeeps ==
  ASSUME IInv, SendBlock
  PROVE  Preserved
<1> DEFINE block == held.data[Len(seen) + 1]
<1>1. Typed /\ Connected /\ Turns /\ Whole /\ AgentsTyped /\ session \in Sessions
  BY DEF IInv, Typed
<1>2. /\ client = "sending" /\ up /\ ~AtEnd /\ seen' = Append(seen, block)
      /\ UNCHANGED <<sourceVars, client, method, signature, resumeFrom, outcome, linkVars, replies,
                     targetVars, ghosts, faults>>
  BY DEF SendBlock
<1>3. Streaming /\ ~lapsed
  BY <1>1, <1>2, TurnOf
<1>4. /\ block \in Nat /\ Len(seen) \in Nat /\ seen \in Data
      /\ \A token \in Tokens(block) :
           /\ token \in Frames /\ token.kind \in {"literal", "copy"}
           /\ method = "file" => token = Literal(block)
  BY <1>1, <1>2, BlockRead DEF Typed
<1>5. CASE Len(seen) < resumeFrom /\ UNCHANGED agents
  <2>1. Talks
    BY <1>2, <1>5 DEF Talks, sourceVars, targetVars, ghosts, meetings
  <2>2. Turns'
    <3>1. Streaming'
      BY <1>2, <1>3, <1>5 DEF Streaming, InStream, Unclosed, Inbox, Transferring, linkVars
    <3> QED
      BY <1>2, <1>3, <3>1 DEF Turns, ghosts, meetings
  <2>3. SentAsSeen'
    <3>1. ~Taking(agents[session])
      BY <1>1, <1>2, <1>4, <1>5 DEF Whole, SentAsSeen, Connected
    <3> QED
      BY <1>2, <1>5, <3>1 DEF SentAsSeen, linkVars
  <2> QED
    BY <1>1, <1>2, <1>3, <2>1, <2>2, <2>3, TalkingKeeps
    DEF Connected, Streaming, ghosts, meetings, sourceVars, linkVars
<1>6. CASE \E token \in Tokens(block) : Send(token)
  <2>1. PICK token \in Tokens(block) : Send(token)
    BY <1>6
  <2>2. token \in Frames /\ token.kind \in {"literal", "copy"} /\ Speaks(token)
    BY <1>1, <1>4, <2>1, Sending
  <2>3. Unclosed(session) /\ InStream(session) /\ agents[session].at # "over"
    BY <1>1, <1>2, <1>3 DEF Streaming, Connected
  <2>4. Talks
    BY <1>2, <2>2, <2>3
    DEF Talks, MayFollow, EndsWhole, RequestKinds, sourceVars, targetVars, ghosts, meetings
  <2>5. InStream(session)' /\ Unclosed(session)'
    BY <1>1, <1>2, <2>2, <2>3, StreamMore DEF Finals, Ends, linkVars
  <2>6. Turns'
    BY <1>2, <1>3, <2>5 DEF Turns, Streaming, ghosts, meetings
  <2>7. ASSUME Taking(agents'[session])
        PROVE  method = "file" /\ Follows(agents'[session], seen', Len(agents'[session].inbox))
    <3>1. Taking(agents[session]) /\ (Inbox(session) # <<>> \/ agents[session].at # "requests")
      BY <1>1, <1>2, <2>2, <2>7, TakingMore
    <3>2. method = "file" /\ Follows(agents[session], seen, Len(Inbox(session)))
      BY <1>1, <1>2, <3>1 DEF Whole, SentAsSeen
    <3>3. token = Literal(block)
      BY <1>4, <2>1, <3>2
    <3> HIDE DEF block
    <3>4. Speaks(Literal(block))
      BY <2>2, <3>3
    <3>5. Follows(agents'[session], Append(seen, block), Len(agents'[session].inbox))
      BY <1>1, <1>2, <1>4, <3>1, <3>2, <3>4, FollowsBlock
    <3> QED
      BY <1>2, <3>2, <3>5
  <2>8. SentAsSeen'
    BY <1>2, <2>7 DEF SentAsSeen, linkVars, Inbox
  <2> QED
    BY <1>1, <1>2, <1>3, <2>4, <2>6, <2>8, TalkingKeeps
    DEF Connected, Streaming, ghosts, meetings, sourceVars, linkVars
<1> QED
  BY <1>5, <1>6 DEF SendBlock

\* The end of a stream goes out.
LEMMA EndingKeeps ==
  ASSUME IInv, client = "sending", up, NEW frame \in Frames, frame.kind \in Ends, Send(frame),
         frame.kind = "commit" => frame.hash = seen /\ seen \in reads',
         reads \subseteq reads', client' = "waiting",
         UNCHANGED <<sourceVars, method, signature, seen, resumeFrom, outcome, linkVars, replies,
                     targetVars, steady, lapsed, stuck>>
  PROVE  Preserved
<1>1. Typed /\ Connected /\ Turns /\ Whole /\ AgentsTyped /\ session \in Sessions
  BY DEF IInv, Typed
<1>2. Streaming /\ ~lapsed /\ Unclosed(session) /\ InStream(session) /\ agents[session].at # "over"
  BY <1>1, TurnOf DEF Streaming, Connected
<1>3. Speaks(frame)
  BY <1>1, Sending
<1>4. Taking(agents[session]) => Follows(agents[session], seen, Len(Inbox(session)))
  BY <1>1 DEF Whole, SentAsSeen
<1>5. MayFollow(frame)
  BY <1>2 DEF MayFollow, RequestKinds, Ends
<1>6. Talks
  BY <1>3, <1>4, <1>5 DEF Talks, EndsWhole, Ends, sourceVars, targetVars
<1>7. InStream(session)' /\ EndSent(session)'
  BY <1>1, <1>2, <1>3, StreamMore DEF linkVars
<1>8. Turns'
  BY <1>2, <1>7 DEF Turns, Streaming, Streamed
<1>9. SentAsSeen'
  BY DEF SentAsSeen
<1> QED
  BY <1>1, <1>2, <1>6, <1>8, <1>9, TalkingKeeps DEF Connected, linkVars

LEMMA EndsKeep ==
  ASSUME IInv, SendCommit \/ SendAbort
  PROVE  Preserved
<1>1. Typed /\ FilesTyped
  BY DEF IInv, Typed
<1>2. CASE SendCommit
  <2>1. Commit(Stamped.time, seen) \in Frames
    BY <1>1, FrameShapes, FileShapes DEF Stamped, Typed, FilesTyped
  <2> QED
    BY <1>2, <2>1, EndingKeeps DEF SendCommit, Commit, Ends
<1>3. CASE SendAbort
  BY <1>3, FrameShapes, EndingKeeps DEF SendAbort, Abort, Ends, ghosts, meetings
<1> QED
  BY <1>2, <1>3

\* The one way out of a stream that leaves it unended.
LEMMA NoStampKeeps ==
  ASSUME IInv, NoStamp
  PROVE  Preserved
<1>1. Typed /\ Connected /\ Turns
  BY DEF IInv
<1>2. /\ client = "sending" /\ up /\ Returned("failed") /\ lapsed'
      /\ reads' = reads \cup {seen}
      /\ UNCHANGED <<source, writes, linkVars, agents, replies, targetVars, steady, stuck>>
  BY DEF NoStamp
<1>3. Streaming
  BY <1>1, <1>2, TurnOf
<1>4. Talks
  BY <1>2 DEF Talks, targetVars
<1>5. WalkedAway'
  <2>1. Unclosed(session) => ~EndSent(session)
    BY DEF Unclosed, EndSent, Finals
  <2>2. /\ EndSent(session)' = EndSent(session) /\ Unclosed(session)' = Unclosed(session)
        /\ InStream(session)' = InStream(session)
    BY <1>2 DEF EndSent, Unclosed, InStream, Transferring, Inbox, linkVars
  <2> QED
    BY <1>2, <1>3, <2>1, <2>2 DEF WalkedAway, Streaming, Returned
<1>6. Turns' /\ SentAsSeen'
  BY <1>2, <1>5 DEF Turns, SentAsSeen, Returned
<1>7. LeftWhole'
  BY <1>2 DEF IInv, Whole, SentAsSeen, LeftWhole, Inbox, linkVars
<1> QED
  BY <1>2, <1>4, <1>6, <1>7, TalkingKeeps DEF Returned

\* A new session begins where the client wants it to: nothing is under way, or what it asks for.
LEMMA ReopeningKeeps ==
  ASSUME IInv, NEW requests \in Seq(Frames), Reopened(requests), UNCHANGED <<method, resumeFrom>>,
         \/ client' = "opening" /\ requests = <<>>
         \/ Asking' /\ requests = <<Request(Wanted', 0)>>,
         client' = "resuming" => method = "patch",
         client' \in {"indexing", "signing"} => method = "file"
  PROVE  Preserved
<1>1. Typed /\ Ordered /\ Connected /\ Whole /\ AgentsTyped /\ session \in Sessions
  BY DEF IInv, Typed
<1>2. Reconnected(requests)
  BY <1>1, Reopening
<1>3. /\ ~up /\ up' /\ ~lapsed' /\ replies' = <<>> /\ session' # 1 /\ session' > session
      /\ UNCHANGED <<source, outcome, temp, reads>>
  <2>1. ~up /\ up' /\ UNCHANGED <<source, outcome, replies, targetVars, reads, lapsed>>
    BY DEF Reopened, ghosts
  <2>2. session' # 1 /\ session' > session
    BY <1>1, <1>2 DEF Reconnected, Sessions
  <2> QED
    BY <1>1, <2>1, <2>2 DEF Connected, targetVars
<1>4. \A i \in DOMAIN requests : i = 1 /\ requests[i].kind \in RequestKinds
  BY DEF Request, RequestKinds, Wanted
<1>5. client' # "sending"
  BY DEF Asking
<1>6. Ordered'
  <2> SUFFICES ASSUME NEW t \in Sessions
               PROVE  OrderedAt(t)'
    BY DEF Ordered
  <2>1. CASE t = session'
    <3>1. DOMAIN requests \subseteq {1} /\ \A i \in DOMAIN requests : i = Len(requests)
      BY <1>4
    <3> QED
      BY <1>2, <1>4, <2>1, <3>1 DEF OrderedAt, Reconnected, Inbox, RequestKinds, Finals, Ends
  <2>2. CASE t # session'
    <3>1. OrderedAt(t) /\ agents'[t] = agents[t]
      BY <1>1, <1>2, <2>2 DEF Ordered, Reconnected
    <3> QED
      BY <1>3, <3>1 DEF OrderedAt, Inbox, Transferring
  <2> QED
    BY <2>1, <2>2
<1>7. Connected'
  <2>1. \A t \in Sessions : t > session' => agents'[t].at = "over"
    BY <1>1, <1>2, <1>3 DEF Connected, Reconnected, Sessions
  <2>2. agents'[session'].cut = FALSE /\ up' = TRUE /\ agents'[session'].at # "over"
    BY <1>2 DEF Reconnected, Reopened
  <2>3. client' \in {"opening", "indexing", "signing", "resuming"}
    BY DEF Asking
  <2> QED
    BY <1>1, <1>3, <2>1, <2>2, <2>3 DEF Connected
<1>8. Turns'
  <2>1. CASE client' = "opening" /\ requests = <<>>
    BY <1>2, <1>3, <2>1 DEF Turns, Resting, AtRest, Inbox, Reconnected
  <2>2. CASE Asking' /\ requests = <<Request(Wanted', 0)>>
    BY <1>2, <1>3, <2>2 DEF Turns, Asked, Inbox, Reconnected
  <2> QED
    BY <2>1, <2>2
<1>9. Whole'
  <2>1. \A t \in Sessions : WholeAt(agents[t])'
    <3> SUFFICES ASSUME NEW t \in Sessions
                 PROVE  WholeAt(agents[t])'
      OBVIOUS
    <3>1. CASE t = session'
      <4>1. requests # <<>> => requests[1].kind # "file"
        BY DEF Request, Wanted
      <4>2. ~Taking(agents'[t])
        BY <1>2, <3>1, <4>1 DEF Taking, Reconnected
      <4> QED
        BY <4>2 DEF WholeAt
    <3>2. CASE t # session'
      <4>1. WholeAt(agents[t]) /\ agents'[t] = agents[t]
        BY <1>1, <1>2, <3>2 DEF Whole, Reconnected
      <4> QED
        BY <1>3, <4>1 DEF WholeAt
    <3> QED
      BY <3>1, <3>2
  <2>2. SentAsSeen' /\ LeftWhole'
    BY <1>3, <1>5 DEF SentAsSeen, LeftWhole
  <2> QED
    BY <2>1, <2>2 DEF Whole
<1>10. TempGone'
  BY <1>3 DEF TempGone
<1> QED
  BY <1>6, <1>7, <1>8, <1>9, <1>10 DEF Preserved

LEMMA RestartsKeep ==
  ASSUME IInv, ReissueRequest \/ RestartFile \/ RestartPatch
  PROVE  Preserved
<1>1. Connected
  BY DEF IInv
<1>2. \A kind \in RequestKinds : <<Request(kind, 0)>> \in Seq(Frames)
  <2> SUFFICES ASSUME NEW kind \in RequestKinds
               PROVE  <<Request(kind, 0)>> \in Seq(Frames)
    OBVIOUS
  <2>1. Request(kind, 0) \in Frames
    BY FrameShapes
  <2> HIDE DEF Frames
  <2> QED
    BY <2>1
<1>3. CASE ReissueRequest
  <2>1. /\ client' = client /\ client \in {"indexing", "signing"}
        /\ UNCHANGED <<method, resumeFrom>> /\ Asking'
        /\ Wanted' = IF client = "indexing" THEN "index" ELSE "signature"
    BY <1>3 DEF ReissueRequest, Wanted, Asking
  <2>2. Reopened(<<Request(Wanted', 0)>>) /\ Wanted' \in RequestKinds
    BY <1>3, <2>1 DEF ReissueRequest, RequestKinds
  <2>3. client' = "resuming" => method = "patch"
    BY <2>1
  <2>4. method = "file"
    BY <1>1, <2>1 DEF Connected
  <2> QED
    BY <1>2, <2>1, <2>2, <2>3, <2>4, ReopeningKeeps
<1>4. CASE RestartFile
  <2>1. /\ client' = "opening" /\ UNCHANGED <<method, resumeFrom>> /\ Reopened(<<>>)
        /\ <<>> \in Seq(Frames)
    BY <1>4 DEF RestartFile, Restarted
  <2> QED
    BY <2>1, ReopeningKeeps
<1>5. CASE RestartPatch
  <2>1. /\ client' = "resuming" /\ method = "patch" /\ UNCHANGED <<method, resumeFrom>>
        /\ Asking' /\ Wanted' = "resume" /\ Reopened(<<Request(Wanted', 0)>>)
    BY <1>5 DEF RestartPatch, Restarted, Asking, Wanted
  <2>2. Wanted' \in RequestKinds
    BY <2>1 DEF RequestKinds
  <2> QED
    BY <1>2, <2>1, <2>2, ReopeningKeeps
<1> QED
  BY <1>3, <1>4, <1>5

LEMMA DropKeeps ==
  ASSUME IInv, Drop
  PROVE  Preserved
<1>1. Typed /\ Ordered /\ Connected /\ Whole /\ TempGone /\ AgentsTyped /\ session \in Sessions
  BY DEF IInv, Typed
<1>2. /\ up /\ ~up' /\ session <= MaxDrops /\ ~lapsed' /\ replies' = <<>>
      /\ UNCHANGED <<sourceVars, clientVars, session, targetVars, reads, steady, stuck, meetings,
                     faults>>
  BY DEF Drop
<1>3. PICK n \in Nat : n = Len(agents'[session].inbox) /\ n <= Len(Inbox(session))
  BY <1>1, Dropping
<1>4. /\ DOMAIN agents'[session].inbox = 1..n /\ DOMAIN Inbox(session) = 1..Len(Inbox(session))
      /\ Len(Inbox(session)) \in Nat
      /\ \A i \in 1..n : i \in 1..Len(Inbox(session)) /\ agents'[session].inbox[i] = Inbox(session)[i]
  <2>1. AgentsTyped' /\ session' = session
    BY <1>1, <1>2, Dropping
  <2>2. agents'[session].inbox \in Seq(Frames) /\ Inbox(session) \in Seq(Frames)
    BY <1>1, <2>1 DEF AgentsTyped, AgentRecords, Inbox
  <2>3. \A i \in 1..n : agents'[session].inbox[i] = Inbox(session)[i]
    BY <1>1, <1>3, Dropping
  <2> QED
    BY <1>3, <2>2, <2>3, LenProperties
<1>5. /\ \A t \in Sessions \ {session} : agents'[t] = agents[t]
      /\ agents'[session].at = agents[session].at /\ agents'[session].cut
      /\ agents'[session].hand = agents[session].hand
      /\ agents'[session].hash = agents[session].hash
      /\ agents'[session].refused = agents[session].refused
  BY <1>1, Dropping
<1>6. Ordered'
  <2> SUFFICES ASSUME NEW t \in Sessions
               PROVE  OrderedAt(t)'
    BY DEF Ordered
  <2>1. OrderedAt(t)
    BY <1>1 DEF Ordered
  <2>2. CASE t # session
    BY <1>2, <1>5, <2>1, <2>2 DEF OrderedAt, Inbox, Transferring
  <2>3. CASE t = session
    <3>1. agents[t].at # "over"
      BY <1>1, <1>2, <2>3 DEF Connected
    <3>2. \A i \in 1..n :
            /\ agents'[t].inbox[i].kind \in Finals => i = n
            /\ agents'[t].inbox[i].kind \in RequestKinds \ {"index"} => i = 1 /\ agents[t].at = "requests"
            /\ agents'[t].inbox[i].kind = "commit" => agents'[t].inbox[i].hash \in reads
      BY <1>3, <1>4, <2>1, <2>3 DEF OrderedAt
    <3> QED
      BY <1>2, <1>3, <1>4, <1>5, <2>1, <2>3, <3>1, <3>2 DEF OrderedAt, Inbox, Transferring
  <2> QED
    BY <2>2, <2>3
<1>7. Connected'
  BY <1>1, <1>2, <1>5 DEF Connected, sourceVars, clientVars, Sessions
<1>8. Whole'
  <2>1. WholeAt(agents[session])'
    <3> SUFFICES ASSUME Taking(agents'[session]), NEW i \in 1..n
                 PROVE  /\ agents'[session].inbox[i].kind = "commit" =>
                             Follows(agents'[session], agents'[session].inbox[i].hash, i - 1)
                        /\ agents'[session].inbox[i].kind = "index" =>
                             \E data \in reads : Follows(agents'[session], data, i - 1)
      BY <1>2, <1>4 DEF WholeAt
    <3>1. 1 \in 1..n /\ Inbox(session) # <<>>
      BY <1>4
    <3>2. Taking(agents[session])
      BY <1>4, <1>5, <3>1 DEF Taking, Inbox
    <3>3. /\ Inbox(session)[i].kind = "commit" => Follows(agents[session], Inbox(session)[i].hash, i - 1)
          /\ Inbox(session)[i].kind = "index" =>
               \E data \in reads : Follows(agents[session], data, i - 1)
      BY <1>1, <1>4, <3>2 DEF Whole, WholeAt, Inbox
    <3>4. \A j \in 1..(i - 1) : j \in 1..n
      OBVIOUS
    <3>5. \A data : Follows(agents[session], data, i - 1) => Follows(agents'[session], data, i - 1)
      BY <1>4, <1>5, <3>4 DEF Follows, Ahead, Inbox
    <3> QED
      BY <1>4, <3>3, <3>5
  <2>2. ASSUME NEW t \in Sessions, t # session
        PROVE  WholeAt(agents[t])'
    <3>1. WholeAt(agents[t]) /\ agents'[t] = agents[t]
      BY <1>1, <1>5, <2>2 DEF Whole
    <3> QED
      BY <1>2, <3>1 DEF WholeAt
  <2> QED
    BY <1>2, <2>1, <2>2 DEF Whole, SentAsSeen, LeftWhole
<1>9. TempGone' /\ Turns'
  BY <1>1, <1>2, <1>5 DEF TempGone, Turns, targetVars
<1> QED
  BY <1>6, <1>7, <1>8, <1>9 DEF Preserved

\* Whatever becomes of the source, the two ends stand as they stood.
LEMMA StandingKeeps ==
  ASSUME IInv,
         UNCHANGED <<client, method, seen, resumeFrom, outcome, linkVars, agents, replies, temp,
                     reads, lapsed, stuck>>,
         source' # Nothing => source'.time >= 0, client = "sending" => held'.time >= 0
  PROVE  Preserved
<1>1. Ordered /\ Connected /\ Turns /\ Whole /\ TempGone
  BY DEF IInv
<1>2. Ordered'
  BY <1>1 DEF Ordered, OrderedAt, Inbox, Transferring
<1>3. Connected' /\ TempGone'
  BY <1>1 DEF Connected, TempGone, linkVars
<1>4. Turns'
  BY <1>1 DEF Turns, WalkedAway, Resting, Asked, Told, Streaming, Streamed, Concluded, Asking, Wanted,
              AtRest, InStream, EndSent, Unclosed, Inbox, Transferring, linkVars
<1>5. Whole'
  BY <1>1 DEF Whole, WholeAt, SentAsSeen, LeftWhole, Inbox, linkVars
<1> QED
  BY <1>2, <1>3, <1>4, <1>5 DEF Preserved

LEMMA EnvironmentKeeps ==
  ASSUME IInv, Environment
  PROVE  Preserved
<1>1. Typed /\ Connected
  BY DEF IInv
<1>2. writes \in Nat /\ Written
  BY <1>1, TransferBounds DEF Typed, Environment, Rewrite, Replace, Unlink
<1>3. source' = Nothing \/ \E data : source' = File(data, writes + 1)
  BY DEF Environment, Rewrite, Replace, Unlink
<1>4. source' # Nothing => source'.time >= 0
  BY <1>2, <1>3 DEF File
<1>5. held' = held \/ (held' = source' /\ \E data : source' = File(data, writes + 1))
  BY DEF Environment, Rewrite, Replace, Unlink
<1>6. client = "sending" => held'.time >= 0
  BY <1>1, <1>2, <1>5 DEF Connected, File
<1> QED
  BY <1>2, <1>4, <1>6, StandingKeeps DEF Written, clientVars, targetVars

\* Every step of either end keeps the conversation in order.
LEMMA Inductive == IInv /\ [Next]_vars => IInv'
<1> SUFFICES ASSUME IInv, [Next]_vars
             PROVE  IInv'
  OBVIOUS
<1>1. Typed'
  BY TypedInductive
<1>2. Preserved
  <2>1. CASE Environment
    BY <2>1, EnvironmentKeeps
  <2>2. CASE Look \/ GotIndex \/ GotSignature \/ GotReply \/ GotResumeState \/ Open
    BY <2>2, LookKeeps, GotIndexKeeps, GotSignatureKeeps, GotReplyKeeps, GotResumeStateKeeps, OpenKeeps
  <2>3. CASE SendBlock \/ SendCommit \/ NoStamp \/ SendAbort \/ GiveUp
    BY <2>3, SendBlockKeeps, EndsKeep, NoStampKeeps, GiveUpKeeps
  <2>4. CASE ReissueRequest \/ RestartFile \/ RestartPatch \/ Drop
    BY <2>4, RestartsKeep, DropKeeps
  <2>5. CASE \E s \in Sessions : AgentStep(s) \/ Killed(s)
    BY <2>5, AgentKeeps DEF Preserved
  <2>6. CASE UNCHANGED vars
    <3>1. Connected
      BY DEF IInv
    <3> QED
      BY <2>6, <3>1, StandingKeeps
      DEF vars, sourceVars, clientVars, targetVars, ghosts, meetings, Connected
  <2> QED
    BY <2>1, <2>2, <2>3, <2>4, <2>5, <2>6 DEF Next, Client
<1> QED
  BY <1>1, <1>2 DEF IInv, Preserved

LEMMA Initial == Init => IInv
<1> SUFFICES ASSUME Init
             PROVE  IInv
  OBVIOUS
<1>1. \A data \in Contents : data \in Data
  <2> TAKE data \in Contents
  <2>1. data \in Seq(Nat \ {0})
    BY ContentsAssumption
  <2> QED
    BY <2>1, SeqMonotonic DEF Data
<1>2. /\ 1 \in Sessions /\ 0 \in 0..MaxWrites /\ 0 \in 0..MaxFaults
  BY TransferBounds DEF Sessions
<1>3. FilesTyped /\ source.time = 0
  BY <1>1, FileShapes DEF Init, FilesTyped, Unstamped, File
<1>4. /\ Agent \in AgentRecords /\ [Agent EXCEPT !.at = "over"] \in AgentRecords
      /\ Agent.inbox = <<>> /\ [Agent EXCEPT !.at = "over"].inbox = <<>>
      /\ Agent.at = "requests" /\ [Agent EXCEPT !.at = "over"].at = "over"
      /\ Agent.hand = "none" /\ [Agent EXCEPT !.at = "over"].hand = "none"
      /\ Agent.hash = <<>> /\ Agent.cut = FALSE
  BY AgentShapes DEF Agent, AgentRecords, Places
<1>5. /\ agents[1] = Agent /\ \A s \in Sessions : s # 1 => agents[s] = [Agent EXCEPT !.at = "over"]
      /\ AgentsTyped /\ \A s \in Sessions : agents[s].inbox = <<>> /\ agents[s].hand = "none"
  BY <1>2, <1>4 DEF Init, AgentsTyped
<1>6. Typed
  <2>1. dest.data \in Data /\ replies \in Seq(Replies)
    BY <1>3, FileShapes DEF FilesTyped, Init
  <2>2. reads \in SUBSET Data
    BY <2>1 DEF Init
  <2> QED
    BY <1>2, <1>3, <1>5, <2>1, <2>2, FileShapes DEF Init, Typed, Steps
<1>7. Ordered
  <2>1. \A s \in Sessions : DOMAIN agents[s].inbox = {}
    BY <1>5
  <2>2. \A s \in Sessions : agents[s].hash = <<>> \/ agents[s].at = "over"
    BY <1>4, <1>5
  <2> QED
    BY <1>5, <2>1, <2>2 DEF Ordered, OrderedAt, Inbox
<1>8. Connected
  <2>1. \A s \in Sessions : s > 1 => agents[s].at = "over"
    <3>1. \A s \in Sessions : s > 1 => s # 1
      BY DEF Sessions
    <3> QED
      BY <1>4, <1>5, <3>1
  <2>2. session = 1 /\ up = TRUE /\ agents[1].cut = FALSE /\ agents[1].at = "requests"
    BY <1>4, <1>5 DEF Init
  <2>3. client = "idle" /\ method = "file" /\ resumeFrom = 0
    BY DEF Init
  <2>4. \A s \in Sessions : s > session => agents[s].at = "over"
    BY <2>1, <2>2
  <2>5. agents[session].cut = ~up /\ agents[session].at # "over"
    BY <2>2
  <2>6. source.time >= 0
    BY <1>3
  <2> QED
    BY <2>2, <2>3, <2>4, <2>5, <2>6 DEF Connected
<1>9. Turns
  BY <1>4, <1>5 DEF Init, Turns, Resting, AtRest, Inbox
<1>10. Whole
  <2>1. \A s \in Sessions : DOMAIN agents[s].inbox = {}
    BY <1>5
  <2> QED
    BY <2>1 DEF Init, Whole, SentAsSeen, LeftWhole, WholeAt
<1>11. TempGone
  BY DEF Init, TempGone
<1> QED
  BY <1>6, <1>7, <1>8, <1>9, <1>10, <1>11 DEF IInv

LEMMA Invariance == Spec => []IInv
BY Initial, Inductive, PTL DEF Spec

-----------------------------------------------------------------------------
(* Whatever lingers *)

\* The variables of both ends keep their types, no reply is under way but the one the client
\* waits for, and an agent that is not in the middle of a transfer has nothing open, for any
\* contents and any number of writes, faults and lost sessions.
THEOREM TransferTypes == Spec => []TypeOK
<1>1. ASSUME IInv
      PROVE  TypeOK
  <2>1. Typed /\ Ordered /\ Turns /\ Connected /\ AgentsTyped
    BY <1>1 DEF IInv, Typed
  <2>2. Len(replies) <= 1
    <3>1. replies = <<>> \/ Len(replies) = 1
      BY <2>1 DEF Turns, Connected, WalkedAway, Resting, Asked, Told, Streaming, Streamed, Concluded
    <3> QED
      BY <3>1
  <2>3. ASSUME NEW s \in Sessions
        PROVE  /\ agents[s].at \in {"requests", "chunks", "tokens", "over"}
               /\ agents[s].hand \in {"none", "temp", "dest", "unlinked"}
               /\ agents[s].hand # "none" => Transferring(s)
               /\ IsFile(agents[s].existing) /\ agents[s].hash \in Data
    BY <2>1 DEF Ordered, OrderedAt, AgentsTyped, AgentRecords, Places, Hands, IsFile, Files
  <2> QED
    BY <2>1, <2>2, <2>3 DEF TypeOK, Typed, FilesTyped, IsFile, Files, Steps
<1> QED
  BY <1>1, Invariance, PTL

\* When an action is over and its session lives, the agent waits for a request and nothing is
\* under way: write_file and patch_file end every stream they begin, and receive_file and
\* receive_patch read every stream to its end, also after a refusal, a failure or an abort.
\* The exception is the stream whose time could not be taken: send_file and send_patch walk away
\* from it.
THEOREM TransferKeepsTurns == Spec => []TurnsKept
<1>1. ASSUME IInv
      PROVE  TurnsKept
  BY <1>1, TurnOf DEF IInv, TurnsKept, Turns, WalkedAway, Resting, Asked, Told, Streaming, Streamed,
                   Concluded, Asking, AtRest, Inbox
<1> QED
  BY <1>1, Invariance, PTL

\* A transfer that has failed over a link that holds leaves no temporary but one that could not
\* be removed: receive_file and receive_patch remove it whatever failed, and read the stream to
\* its end before they do.
THEOREM TransferLeavesNothing == Spec => []NothingLeftBehind
<1>1. ASSUME IInv
      PROVE  NothingLeftBehind
  BY <1>1 DEF IInv, NothingLeftBehind, TempGone, Turns, WalkedAway, Resting, Asked, Told, Streaming,
              Streamed, Concluded, Asking, AtRest
<1> QED
  BY <1>1, Invariance, PTL

-----------------------------------------------------------------------------
(* Two agents and one temporary *)

\* Until two agents have had one temporary, no handle is of what is at the destination, one at
\* most of what is at the temporary's path, and what that one has hashed is there.
HeldAlone ==
  \A s \in Sessions :
    /\ agents[s].hand # "dest"
    /\ agents[s].hand = "temp" => \A t \in Sessions \ {s} : agents[t].hand # "temp"
Vouched(agent, file) ==
  agent.at \in {"chunks", "tokens"} /\ ~agent.refused =>
    agent.hand = "unlinked" \/ (agent.hand = "temp" /\ file.data = agent.hash)
VouchedEach == \A s \in Sessions : Vouched(agents[s], temp)
VouchedFor == ~crossed => HeldAlone /\ VouchedEach
Vouching == IInv /\ VouchedFor

\* What an agent goes by besides its inbox.
Standing(s) ==
  /\ agents'[s].at = agents[s].at /\ agents'[s].hand = agents[s].hand
  /\ agents'[s].hash = agents[s].hash /\ agents'[s].refused = agents[s].refused

\* The other agents keep their handles, and the temporary is as it was to one that has it; or
\* they have lost it.
Yields(s) ==
  \A t \in Sessions \ {s} :
    /\ agents'[t].at = agents[t].at /\ agents'[t].hash = agents[t].hash
    /\ agents'[t].refused = agents[t].refused
    /\ \/ agents'[t].hand = "unlinked"
       \/ /\ agents'[t].hand = agents[t].hand
          /\ agents[t].hand = "temp" => UNCHANGED temp /\ agents'[s].hand # "temp"

LEMMA YieldingVouches ==
  ASSUME HeldAlone, VouchedEach, NEW s \in Sessions, Yields(s),
         agents'[s].hand # "dest", Vouched(agents'[s], temp')
  PROVE  HeldAlone' /\ VouchedEach'
<1>1. HeldAlone'
  BY DEF HeldAlone, Yields
<1>2. \A t \in Sessions : Vouched(agents'[t], temp')
  BY DEF VouchedEach, Vouched, Yields
<1> QED
  BY <1>1, <1>2 DEF VouchedEach, Vouched

LEMMA Yielding ==
  ASSUME Typed, HeldAlone, NEW s \in Sessions,
         \/ /\ \A t \in Sessions \ {s} : agents'[t] = agents[t]
            /\ agents[s].hand = "temp" \/ (UNCHANGED temp /\ agents'[s].hand # "temp")
         \/ /\ \A t \in Sessions \ {s} : agents'[t] = agents[t] /\ agents[t].hand # "temp"
         \/ \A t \in Sessions \ {s} : agents'[t] = TemporaryUnlinked[t]
         \/ agents[s].hand = "temp" /\ \A t \in Sessions \ {s} : agents'[t] = TemporaryRenamed[t]
  PROVE  Yields(s)
<1>1. AgentsTyped /\ \A t \in Sessions : agents[t] \in AgentRecords
  BY DEF Typed, AgentsTyped
<1>2. CASE /\ \A t \in Sessions \ {s} : agents'[t] = agents[t]
           /\ agents[s].hand = "temp" \/ (UNCHANGED temp /\ agents'[s].hand # "temp")
  BY <1>2 DEF Yields, HeldAlone
<1>3. CASE \A t \in Sessions \ {s} : agents'[t] = agents[t] /\ agents[t].hand # "temp"
  BY <1>3 DEF Yields
<1>4. CASE \A t \in Sessions \ {s} : agents'[t] = TemporaryUnlinked[t]
  <2>1. \A t \in Sessions :
          /\ TemporaryUnlinked[t].at = agents[t].at /\ TemporaryUnlinked[t].hash = agents[t].hash
          /\ TemporaryUnlinked[t].refused = agents[t].refused
          /\ TemporaryUnlinked[t].hand = IF agents[t].hand = "temp" THEN "unlinked" ELSE agents[t].hand
    BY <1>1 DEF TemporaryUnlinked, AgentRecords
  <2> QED
    BY <1>4, <2>1 DEF Yields
<1>5. CASE agents[s].hand = "temp" /\ \A t \in Sessions \ {s} : agents'[t] = TemporaryRenamed[t]
  <2>1. \A t \in Sessions :
          /\ TemporaryRenamed[t].at = agents[t].at /\ TemporaryRenamed[t].hash = agents[t].hash
          /\ TemporaryRenamed[t].refused = agents[t].refused
          /\ agents[t].hand \notin {"temp", "dest"} => TemporaryRenamed[t].hand = agents[t].hand
    BY <1>1 DEF TemporaryRenamed, AgentRecords
  <2>2. \A t \in Sessions \ {s} : agents[t].hand \notin {"temp", "dest"}
    BY <1>5 DEF HeldAlone
  <2> QED
    BY <1>5, <2>1, <2>2 DEF Yields
<1> QED
  BY <1>2, <1>3, <1>4, <1>5

LEMMA EndedAgent ==
  ASSUME NEW s \in Sessions, NEW others, HandsOnly(others), Ended(s, others)
  PROVE  /\ agents'[s].at = "over" /\ agents'[s].hand = "none"
         /\ \A t \in Sessions \ {s} : agents'[t] = others[t]
<1> DEFINE new == [Agent EXCEPT !.at = "over", !.cut = TRUE]
<1>1. new.at = "over" /\ new.hand = "none"
  BY DEF Agent
<1>2. agents' = [others EXCEPT ![s] = new]
  BY DEF Ended
<1> HIDE DEF new
<1> QED
  BY <1>1, <1>2 DEF HandsOnly

\* The client leaves the agents what they hold, and the target what it has.
LEMMA ClientHolds ==
  ASSUME IInv,
         \/ Look \/ GotIndex \/ GotSignature \/ GotReply \/ GotResumeState \/ Open
         \/ SendBlock \/ SendCommit \/ NoStamp \/ SendAbort \/ GiveUp
  PROVE  UNCHANGED <<linkVars, targetVars, crossed>> /\ \A s \in Sessions : Standing(s)
<1>1. Typed /\ AgentsTyped /\ FilesTyped /\ session \in Sessions
  BY DEF IInv, Typed
<1>2. UNCHANGED <<linkVars, targetVars, crossed>>
  BY DEF Look, GotIndex, GotSignature, GotReply, GotResumeState, Open, SendBlock, SendCommit, NoStamp,
         SendAbort, GiveUp, ghosts, meetings
<1>3. UNCHANGED agents \/ \E frame \in Frames : Send(frame)
  <2>1. CASE UNCHANGED agents
    BY <2>1
  <2>2. CASE Look \/ GotIndex \/ Open
    <3>1. /\ Request("index", 0) \in Frames /\ Request("signature", 0) \in Frames
          /\ Request(method, resumeFrom) \in Frames
      BY <1>1, FrameShapes DEF RequestKinds, Typed
    <3> QED
      BY <2>2, <3>1 DEF Look, GotIndex, Open
  <2>3. CASE SendBlock
    BY <1>1, <2>3, BlockRead DEF SendBlock
  <2>4. CASE SendCommit \/ SendAbort
    <3>1. Abort \in Frames /\ Commit(Stamped.time, seen) \in Frames
      BY <1>1, FrameShapes, FileShapes DEF Stamped, Typed, FilesTyped
    <3> QED
      BY <2>4, <3>1 DEF SendCommit, SendAbort
  <2>5. CASE GotSignature \/ GotReply \/ GotResumeState \/ NoStamp \/ GiveUp
    BY <2>5 DEF GotSignature, GotReply, GotResumeState, NoStamp, GiveUp
  <2> QED
    BY <2>1, <2>2, <2>3, <2>4, <2>5
<1>4. \A s \in Sessions : Standing(s)
  BY <1>1, <1>3, Sending DEF Standing, Speaks
<1> QED
  BY <1>2, <1>4

\* A new session begins with an agent that has nothing open, whatever the others have.
LEMMA Restarting ==
  ASSUME IInv, ReissueRequest \/ RestartFile \/ RestartPatch
  PROVE  /\ session' \in Sessions /\ agents'[session'].at = "requests"
         /\ agents'[session'].hand = "none"
         /\ \A t \in Sessions \ {session'} : agents'[t] = agents[t]
         /\ UNCHANGED <<targetVars, crossed>>
         /\ client' # "sending" /\ client' # "waiting" /\ client' # "idle"
<1>1. Typed /\ Connected
  BY DEF IInv
<1>2. PICK requests \in Seq(Frames) : Reopened(requests)
  <2>1. \A kind \in RequestKinds : <<Request(kind, 0)>> \in Seq(Frames)
    <3> SUFFICES ASSUME NEW kind \in RequestKinds
                 PROVE  <<Request(kind, 0)>> \in Seq(Frames)
      OBVIOUS
    <3>1. Request(kind, 0) \in Frames
      BY FrameShapes
    <3> HIDE DEF Frames
    <3> QED
      BY <3>1
  <2>2. CASE ReissueRequest
    <3> DEFINE kind == IF client = "indexing" THEN "index" ELSE "signature"
    <3>1. Reopened(<<Request(kind, 0)>>) /\ kind \in RequestKinds
      BY <2>2 DEF ReissueRequest, RequestKinds
    <3> HIDE DEF kind
    <3> QED
      BY <2>1, <3>1
  <2>3. CASE RestartFile
    <3>1. Reopened(<<>>) /\ <<>> \in Seq(Frames)
      BY <2>3 DEF RestartFile
    <3> QED
      BY <3>1
  <2>4. CASE RestartPatch
    <3>1. Reopened(<<Request("resume", 0)>>) /\ "resume" \in RequestKinds
      BY <2>4 DEF RestartPatch, RequestKinds
    <3> QED
      BY <2>1, <3>1
  <2> QED
    BY <2>2, <2>3, <2>4
<1>3. Reconnected(requests)
  BY <1>1, <1>2, Reopening
<1>4. UNCHANGED <<targetVars, crossed>>
  BY <1>2 DEF Reopened, ghosts, meetings
<1>5. client' \in {"indexing", "signing", "opening", "resuming"}
  BY DEF ReissueRequest, RestartFile, RestartPatch, Restarted
<1> QED
  BY <1>3, <1>4, <1>5 DEF Reconnected

\* What begins holds an empty temporary and has hashed nothing, or both hold what was verified.
LEMMA BeginVouches ==
  ASSUME Typed, HeldAlone, NEW s \in Sessions, BeginFile(s) \/ BeginPatch(s), ~crossed'
  PROVE  Yields(s) /\ agents'[s].hand # "dest" /\ Vouched(agents'[s], temp')
<1>1. AgentsTyped /\ FilesTyped /\ HandsOnly(agents) /\ HandsOnly(TemporaryUnlinked)
  BY HandlesMove DEF Typed
<1>2. PICK at \in {"chunks", "tokens"} :
        \/ BeginFresh(s, Begun(s, at))
        \/ Refuse(s, Begun(s, at)) /\ UNCHANGED temp
        \/ \E from \in 1..Len(temp.data) : BeginResumed(s, Begun(s, at), from)
  BY DEF BeginFile, BeginPatch
<1>3. Inbox(s) # <<>>
  BY DEF BeginFile, BeginPatch, Receives, Inbox
<1> DEFINE begun == Begun(s, at)
           opened == [begun EXCEPT !.hand = "temp"]
           refused == [begun EXCEPT !.refused = TRUE]
<1>4. /\ begun \in AgentRecords /\ begun.inbox = Inbox(s) /\ begun.cut = agents[s].cut
      /\ begun.hash = <<>> /\ begun.hand = "none"
  BY <1>1, AgentShapes DEF Begun, Agent, Inbox
<1>5. CASE BeginFresh(s, begun)
  <2>1. /\ opened \in AgentRecords /\ opened.inbox = Inbox(s) /\ opened.cut = agents[s].cut
        /\ opened.hand = "temp" /\ opened.hash = <<>>
    BY <1>4 DEF AgentRecords, Hands
  <2>2. Becomes(s, opened, TemporaryUnlinked) /\ temp' = Fresh
    BY <1>5 DEF BeginFresh
  <2> HIDE DEF begun, opened
  <2>3. /\ agents'[s].hand = "temp" /\ agents'[s].hash = <<>>
        /\ \A t \in Sessions \ {s} : agents'[t] = TemporaryUnlinked[t]
    BY <1>1, <1>3, <2>1, <2>2, Becoming
  <2>4. Yields(s)
    BY <2>3, Yielding
  <2> QED
    BY <2>2, <2>3, <2>4 DEF Vouched, Fresh, File
<1>6. CASE Refuse(s, begun) /\ UNCHANGED temp
  <2>1. /\ refused \in AgentRecords /\ refused.inbox = Inbox(s) /\ refused.cut = agents[s].cut
        /\ refused.refused /\ refused.hand = "none"
    BY <1>4 DEF AgentRecords
  <2>2. Becomes(s, refused, agents)
    BY <1>6 DEF Refuse
  <2> HIDE DEF begun, refused
  <2>3. /\ agents'[s].refused /\ agents'[s].hand = "none"
        /\ \A t \in Sessions \ {s} : agents'[t] = agents[t]
    BY <1>1, <1>3, <2>1, <2>2, Becoming
  <2>4. Yields(s)
    BY <1>6, <2>3, Yielding
  <2> QED
    BY <2>3, <2>4 DEF Vouched
<1>7. CASE \E from \in 1..Len(temp.data) : BeginResumed(s, begun, from)
  <2>1. PICK from \in 1..Len(temp.data) : BeginResumed(s, begun, from)
    BY <1>7
  <2> DEFINE verified == SubSeq(temp.data, 1, from)
             resumed == [begun EXCEPT !.hand = "temp", !.hash = verified]
  <2>2. verified \in Data
    <3>1. temp.data \in Seq(Nat)
      BY <1>1, FileShapes DEF FilesTyped, Data
    <3> QED
      BY <3>1 DEF Data
  <2>3. /\ resumed \in AgentRecords /\ resumed.inbox = Inbox(s) /\ resumed.cut = agents[s].cut
        /\ resumed.hand = "temp" /\ resumed.hash = verified
    BY <1>4, <2>2 DEF AgentRecords, Hands
  <2>4. Becomes(s, resumed, agents) /\ temp' = File(verified, Unstamped)
    BY <2>1 DEF BeginResumed
  <2>5. \A t \in Sessions : agents[t].hand # "temp"
    BY <2>1 DEF BeginResumed
  <2> HIDE DEF begun, resumed, verified
  <2>6. /\ agents'[s].hand = "temp" /\ agents'[s].hash = verified
        /\ \A t \in Sessions \ {s} : agents'[t] = agents[t]
    BY <1>1, <1>3, <2>3, <2>4, Becoming
  <2>7. Yields(s)
    BY <2>5, <2>6, Yielding
  <2> QED
    BY <2>4, <2>6, <2>7 DEF Vouched, File
<1> QED
  BY <1>2, <1>5, <1>6, <1>7

\* A block that is written where the hash ends is written where the temporary ends.
LEMMA ContentVouches ==
  ASSUME Typed, HeldAlone, NEW s \in Sessions, TakeContent(s), Vouched(agents[s], temp)
  PROVE  /\ Yields(s) /\ agents'[s].hand # "dest" /\ Vouched(agents'[s], temp')
         /\ UNCHANGED dest
<1> DEFINE agent == agents[s]
           block == Content(s)[1]
           fails == [agent EXCEPT !.refused = TRUE, !.hand = "none"]
           takes == [agent EXCEPT !.hash = Append(@, block)]
<1>1. AgentsTyped /\ FilesTyped /\ HandsOnly(agents) /\ agent \in AgentRecords
  BY HandlesMove DEF Typed, AgentsTyped
<1>2. Inbox(s) # <<>> /\ Transferring(s) /\ agent.hand # "dest"
  BY DEF TakeContent, Receives, Inbox, HeldAlone
<1>3. CASE agent.refused /\ Becomes(s, agent, agents) /\ UNCHANGED targetVars
  <2>1. /\ agents'[s].refused = agents[s].refused /\ agents'[s].hand = agents[s].hand
        /\ \A t \in Sessions \ {s} : agents'[t] = agents[t]
    <3>1. /\ agents[s] \in AgentRecords /\ Becomes(s, agents[s], agents)
          /\ agents[s].inbox = Inbox(s)
      BY <1>1, <1>3 DEF Inbox
    <3> HIDE DEF agent
    <3> QED
      BY <1>1, <1>2, <3>1, Becoming
  <2>2. UNCHANGED <<dest, temp>>
    BY <1>3 DEF targetVars
  <2>3. Yields(s)
    BY <2>1, <2>2, Yielding
  <2> QED
    BY <1>2, <1>3, <2>1, <2>2, <2>3 DEF Vouched
<1>4. CASE Becomes(s, fails, agents) /\ UNCHANGED targetVars
  <2>1. /\ fails \in AgentRecords /\ fails.inbox = Inbox(s) /\ fails.cut = agents[s].cut
        /\ fails.refused = TRUE /\ fails.hand = "none"
    BY <1>1 DEF AgentRecords, Hands, Inbox
  <2> HIDE DEF fails
  <2>2. /\ agents'[s].refused /\ agents'[s].hand = "none"
        /\ \A t \in Sessions \ {s} : agents'[t] = agents[t]
    BY <1>1, <1>2, <1>4, <2>1, Becoming
  <2>3. UNCHANGED <<dest, temp>>
    BY <1>4 DEF targetVars
  <2>4. Yields(s)
    BY <2>2, <2>3, Yielding
  <2> QED
    BY <2>2, <2>3, <2>4 DEF Vouched
<1>5. CASE ~agent.refused /\ Content(s) # <<>> /\ WriteThrough(s, block) /\ Becomes(s, takes, agents)
  <2>1. block \in Nat
    BY <1>2, <1>5, ContentTyped
  <2> HIDE DEF block
  <2>2. agent.hash \in Data /\ Append(agent.hash, block) \in Data
    BY <1>1, <2>1, AppendProperties DEF AgentRecords, Data
  <2>3. /\ takes \in AgentRecords /\ takes.inbox = Inbox(s) /\ takes.cut = agents[s].cut
        /\ takes.hand = agent.hand /\ takes.hash = Append(agent.hash, block)
    BY <1>1, <2>2 DEF AgentRecords, Inbox
  <2> HIDE DEF takes
  <2>4. /\ agents'[s].hand = agent.hand /\ agents'[s].hash = Append(agent.hash, block)
        /\ \A t \in Sessions \ {s} : agents'[t] = agents[t]
    BY <1>1, <1>2, <1>5, <2>3, Becoming
  <2>5. UNCHANGED dest /\ (agent.hand # "temp" => UNCHANGED temp)
    BY <1>2, <1>5 DEF WriteThrough
  <2>6. Yields(s)
    BY <2>4, <2>5, Yielding
  <2>7. agent.hand = "unlinked" \/ (agent.hand = "temp" /\ temp.data = agent.hash)
    BY <1>2, <1>5 DEF Vouched, Transferring
  <2>8. ASSUME agent.hand = "temp", temp.data = agent.hash
        PROVE  temp'.data = Append(agent.hash, block)
    <3>1. temp'.data = WrittenAt(agent.hash, Len(agent.hash), block)
      BY <1>5, <2>8 DEF WriteThrough, File
    <3> QED
      BY <2>1, <2>2, <3>1, WrittenAtEnd
  <2> QED
    BY <1>2, <2>4, <2>5, <2>6, <2>7, <2>8 DEF Vouched
<1> QED
  BY <1>3, <1>4, <1>5 DEF TakeContent

\* What is renamed is what its agent has open, and it is that agent's alone.
LEMMA PublishVouches ==
  ASSUME Typed, HeldAlone, NEW s \in Sessions, Publish(s), ~crossed'
  PROVE  Yields(s) /\ agents'[s].hand # "dest" /\ Vouched(agents'[s], temp')
<1>1. AgentsTyped /\ HandsOnly(TemporaryRenamed)
  BY HandlesMove DEF Typed
<1>2. Inbox(s) # <<>> /\ agents[s].hand = "temp" /\ Becomes(s, Idle(s), TemporaryRenamed)
  BY DEF Publish, Receives, Inbox
<1>3. /\ Idle(s) \in AgentRecords /\ Idle(s).inbox = Inbox(s) /\ Idle(s).cut = agents[s].cut
      /\ Idle(s).at = "requests" /\ Idle(s).hand = "none"
  BY <1>1, AgentShapes DEF Idle, Agent, Inbox
<1>4. /\ agents'[s].at = "requests" /\ agents'[s].hand = "none"
      /\ \A t \in Sessions \ {s} : agents'[t] = TemporaryRenamed[t]
  BY <1>1, <1>2, <1>3, Becoming
<1> QED
  BY <1>2, <1>4, Yielding DEF Vouched

\* What is discarded has no handle any more, and what cannot be removed stays as it is.
LEMMA DiscardVouches ==
  ASSUME Typed, HeldAlone, NEW s \in Sessions, Discard(s)
  PROVE  Yields(s) /\ agents'[s].hand # "dest" /\ Vouched(agents'[s], temp')
<1>1. AgentsTyped /\ HandsOnly(agents) /\ HandsOnly(TemporaryUnlinked)
  BY HandlesMove DEF Typed
<1>2. /\ Idle(s) \in AgentRecords /\ Idle(s).inbox = Inbox(s) /\ Idle(s).cut = agents[s].cut
      /\ Idle(s).at = "requests" /\ Idle(s).hand = "none"
  BY <1>1, AgentShapes DEF Idle, Agent, Inbox
<1>3. Inbox(s) # <<>>
  BY DEF Discard, Receives, Inbox
<1>4. CASE Becomes(s, Idle(s), TemporaryUnlinked)
  <2>1. /\ agents'[s].at = "requests" /\ agents'[s].hand = "none"
        /\ \A t \in Sessions \ {s} : agents'[t] = TemporaryUnlinked[t]
    BY <1>1, <1>2, <1>3, <1>4, Becoming
  <2> QED
    BY <2>1, Yielding DEF Vouched
<1>5. CASE Becomes(s, Idle(s), agents) /\ UNCHANGED temp
  <2>1. /\ agents'[s].at = "requests" /\ agents'[s].hand = "none"
        /\ \A t \in Sessions \ {s} : agents'[t] = agents[t]
    BY <1>1, <1>2, <1>3, <1>5, Becoming
  <2> QED
    BY <1>5, <2>1, Yielding DEF Vouched
<1> QED
  BY <1>4, <1>5 DEF Discard, CannotRemove

LEMMA CutVouches ==
  ASSUME Typed, HeldAlone, NEW s \in Sessions, FileCut(s) \/ PatchCut(s) \/ SessionEnds(s) \/ Killed(s)
  PROVE  Yields(s) /\ agents'[s].hand # "dest" /\ Vouched(agents'[s], temp')
<1>1. HandsOnly(agents) /\ HandsOnly(TemporaryUnlinked)
  BY HandlesMove DEF Typed
<1>2. CASE Ended(s, TemporaryUnlinked)
  <2>1. /\ agents'[s].at = "over" /\ agents'[s].hand = "none"
        /\ \A t \in Sessions \ {s} : agents'[t] = TemporaryUnlinked[t]
    BY <1>1, <1>2, EndedAgent
  <2> QED
    BY <2>1, Yielding DEF Vouched
<1>3. CASE Ended(s, agents) /\ UNCHANGED temp
  <2>1. /\ agents'[s].at = "over" /\ agents'[s].hand = "none"
        /\ \A t \in Sessions \ {s} : agents'[t] = agents[t]
    BY <1>1, <1>3, EndedAgent
  <2> QED
    BY <1>3, <2>1, Yielding DEF Vouched
<1> QED
  BY <1>2, <1>3 DEF FileCut, PatchCut, SessionEnds, Killed, CannotRemove, targetVars

LEMMA AnswerVouches ==
  ASSUME Typed, HeldAlone, NEW s \in Sessions, Answer(s)
  PROVE  Yields(s) /\ agents'[s].hand # "dest" /\ Vouched(agents'[s], temp')
<1>1. /\ AgentsTyped /\ HandsOnly(agents) /\ agents[s] \in AgentRecords /\ Inbox(s) # <<>>
      /\ Becomes(s, agents[s], agents) /\ agents[s].at = "requests" /\ UNCHANGED temp
      /\ agents[s].hand # "dest"
  BY HandlesMove DEF Typed, AgentsTyped, Answer, Receives, Inbox, targetVars, HeldAlone
<1>2. /\ agents'[s].at = "requests" /\ agents'[s].hand = agents[s].hand
      /\ \A t \in Sessions \ {s} : agents'[t] = agents[t]
  BY <1>1, Becoming DEF Inbox
<1> QED
  BY <1>1, <1>2, Yielding DEF Vouched

LEMMA AgentVouches ==
  ASSUME Typed, HeldAlone, VouchedEach, NEW s \in Sessions, AgentStep(s) \/ Killed(s), ~crossed'
  PROVE  HeldAlone' /\ VouchedEach'
<1>1. Vouched(agents[s], temp)
  BY DEF VouchedEach
<1>2. Yields(s) /\ agents'[s].hand # "dest" /\ Vouched(agents'[s], temp')
  <2>1. CASE BeginFile(s) \/ BeginPatch(s)
    BY <2>1, BeginVouches
  <2>2. CASE TakeContent(s)
    BY <1>1, <2>2, ContentVouches
  <2>3. CASE Publish(s) \/ Discard(s) \/ Answer(s)
    BY <2>3, PublishVouches, DiscardVouches, AnswerVouches
  <2>4. CASE FileCut(s) \/ PatchCut(s) \/ SessionEnds(s) \/ Killed(s)
    BY <2>4, CutVouches
  <2> QED
    BY <2>1, <2>2, <2>3, <2>4 DEF AgentStep
<1> QED
  BY <1>2, YieldingVouches

\* What has crossed stays so, and so does an agent that has come too late, while the action lasts.
LEMMA MeetingsStay ==
  ASSUME NEW s \in Sessions, AgentStep(s) \/ Killed(s)
  PROVE  (crossed => crossed') /\ (belated => belated') /\ (Publish(s) /\ s # session => belated')
<1>1. CASE Publish(s)
  BY <1>1 DEF Publish
<1>2. CASE BeginFile(s) \/ BeginPatch(s)
  <2>1. crossed => crossed'
    BY <1>2 DEF BeginFile, BeginPatch, BeginFresh, BeginResumed
  <2>2. UNCHANGED belated /\ ~Publish(s)
    BY <1>2 DEF BeginFile, BeginPatch, Publish, Transferring
  <2> QED
    BY <2>1, <2>2
<1>3. CASE ~Publish(s) /\ ~(BeginFile(s) \/ BeginPatch(s))
  <2>1. UNCHANGED meetings
    BY <1>3 DEF AgentStep, Killed, Answer, TakeContent, Discard, FileCut, PatchCut, SessionEnds, ghosts
  <2> QED
    BY <1>3, <2>1 DEF meetings
<1> QED
  BY <1>1, <1>2, <1>3

LEMMA VouchedKept ==
  ASSUME IInv, VouchedFor, [Next]_vars
  PROVE  VouchedFor'
<1> SUFFICES ASSUME ~crossed'
             PROVE  HeldAlone' /\ VouchedEach'
  BY DEF VouchedFor
<1>1. Typed /\ AgentsTyped /\ session \in Sessions
  BY DEF IInv, Typed
<1>2. ASSUME UNCHANGED <<temp, crossed>>, \A s \in Sessions : Standing(s)
      PROVE  HeldAlone' /\ VouchedEach'
  <2>1. HeldAlone /\ VouchedEach
    BY <1>2 DEF VouchedFor
  <2> QED
    BY <1>2, <2>1 DEF HeldAlone, VouchedEach, Vouched, Standing
<1>3. CASE Environment \/ UNCHANGED vars
  <2>1. UNCHANGED <<temp, crossed, agents>>
    BY <1>3 DEF Environment, Rewrite, Replace, Unlink, Written, vars, targetVars, ghosts, meetings
  <2> QED
    BY <1>2, <2>1 DEF Standing
<1>4. CASE \/ Look \/ GotIndex \/ GotSignature \/ GotReply \/ GotResumeState \/ Open
           \/ SendBlock \/ SendCommit \/ NoStamp \/ SendAbort \/ GiveUp
  BY <1>2, <1>4, ClientHolds DEF targetVars
<1>5. CASE ReissueRequest \/ RestartFile \/ RestartPatch
  <2>1. /\ session' \in Sessions /\ agents'[session'].at = "requests"
        /\ agents'[session'].hand = "none"
        /\ \A t \in Sessions \ {session'} : agents'[t] = agents[t]
        /\ UNCHANGED <<temp, crossed>>
    BY <1>5, Restarting DEF targetVars
  <2>2. HeldAlone /\ VouchedEach
    BY <2>1 DEF VouchedFor
  <2>3. Yields(session')
    BY <1>1, <2>1, <2>2, Yielding
  <2>4. PICK s \in Sessions : s = session'
    BY <2>1
  <2> QED
    BY <2>1, <2>2, <2>3, <2>4, YieldingVouches DEF Vouched
<1>6. CASE Drop
  <2>1. UNCHANGED <<temp, crossed>>
    BY <1>6 DEF Drop, targetVars, meetings
  <2> QED
    BY <1>1, <1>2, <1>6, <2>1, Dropping DEF Standing
<1>7. CASE \E s \in Sessions : AgentStep(s) \/ Killed(s)
  <2>1. PICK s \in Sessions : AgentStep(s) \/ Killed(s)
    BY <1>7
  <2>2. HeldAlone /\ VouchedEach
    BY <2>1, MeetingsStay DEF VouchedFor
  <2> QED
    BY <1>1, <2>1, <2>2, AgentVouches
<1> QED
  BY <1>3, <1>4, <1>5, <1>6, <1>7 DEF Next, Client

LEMMA VouchingHolds == Spec => []Vouching
<1>1. Init => Vouching
  <2> SUFFICES ASSUME Init
               PROVE  Vouching
    OBVIOUS
  <2>1. \A s \in Sessions : agents[s].at \in {"requests", "over"} /\ agents[s].hand = "none"
    BY DEF Init, Agent
  <2> QED
    BY <2>1, Initial DEF Vouching, VouchedFor, HeldAlone, VouchedEach, Vouched
<1>2. Vouching /\ [Next]_vars => Vouching'
  BY Inductive, VouchedKept DEF Vouching
<1> QED
  BY <1>1, <1>2, PTL DEF Spec

\* What is published is what the commit names, and has been read whole: also where what
\* publishes it is a request for an index that was not to be a commit.
LEMMA Published ==
  ASSUME Vouching, NEW s \in Sessions, Publish(s), ~crossed'
  PROVE  /\ Inbox(s) # <<>> /\ Inbox(s)[1].kind \in {"commit", "index"} /\ Transferring(s)
         /\ temp.data \in reads /\ UNCHANGED reads
         /\ Inbox(s)[1].kind = "commit" =>
              dest' = File(temp.data, Inbox(s)[1].time) /\ temp.data = Inbox(s)[1].hash
         /\ dest'.data = temp.data /\ Reply(s, Ok)
<1>1. Typed /\ AgentsTyped /\ OrderedAt(s) /\ WholeAt(agents[s]) /\ reads \subseteq Data
  BY DEF Vouching, IInv, Typed, Ordered, Whole
<1>2. /\ Inbox(s) # <<>> /\ Head(Inbox(s)).kind \in Ending(s) \ {"abort"}
      /\ Transferring(s) /\ Publishable(s) /\ agents[s].hand = "temp" /\ ~crossed
      /\ dest' = File(temp.data, CommitTime(Head(Inbox(s)))) /\ UNCHANGED reads /\ Reply(s, Ok)
  BY DEF Publish, Receives, Inbox, Stamp
<1>3. Head(Inbox(s)) = Inbox(s)[1] /\ Inbox(s)[1] \in Frames /\ 1 \in DOMAIN Inbox(s)
  <2>1. Inbox(s) \in Seq(Frames)
    BY <1>1 DEF AgentsTyped, AgentRecords, Inbox
  <2> QED
    BY <1>1, <1>2, <2>1, Received, LenProperties
<1>4. temp.data = agents[s].hash /\ agents[s].hash \in Seq(Nat) /\ ~agents[s].refused
  <2>1. ~agents[s].refused
    BY <1>2 DEF Publishable
  <2>2. Vouched(agents[s], temp)
    BY <1>2 DEF Vouching, VouchedFor, VouchedEach
  <2>3. agents[s].hash \in Seq(Nat)
    BY <1>1 DEF AgentsTyped, AgentRecords, Data
  <2> QED
    BY <1>2, <2>1, <2>2, <2>3 DEF Vouched, Transferring
<1>5. Inbox(s)[1].kind \in {"commit", "index"}
  BY <1>2, <1>3 DEF Ending
<1>6. ASSUME agents[s].at = "chunks", NEW data \in Seq(Nat), Follows(agents[s], data, 1 - 1)
      PROVE  agents[s].hash = data
  <2>1. Ahead(agents[s]) = 0
    BY <1>6 DEF Ahead
  <2>2. /\ Len(data) = Len(agents[s].hash)
        /\ \A j \in 1..Len(agents[s].hash) : agents[s].hash[j] = data[j]
    BY <1>4, <1>6, <2>1 DEF Follows
  <2> QED
    BY <1>4, <2>2, SeqEqual
<1>7. agents[s].at = "chunks" => Taking(agents[s])
  BY <1>4 DEF Taking
<1>8. ASSUME Inbox(s)[1].kind = "commit"
      PROVE  agents[s].hash = Inbox(s)[1].hash /\ Inbox(s)[1].hash \in reads
  <2>1. Inbox(s)[1].hash \in Seq(Nat)
    BY <1>3, <1>8, FrameShapes DEF Data
  <2>2. Inbox(s)[1].hash \in reads
    BY <1>1, <1>3, <1>8 DEF OrderedAt
  <2>3. CASE agents[s].at = "tokens"
    BY <1>2, <1>3, <2>2, <2>3 DEF Publishable, Inbox
  <2>4. CASE agents[s].at = "chunks"
    <3>1. Follows(agents[s], Inbox(s)[1].hash, 1 - 1)
      BY <1>1, <1>3, <1>7, <1>8, <2>4 DEF WholeAt, Inbox
    <3> QED
      BY <1>6, <2>1, <2>2, <2>4, <3>1
  <2> QED
    BY <1>2, <2>3, <2>4 DEF Transferring
<1>9. ASSUME Inbox(s)[1].kind = "index"
      PROVE  agents[s].hash \in reads
  <2>1. agents[s].at = "chunks"
    BY <1>2, <1>3, <1>9 DEF Ending
  <2>2. PICK data \in reads : Follows(agents[s], data, 1 - 1)
    BY <1>1, <1>3, <1>7, <1>9, <2>1 DEF WholeAt, Inbox
  <2>3. data \in Seq(Nat)
    BY <1>1 DEF Data
  <2> QED
    BY <1>6, <2>1, <2>2, <2>3
<1>10. dest'.data = temp.data /\ (Inbox(s)[1].kind = "commit" => CommitTime(Inbox(s)[1]) = Inbox(s)[1].time)
  BY <1>2 DEF File, CommitTime
<1> QED
  BY <1>2, <1>3, <1>4, <1>5, <1>8, <1>9, <1>10

\* Only what is published is put in the place of what is at the destination.
LEMMA AgentPuts ==
  ASSUME Vouching, NEW s \in Sessions, AgentStep(s) \/ Killed(s), ~crossed'
  PROVE  UNCHANGED dest \/ Publish(s)
<1>1. ~crossed /\ Typed /\ HeldAlone /\ Vouched(agents[s], temp)
  <2>1. ~crossed
    BY MeetingsStay
  <2> QED
    BY <2>1 DEF Vouching, IInv, VouchedFor, VouchedEach
<1>2. CASE TakeContent(s)
  BY <1>1, <1>2, ContentVouches
<1>3. CASE ~TakeContent(s)
  BY <1>3 DEF AgentStep, Killed, Answer, BeginFile, BeginPatch, Discard,
              FileCut, PatchCut, SessionEnds, targetVars
<1> QED
  BY <1>2, <1>3

LEMMA DestinationHolds ==
  ASSUME Vouching, [Next]_vars, ~crossed'
  PROVE  UNCHANGED dest \/ \E s \in Sessions : Publish(s)
<1>1. IInv
  BY DEF Vouching
<1>2. CASE Environment \/ UNCHANGED vars \/ Drop
  BY <1>2 DEF Environment, Rewrite, Replace, Unlink, Written, vars, targetVars, Drop
<1>3. CASE \/ Look \/ GotIndex \/ GotSignature \/ GotReply \/ GotResumeState \/ Open
           \/ SendBlock \/ SendCommit \/ NoStamp \/ SendAbort \/ GiveUp
  BY <1>1, <1>3, ClientHolds DEF targetVars
<1>4. CASE ReissueRequest \/ RestartFile \/ RestartPatch
  BY <1>1, <1>4, Restarting DEF targetVars
<1>5. CASE \E s \in Sessions : AgentStep(s) \/ Killed(s)
  BY <1>5, AgentPuts
<1> QED
  BY <1>2, <1>3, <1>4, <1>5 DEF Next, Client

LEMMA ReadsGrow == [Next]_vars => reads \subseteq reads'
BY DEF Next, Client, AgentStep, Environment, Rewrite, Replace, Unlink, Written, Look, GotIndex,
       GotSignature, GotReply, GotResumeState, Open, SendBlock, SendCommit, NoStamp, SendAbort,
       ReissueRequest, RestartFile, RestartPatch, Reopened, GiveUp, Drop, Answer, BeginFile,
       BeginPatch, TakeContent, Publish, Discard, FileCut, PatchCut, SessionEnds, Killed, ghosts, vars

LEMMA CrossedStays == [Next]_vars => (crossed => crossed')
<1> SUFFICES ASSUME [Next]_vars, crossed
             PROVE  crossed'
  OBVIOUS
<1>1. CASE \E s \in Sessions : AgentStep(s) \/ Killed(s)
  BY <1>1, MeetingsStay
<1>2. CASE ~\E s \in Sessions : AgentStep(s) \/ Killed(s)
  BY <1>2 DEF Next, Client, Environment, Rewrite, Replace, Unlink, Written, Look, GotIndex,
       GotSignature, GotReply, GotResumeState, Open, SendBlock, SendCommit, NoStamp, SendAbort,
       ReissueRequest, RestartFile, RestartPatch, Reopened, GiveUp, Drop, ghosts, meetings, vars
<1> QED
  BY <1>1, <1>2

\* What an agent has hashed is what its temporary holds, or another has unlinked that, until two
\* agents have one temporary: also where receive_patch resumes what a lost session left, cut to
\* what the client verified, and whichever sessions begin while the agents of others linger.
THEOREM TransferHashVouches == Spec => []HashVouches
<1>1. Vouching => HashVouches
  BY DEF Vouching, VouchedFor, VouchedEach, Vouched, HashVouches, Transferring
<1> QED
  BY <1>1, VouchingHolds, PTL

\* The agents at the far end implement atomic replacement, as the local sink does, until two of
\* them have had one temporary: the destination changes in one step, the rename that ends
\* receive_file or receive_patch, and to a content the client has read from beginning to end,
\* whatever was written meanwhile, failed or was lost, and whichever agents linger.
THEOREM TransferReplacesAtomically == Spec => ReplacesAtomically
<1>1. Init => Shown!Init
  BY DEF Init, Shown!Init
<1>2. Vouching /\ [Next]_vars => [crossed' \/ Shown!Next]_(Shown!vars)
  <2> SUFFICES ASSUME Vouching, [Next]_vars, ~crossed'
               PROVE  Shown!Next
    OBVIOUS
  <2>1. reads \subseteq reads'
    BY ReadsGrow
  <2>2. CASE UNCHANGED dest
    BY <2>1, <2>2 DEF Shown!Next, Shown!Offer
  <2>3. CASE \E s \in Sessions : Publish(s)
    <3>1. dest'.data \in reads'
      BY <2>1, <2>3, Published
    <3> QED
      BY <2>1, <3>1 DEF Shown!Next, Shown!Publish
  <2> QED
    BY <2>2, <2>3, DestinationHolds
<1> QED
  BY <1>1, <1>2, VouchingHolds, PTL DEF Spec, ReplacesAtomically

\* At the destination is, at every moment, what was there at first or something the client
\* has read whole, never nothing where something was, until two agents have had one temporary.
THEOREM TransferShowsWhole == Spec => [](crossed \/ OldOrWhole)
<1>1. Init => OldOrWhole
  BY DEF Init, OldOrWhole
<1>2. (crossed \/ OldOrWhole) /\ Vouching /\ [Next]_vars => (crossed \/ OldOrWhole)'
  <2> SUFFICES ASSUME crossed \/ OldOrWhole, Vouching, [Next]_vars, ~crossed'
               PROVE  OldOrWhole'
    OBVIOUS
  <2>1. reads \subseteq reads' /\ OldOrWhole
    BY ReadsGrow, CrossedStays
  <2>2. CASE UNCHANGED dest
    BY <2>1, <2>2 DEF OldOrWhole
  <2>3. CASE \E s \in Sessions : Publish(s)
    BY <2>1, <2>3, Published DEF OldOrWhole
  <2> QED
    BY <2>2, <2>3, DestinationHolds
<1> QED
  BY <1>1, <1>2, VouchingHolds, PTL DEF Spec

\* While the source keeps still: what has been read is of it, and so is what is committed.
ReadOfSource ==
  client = "sending" =>
    /\ held = source /\ source # Nothing
    /\ Len(seen) <= Len(source.data) /\ \A j \in 1..Len(seen) : seen[j] = source.data[j]
CommittedOfSource ==
  up => \A i \in DOMAIN Inbox(session) :
          Inbox(session)[i].kind = "commit" =>
            Inbox(session)[i].time = source.time /\ Inbox(session)[i].hash = source.data
Done == client = "idle" /\ outcome = "ok"
Settled ==
  /\ Done => agents[session].at \in {"requests", "over"} /\ Inbox(session) = <<>>
  /\ steady => ReadOfSource /\ CommittedOfSource
  /\ steady /\ ~crossed /\ ~belated =>
       ((client = "waiting" /\ replies = <<Ok>>) \/ Done => dest = source)

\* A stream has no end before the client waits for its answer.
Unended == up /\ client # "waiting" => ~EndSent(session)

LEMMA TurnsUnended == Turns => Unended
<1> SUFFICES ASSUME Turns, up, client # "waiting"
             PROVE  ~EndSent(session)
  BY DEF Unended
<1>1. CASE WalkedAway \/ Streaming
  BY <1>1 DEF WalkedAway, Streaming, Unclosed, EndSent, Finals
<1>2. CASE Resting \/ Told
  BY <1>2 DEF Resting, Told, AtRest, EndSent
<1>3. CASE Asked
  <2>1. \A i \in DOMAIN Inbox(session) : Inbox(session)[i] = Request(Wanted, 0)
    BY <1>3 DEF Asked
  <2>2. Request(Wanted, 0).kind \notin Ends
    BY DEF Request, Wanted, Ends
  <2> QED
    BY <2>1, <2>2 DEF EndSent
<1> QED
  BY <1>1, <1>2, <1>3 DEF Turns, Streamed, Concluded

LEMMA UnendedSettles ==
  ASSUME Unended, client # "waiting"
  PROVE  CommittedOfSource
BY DEF Unended, EndSent, Ends, CommittedOfSource

\* Nothing is claimed of an action that has not yet read anything, or has failed.
LEMMA NothingClaimed ==
  Unended /\ client \notin {"sending", "waiting"} /\ ~Done => Settled
BY UnendedSettles DEF Settled, ReadOfSource

LEMMA AsideSettles ==
  ASSUME IInv', client' \notin {"sending", "waiting"}, client' = "idle" => outcome' # "ok"
  PROVE  Settled'
<1>1. Turns' /\ (Turns => Unended)'
  BY TurnsUnended, PTL DEF IInv
<1>2. (Unended /\ client \notin {"sending", "waiting"} /\ ~Done => Settled)'
  BY NothingClaimed, PTL
<1> QED
  BY <1>1, <1>2 DEF Done

LEMMA ReadingSettles ==
  ASSUME IInv, IInv', Settled, (Open /\ client' = "sending") \/ SendBlock
  PROVE  Settled'
<1>1. Typed /\ FilesTyped
  BY DEF IInv, Typed
<1>2. Turns' /\ (Turns => Unended)'
  BY TurnsUnended, PTL DEF IInv
<1>3. client' = "sending" /\ UNCHANGED <<source, steady>>
  BY DEF Open, SendBlock, sourceVars, ghosts, meetings
<1>4. CommittedOfSource'
  <2>1. (Unended /\ client # "waiting" => CommittedOfSource)'
    BY UnendedSettles, PTL
  <2> QED
    BY <1>2, <1>3, <2>1
<1>5. ASSUME steady
      PROVE  ReadOfSource'
  <2>1. CASE Open
    <3>1. held' = source /\ source # Nothing /\ seen' = <<>>
      BY <1>3, <2>1 DEF Open, Returned
    <3>2. Len(source.data) \in Nat
      BY <1>1, FileShapes DEF FilesTyped, Data
    <3> QED
      BY <1>3, <3>1, <3>2 DEF ReadOfSource
  <2>2. CASE SendBlock
    <3> DEFINE block == held.data[Len(seen) + 1]
    <3>1. /\ client = "sending" /\ ~AtEnd /\ held' = held /\ seen' = Append(seen, block)
      BY <2>2 DEF SendBlock, sourceVars
    <3>2. /\ held = source /\ source # Nothing
          /\ \A j \in 1..Len(seen) : seen[j] = source.data[j]
      BY <1>5, <3>1 DEF Settled, ReadOfSource
    <3>3. block \in Nat /\ Len(seen) \in Nat /\ Len(seen) < Len(held.data) /\ seen \in Seq(Nat)
      BY <1>1, <3>1, BlockRead DEF Typed, Data
    <3>4. block = source.data[Len(seen) + 1] /\ Len(source.data) \in Nat
      BY <1>1, <3>2, FileShapes DEF FilesTyped, Data
    <3> HIDE DEF block
    <3>5. PICK n \in Nat : n = Len(seen)
      BY <3>3
    <3>6. /\ Len(seen') = n + 1 /\ seen'[n + 1] = block
          /\ \A j \in 1..n : seen'[j] = seen[j]
      BY <3>1, <3>3, <3>5, AppendProperties
    <3>7. ASSUME NEW j \in 1..(n + 1)
          PROVE  seen'[j] = source.data[j]
      <4>1. CASE j = n + 1
        BY <3>4, <3>5, <3>6, <4>1
      <4>2. CASE j # n + 1
        <5>1. j \in 1..n
          BY <4>2
        <5> QED
          BY <3>2, <3>5, <3>6, <5>1
      <4> QED
        BY <4>1, <4>2
    <3>8. n + 1 <= Len(source.data)
      BY <3>2, <3>3, <3>4, <3>5
    <3> QED
      BY <1>3, <3>1, <3>2, <3>6, <3>7, <3>8 DEF ReadOfSource
  <2> QED
    BY <2>1, <2>2
<1> QED
  BY <1>3, <1>4, <1>5 DEF Settled, Done

\* What is committed of a source that has kept still is that source.
LEMMA CommitSettles ==
  ASSUME IInv, Settled, SendCommit \/ SendAbort
  PROVE  Settled'
<1>1. Typed /\ FilesTyped /\ AgentsTyped /\ Turns /\ session \in Sessions
  BY DEF IInv, Typed
<1>2. /\ client = "sending" /\ client' = "waiting" /\ up
      /\ UNCHANGED <<sourceVars, replies, steady, session, up>>
  BY DEF SendCommit, SendAbort, linkVars, ghosts, meetings
<1>3. Streaming
  BY <1>1, <1>2, TurnOf
<1>4. PICK frame \in Frames :
        /\ Speaks(frame)
        /\ steady /\ frame.kind = "commit" => frame.time = source.time /\ frame.hash = source.data
  <2>1. CASE SendAbort
    <3>1. Abort \in Frames /\ Abort.kind # "commit" /\ Speaks(Abort)
      BY <1>1, <2>1, FrameShapes, Sending DEF SendAbort, Abort
    <3> QED
      BY <3>1
  <2>2. CASE SendCommit
    <3> DEFINE frame == Commit(Stamped.time, seen)
    <3>1. frame \in Frames /\ frame.time = Stamped.time /\ frame.hash = seen
      BY <1>1, FrameShapes, FileShapes DEF Stamped, Typed, FilesTyped, Commit
    <3>2. Speaks(frame)
      BY <1>1, <2>2, <3>1, Sending DEF SendCommit
    <3>3. ASSUME steady
          PROVE  Stamped.time = source.time /\ seen = source.data
      <4>1. held = source /\ Len(seen) <= Len(source.data) /\ \A j \in 1..Len(seen) : seen[j] = source.data[j]
        BY <1>2, <3>3 DEF Settled, ReadOfSource
      <4>2. seen \in Seq(Nat) /\ source.data \in Seq(Nat)
        BY <1>1, FileShapes DEF Typed, FilesTyped, Data
      <4>3. Len(seen) >= Len(source.data)
        BY <2>2, <4>1 DEF SendCommit, AtEnd
      <4>4. Len(seen) = Len(source.data)
        BY <4>1, <4>2, <4>3
      <4>5. seen = source.data
        BY <4>1, <4>2, <4>4, SeqEqual
      <4> QED
        BY <4>1, <4>5 DEF Stamped
    <3> HIDE DEF frame
    <3> QED
      BY <3>1, <3>2, <3>3
  <2> QED
    BY <2>1, <2>2
<1>5. ASSUME steady
      PROVE  CommittedOfSource'
  <2>1. PICK n \in Nat : n = Len(Inbox(session))
    BY <1>1, <1>4, Appended
  <2>2. /\ \A i \in 1..n : agents'[session].inbox[i] = Inbox(session)[i] /\ i \in DOMAIN Inbox(session)
        /\ agents'[session].inbox[n + 1] = frame /\ DOMAIN agents'[session].inbox = 1..(n + 1)
    BY <1>1, <1>2, <1>4, <2>1, Appended DEF Speaks
  <2>3. \A i \in 1..n : agents'[session].inbox[i].kind # "commit"
    BY <1>3, <2>2 DEF Streaming, Unclosed, Finals, Ends
  <2>4. \A i \in 1..(n + 1) : i = n + 1 \/ i \in 1..n
    OBVIOUS
  <2> QED
    BY <1>2, <1>4, <1>5, <2>2, <2>3, <2>4 DEF CommittedOfSource, Inbox, sourceVars
<1> QED
  BY <1>2, <1>3, <1>5 DEF Settled, Done, ReadOfSource, Streaming

LEMMA ReplySettles ==
  ASSUME IInv, IInv', Settled, GotReply
  PROVE  Settled'
<1>1. Typed /\ Turns
  BY DEF IInv
<1>2. /\ client = "waiting" /\ Answered /\ up /\ client' = "idle"
      /\ UNCHANGED <<source, linkVars, agents, dest, steady, crossed, belated>>
  BY DEF GotReply, Answered, Returned, targetVars, ghosts, meetings
<1>3. Concluded /\ ~lapsed /\ Head(replies) = replies[1] /\ Len(replies) = 1 /\ replies \in Seq(Replies)
  BY <1>1, <1>2, Answering, TurnOf DEF Concluded, Typed, Answered
<1>4. outcome' = "ok" => replies = <<Ok>>
  BY <1>3 DEF GotReply, Returned
<1>5. CommittedOfSource'
  <2>1. Turns' /\ (Turns => Unended)' /\ (Unended /\ client # "waiting" => CommittedOfSource)'
    BY TurnsUnended, UnendedSettles, PTL DEF IInv
  <2> QED
    BY <1>2, <2>1
<1>6. agents'[session'].at \in {"requests", "over"} /\ Inbox(session)' = <<>>
  BY <1>2, <1>3 DEF Concluded, AtRest, Inbox, linkVars
<1> QED
  BY <1>2, <1>4, <1>5, <1>6 DEF Settled, Done, ReadOfSource

LEMMA ElsewhereSettles ==
  ASSUME IInv, Settled, Environment \/ Drop \/ UNCHANGED vars
  PROVE  Settled'
<1>1. Typed
  BY DEF IInv
<1>2. CASE Environment
  <2>1. ~steady' /\ UNCHANGED <<clientVars, linkVars, agents>>
    BY <1>2 DEF Environment, Rewrite, Replace, Unlink, Written
  <2> QED
    BY <2>1 DEF Settled, Done, Inbox, clientVars, linkVars
<1>3. CASE Drop
  <2>1. /\ ~up' /\ replies' = <<>>
        /\ UNCHANGED <<sourceVars, clientVars, session, targetVars, steady, crossed, belated>>
    BY <1>3 DEF Drop, meetings
  <2>2. agents'[session].at = agents[session].at /\ (Inbox(session) = <<>> => agents'[session].inbox = <<>>)
    <3>1. /\ agents'[session].at = agents[session].at /\ AgentsTyped'
          /\ Len(agents'[session].inbox) \in 0..Len(Inbox(session))
      BY <1>1, <1>3, Dropping
    <3>2. agents'[session].inbox \in Seq(Frames)
      BY <1>1, <2>1, <3>1 DEF AgentsTyped, AgentRecords, Typed
    <3>3. Inbox(session) = <<>> => Len(agents'[session].inbox) = 0
      BY <3>1
    <3> QED
      BY <3>1, <3>2, <3>3, EmptySeq
  <2> QED
    BY <2>1, <2>2 DEF Settled, Done, ReadOfSource, CommittedOfSource, Inbox, sourceVars, clientVars, targetVars
<1>4. CASE UNCHANGED vars
  BY <1>4 DEF vars, Settled, Done, ReadOfSource, CommittedOfSource, Inbox, sourceVars, clientVars,
              linkVars, targetVars, ghosts, meetings
<1> QED
  BY <1>2, <1>3, <1>4

\* What the agent publishes while the client waits is what was committed.
LEMMA AgentSettles ==
  ASSUME Vouching, Settled, AgentStep(session) \/ Killed(session)
  PROVE  Settled'
<1>1. /\ Typed /\ Ordered /\ Turns /\ Connected /\ AgentsTyped /\ FilesTyped /\ session \in Sessions
  BY DEF Vouching, IInv, Typed
<1>2. Moves(session) /\ UNCHANGED <<sourceVars, clientVars, linkVars, steady>>
  BY <1>1, AgentMoves DEF Moves, Quiet
<1>3. /\ ~crossed' => ~crossed /\ (UNCHANGED dest \/ Publish(session))
      /\ ~belated' => ~belated
  BY <1>1, MeetingsStay, AgentPuts
<1>4. CommittedOfSource => CommittedOfSource'
  <2> SUFFICES ASSUME CommittedOfSource, up
               PROVE  CommittedOfSource'
    BY <1>2 DEF CommittedOfSource, linkVars
  <2>1. Reads(session)
    BY <1>1, <1>2 DEF Moves, Describes, Starts, Absorbs, Concludes, Stops, Connected
  <2>2. \A i \in DOMAIN agents'[session].inbox :
          i + 1 \in DOMAIN Inbox(session) /\ agents'[session].inbox[i] = Inbox(session)[i + 1]
    BY <1>1, <2>1, Shifted
  <2> QED
    BY <1>2, <2>2 DEF CommittedOfSource, Inbox, sourceVars, linkVars
<1>5. ReadOfSource => ReadOfSource'
  BY <1>2 DEF ReadOfSource, sourceVars, clientVars
<1>6. ASSUME Done
      PROVE  ~Publish(session) /\ agents'[session].at \in {"requests", "over"} /\ agents'[session].inbox = <<>>
  <2>1. agents[session].at \in {"requests", "over"} /\ Inbox(session) = <<>>
    BY <1>6 DEF Settled
  <2>2. ~Publish(session)
    BY <2>1 DEF Publish, Receives, Inbox
  <2>3. Stops(session)
    BY <1>2, <2>1 DEF Moves, Describes, Starts, Absorbs, Concludes, Reads
  <2> QED
    BY <2>2, <2>3 DEF Stops
<1>7. ASSUME steady, ~crossed', ~belated', client = "waiting", replies' = <<Ok>>
      PROVE  dest' = source
  <2>1. CASE replies = <<Ok>>
    <3>1. up
      BY <1>1, <2>1 DEF Connected
    <3>2. AtRest(session)
      BY <1>1, <1>7, <2>1, <3>1, TurnOf DEF Streamed, Concluded
    <3>3. ~Publish(session)
      BY <3>2 DEF AtRest, Publish, Receives, Inbox
    <3> QED
      BY <1>3, <1>7, <2>1, <3>3 DEF Settled
  <2>2. CASE replies # <<Ok>>
    <3>1. up
      <4>1. \A reply : ~up /\ Reply(session, reply) => replies' = replies
        BY DEF Reply
      <4>2. ~up => replies' = replies
        BY <1>2, <4>1 DEF Moves, Describes, Starts, Absorbs, Concludes, Stops
      <4> QED
        BY <1>7, <2>2, <4>2
    <3>2. Streamed
      <4>1. ~Concluded
        <5>1. CASE AtRest(session)
          <6>1. Stops(session)
            BY <1>2, <5>1 DEF AtRest, Moves, Describes, Starts, Absorbs, Concludes, Reads
          <6> QED
            BY <1>7, <2>2, <6>1 DEF Stops
        <5> QED
          BY <5>1 DEF Concluded
      <4> QED
        BY <1>1, <1>7, <3>1, <4>1, TurnOf
    <3>3. ASSUME ~Publish(session)
          PROVE  FALSE
      <4>1. CASE Discard(session)
        <5>1. replies' = <<Error>>
          BY <3>1, <3>2, <4>1 DEF Discard, Reply, Streamed
        <5> QED
          BY <1>7, <5>1 DEF Ok, Error
      <4>2. CASE Answer(session)
        <5>1. AtRest(session) \/ Inbox(session)[1].kind \in {"index", "signature", "resume"}
          BY <1>1, <4>2, Received DEF Answer, Receives, Inbox
        <5> QED
          BY <3>2, <4>2, <5>1 DEF Streamed, InStream, AtRest, Answer, Transferring, Receives, Inbox
      <4>3. CASE ~Discard(session) /\ ~Answer(session)
        <5>1. UNCHANGED replies
          BY <3>3, <4>3
          DEF AgentStep, Killed, BeginFile, BeginPatch, BeginFresh, BeginResumed, Refuse, TakeContent,
              FileCut, PatchCut, SessionEnds
        <5> QED
          BY <1>7, <2>2, <5>1
      <4> QED
        BY <4>1, <4>2, <4>3
    <3>4. /\ Publish(session) /\ Inbox(session) # <<>>
          /\ Inbox(session)[1].kind \in {"commit", "index"}
      BY <1>1, <1>7, <3>3, Published
    <3>5. 1 \in DOMAIN Inbox(session) /\ Len(Inbox(session)) \in Nat
          /\ DOMAIN Inbox(session) = 1..Len(Inbox(session))
      <4>1. Inbox(session) \in Seq(Frames)
        BY <1>1 DEF AgentsTyped, AgentRecords, Inbox
      <4> QED
        BY <1>1, <3>4, <4>1, Received, LenProperties
    <3>6. Inbox(session)[1].kind = "commit"
      <4>1. PICK i \in DOMAIN Inbox(session) : Inbox(session)[i].kind \in Ends
        BY <3>2 DEF Streamed, EndSent
      <4>2. i = Len(Inbox(session)) /\ 1 = Len(Inbox(session))
        BY <1>1, <3>4, <3>5, <4>1 DEF Ordered, OrderedAt, Finals, Ends
      <4> QED
        BY <3>4, <4>1, <4>2 DEF Ends
    <3>7. dest' = File(temp.data, Inbox(session)[1].time) /\ temp.data = Inbox(session)[1].hash
      BY <1>1, <1>7, <3>4, <3>6, Published
    <3>8. CommittedOfSource
      BY <1>7 DEF Settled
    <3>9. dest' = File(source.data, source.time)
      BY <3>1, <3>5, <3>6, <3>7, <3>8 DEF CommittedOfSource
    <3> QED
      BY <1>1, <3>9 DEF File, FilesTyped, Files
  <2> QED
    BY <2>1, <2>2
<1>8. Done' = Done /\ steady' = steady /\ client' = client /\ source' = source /\ session' = session
  BY <1>2 DEF Done, clientVars, sourceVars, linkVars
<1>9. Done => agents'[session'].at \in {"requests", "over"} /\ Inbox(session)' = <<>>
  BY <1>6, <1>8 DEF Inbox
<1>10. steady => ReadOfSource' /\ CommittedOfSource'
  BY <1>4, <1>5 DEF Settled
<1>11. ASSUME steady, ~crossed', ~belated', Done
       PROVE  dest' = source
  BY <1>3, <1>6, <1>11 DEF Settled
<1> QED
  BY <1>7, <1>8, <1>9, <1>10, <1>11 DEF Settled

\* What the agent of a lost session does, the client does not hear of; and it has not published.
LEMMA OthersSettle ==
  ASSUME Vouching, Settled, NEW s \in Sessions, s # session, AgentStep(s) \/ Killed(s)
  PROVE  Settled'
<1>1. Typed /\ session \in Sessions
  BY DEF Vouching, IInv, Typed
<1>2. Moves(s) /\ UNCHANGED <<sourceVars, clientVars, linkVars, steady>>
  BY <1>1, AgentMoves DEF Moves, Quiet
<1>3. ~crossed' /\ ~belated' => ~crossed /\ ~belated /\ UNCHANGED dest
  BY MeetingsStay, AgentPuts
<1>4. agents'[session].inbox = agents[session].inbox /\ agents'[session].at = agents[session].at
  BY <1>1, <1>2 DEF Moves, Unheard
<1>5. UNCHANGED replies
  <2>1. \A reply : Reply(s, reply) => replies' = replies
    BY DEF Reply
  <2> QED
    BY <1>2, <2>1 DEF Moves, Describes, Starts, Absorbs, Concludes, Stops
<1>6. /\ Done' = Done /\ ReadOfSource' = ReadOfSource /\ CommittedOfSource' = CommittedOfSource
      /\ steady' = steady /\ client' = client /\ source' = source /\ session' = session
  BY <1>2, <1>4 DEF Done, ReadOfSource, CommittedOfSource, Inbox, clientVars, sourceVars, linkVars
<1> QED
  BY <1>3, <1>4, <1>5, <1>6 DEF Settled, Inbox

LEMMA SettledKept ==
  ASSUME Vouching, Vouching', Settled, [Next]_vars
  PROVE  Settled'
<1>1. IInv /\ IInv'
  BY DEF Vouching
<1>2. CASE Environment \/ Drop \/ UNCHANGED vars
  BY <1>1, <1>2, ElsewhereSettles
<1>3. CASE \E s \in Sessions : AgentStep(s) \/ Killed(s)
  BY <1>3, AgentSettles, OthersSettle
<1>4. CASE SendCommit \/ SendAbort
  BY <1>1, <1>4, CommitSettles
<1>5. CASE GotReply
  BY <1>1, <1>5, ReplySettles
<1>6. CASE SendBlock \/ (Open /\ client' = "sending")
  BY <1>1, <1>6, ReadingSettles
<1>7. CASE \/ Look \/ GotIndex \/ GotSignature \/ GotResumeState \/ (Open /\ client' # "sending")
           \/ NoStamp \/ GiveUp
  <2>1. client' \notin {"sending", "waiting"} /\ (client' = "idle" => outcome' # "ok")
    BY <1>7 DEF Look, GotIndex, GotSignature, GotResumeState, Open, NoStamp, GiveUp, Returned
  <2> QED
    BY <1>1, <2>1, AsideSettles
<1>8. CASE ReissueRequest \/ RestartFile \/ RestartPatch
  BY <1>1, <1>8, Restarting, AsideSettles
<1> QED
  BY <1>2, <1>3, <1>4, <1>5, <1>6, <1>7, <1>8 DEF Next, Client

\* When write_file or patch_file returns Ok, and the source has kept still since the pass
\* asked for its index, the target has the source's content and its time, whatever was lost,
\* resumed or sent again on the way; unless the agent of a lost session has published
\* meanwhile, or has had its temporary in common with another.
THEOREM TransferAcknowledged == Spec => []Acknowledged
<1>1. Init => Settled
  BY Initial, TurnsUnended, NothingClaimed DEF Init, IInv, Done
<1>2. Settled /\ Vouching /\ Vouching' /\ [Next]_vars => Settled'
  BY SettledKept
<1>3. Settled => Acknowledged
  BY DEF Settled, Acknowledged, Done
<1> QED
  BY <1>1, <1>2, <1>3, VouchingHolds, PTL DEF Spec
=============================================================================
