------------------------------ MODULE Watcher ------------------------------
(***************************************************************************)
(* The watcher: the backend's thread (dispatch) on one side, the task that *)
(* owns the EventStream (recv, try_recv, take_rescan) on the other, and    *)
(* between them a bounded channel and the RescanSignal, an atomic flag     *)
(* next to a mutex-protected scope.  The two threads interleave at the     *)
(* granularity of one channel operation, one critical section of the mutex *)
(* or one access of the flag outside it.                                   *)
(*                                                                         *)
(* An FsEvent is abstracted to its path: the kind and the rename cookie    *)
(* ride along unexamined here, and EventQueue models what uses them.       *)
(*                                                                         *)
(* "unheard" is not a variable of the program.  It is the set of paths     *)
(* that have changed since the consumer was last told of them, by an event *)
(* naming the path or by a re-walk that visits it.                         *)
(***************************************************************************)
EXTENDS WatchRoot

CONSTANTS
  Watched,     \* the paths at or beneath it that may change
  Reports,     \* what the backend may hand to dispatch
  Capacity     \* EVENT_CHANNEL_CAPACITY

\* The shapes of notify::Event that dispatch and translate tell apart: a
\* kernel drop or backend error, the appearance of a folder, a rename whose
\* halves come together, an access (or Other), and any other change.
ReportKind == {"dropped", "folder", "both", "access", "change"}

ASSUME WatchedAssumption ==
  /\ Watched \subseteq Path
  /\ \A p \in Watched : IsUnder(p, Root)
\* notify promises both paths of a rename it reports in one event.
ASSUME ReportsAssumption ==
  /\ Reports \subseteq [kind : ReportKind, paths : Seq(Watched)]
  /\ \A r \in Reports : r.kind = "both" => Len(r.paths) = 2
ASSUME CapacityAssumption == Capacity \in Nat \ {0}

VARIABLES
  scope,          \* RescanSignal.scope
  rescanPending,  \* RescanSignal.pending
  channel,        \* the mpsc channel, oldest first
  backend,        \* where dispatch stands
  folders,        \* new directories dispatch has still to fold into the scope
  outbox,         \* translated events dispatch has still to send
  stream,         \* where recv, try_recv or take_rescan stands
  purged,         \* the event take_rescan has just discarded
  taken,          \* the directory RescanSignal::take is about to return
  unheard         \* changed, and the consumer not told

signalVars  == <<scope, rescanPending>>
backendVars == <<backend, folders, outbox>>
streamVars  == <<stream, purged, taken>>
watcherVars ==
  <<scope, rescanPending, channel, backend, folders, outbox, stream, purged, taken, unheard>>

-----------------------------------------------------------------------------
(* RescanSignal *)

Clean      == [extent |-> "Clean", dir |-> Root]
Everything == [extent |-> "Everything", dir |-> Root]
Subtree(d) == [extent |-> "Subtree", dir |-> d]

Scope == [extent : {"Clean", "Subtree", "Everything"}, dir : Path]

\* Variant: take gives the mutex up before it lowers the flag.
MutexNotHeld == TRUE

\* The mutex is held across two steps only by RescanSignal::take, between
\* replacing the scope and clearing the flag; every other critical section is
\* a step of its own.
MutexFree == stream # "clearing"

Widened(s, directory) ==
  IF s.extent = "Clean" THEN Subtree(directory)
  ELSE IF s.extent = "Subtree" THEN Subtree(CommonAncestor(s.dir, directory))
  ELSE Everything

Widen(directory) ==
  /\ scope' = Widened(scope, directory)
  /\ rescanPending' = TRUE

\* Where a re-walk starts: the narrowed directory, clamped to the watch root.
RescanRoot(s) ==
  IF s.extent = "Subtree" /\ IsUnder(s.dir, Root) THEN s.dir ELSE Root

-----------------------------------------------------------------------------
(* dispatch, on the backend's thread *)

\* Which of a report's paths become events.  A rename reported as one event
\* needs both its halves; without them it is no event at all.
Translate(report) ==
  CASE report.kind = "both" ->
         IF Len(report.paths) >= 2 THEN SubSeq(report.paths, 1, 2) ELSE <<>>
    [] report.kind \in {"folder", "change"} -> report.paths
    [] OTHER -> <<>>

\* What has changed in the tree when the backend hands over a report.  The
\* kernel does not say what it dropped, and a directory is watched only some
\* time after it appears, so anything inside one may change unreported.
Changed(report) ==
  CASE report.kind = "dropped" -> SUBSET Watched
    [] report.kind = "folder" ->
         {{report.paths[i] : i \in DOMAIN report.paths} \cup inside :
            inside \in SUBSET UNION {Beneath(Watched, report.paths[i]) : i \in DOMAIN report.paths}}
    [] report.kind = "access" -> {{}}
    [] OTHER -> {{report.paths[i] : i \in DOMAIN report.paths}}

Report(report) ==
  /\ backend = "ready" /\ folders = <<>> /\ outbox = <<>>
  /\ \E changed \in Changed(report) : unheard' = unheard \cup changed
  /\ IF report.kind = "dropped"
       THEN backend' = "dropped" /\ UNCHANGED <<folders, outbox>>
       ELSE /\ folders' = IF report.kind = "folder" THEN report.paths ELSE <<>>
            /\ outbox' = Translate(report)
            /\ UNCHANGED backend
  /\ UNCHANGED <<signalVars, channel, streamVars>>

\* lost_everything releases the mutex before it raises the flag.
LostEverything ==
  /\ backend = "dropped" /\ MutexFree
  /\ scope' = Everything
  /\ backend' = "raising"
  /\ UNCHANGED <<rescanPending, channel, folders, outbox, streamVars, unheard>>

RaiseFlag ==
  /\ backend = "raising"
  /\ rescanPending' = TRUE
  /\ backend' = "ready"
  /\ UNCHANGED <<scope, channel, folders, outbox, streamVars, unheard>>

\* Every new directory is folded in before any of the report's events is sent.
LostUnder ==
  /\ backend = "ready" /\ folders # <<>> /\ MutexFree
  /\ Widen(Head(folders))
  /\ folders' = Tail(folders)
  /\ UNCHANGED <<channel, backend, outbox, streamVars, unheard>>

Sending == backend = "ready" /\ folders = <<>> /\ outbox # <<>>

\* Variant: the channel is unbounded.
TrySendUnbounded ==
  /\ Sending /\ stream # "gone"
  /\ channel' = Append(channel, Head(outbox))
  /\ outbox' = Tail(outbox)
  /\ UNCHANGED <<signalVars, backend, folders, streamVars, unheard>>

TrySendAccepted ==
  /\ Sending /\ stream # "gone" /\ Len(channel) < Capacity
  /\ channel' = Append(channel, Head(outbox))
  /\ outbox' = Tail(outbox)
  /\ UNCHANGED <<signalVars, backend, folders, streamVars, unheard>>

TrySendFull ==
  /\ Sending /\ stream # "gone" /\ Len(channel) >= Capacity
  /\ backend' = "refused"
  /\ UNCHANGED <<signalVars, channel, folders, outbox, streamVars, unheard>>

\* The consumer is gone: the rest of the report is abandoned.
TrySendClosed ==
  /\ Sending /\ stream = "gone"
  /\ outbox' = <<>>
  /\ UNCHANGED <<signalVars, channel, backend, folders, streamVars, unheard>>

\* Variant: a full channel ends the report, the way a closed one does.
LostRefusedAbandons ==
  /\ backend = "refused" /\ MutexFree
  /\ Widen(Parent(Head(outbox)))
  /\ outbox' = <<>>
  /\ backend' = "ready"
  /\ UNCHANGED <<channel, folders, streamVars, unheard>>

\* signal.lost(&path), and on to the next event of the report.
LostRefused ==
  /\ backend = "refused" /\ MutexFree
  /\ Widen(Parent(Head(outbox)))
  /\ outbox' = Tail(outbox)
  /\ backend' = "ready"
  /\ UNCHANGED <<channel, folders, streamVars, unheard>>

-----------------------------------------------------------------------------
(* EventStream, on the consumer's task *)

\* recv and try_recv look at the flag first, and never look again.
Call ==
  /\ stream = "idle"
  /\ stream' = IF rescanPending THEN "purging" ELSE "waiting"
  /\ UNCHANGED <<signalVars, channel, backendVars, purged, taken, unheard>>

Receive ==
  /\ stream = "waiting" /\ channel # <<>>
  /\ channel' = Tail(channel)
  /\ unheard' = unheard \ {Head(channel)}
  /\ stream' = "idle"
  /\ UNCHANGED <<signalVars, backendVars, purged, taken>>

\* try_recv finds nothing, or the batching window closes on a waiting recv.
GiveUp ==
  /\ stream = "waiting"
  /\ stream' = "idle"
  /\ UNCHANGED <<signalVars, channel, backendVars, purged, taken, unheard>>

Purge ==
  /\ stream = "purging" /\ channel # <<>>
  /\ purged' = Head(channel)
  /\ channel' = Tail(channel)
  /\ stream' = "discarding"
  /\ UNCHANGED <<signalVars, backendVars, taken, unheard>>

LostPurged ==
  /\ stream = "discarding"
  /\ Widen(Parent(purged))
  /\ purged' = Root
  /\ stream' = "purging"
  /\ UNCHANGED <<channel, backendVars, taken, unheard>>

\* RescanSignal::take, first half: the channel came up empty.
TakeScope ==
  /\ stream = "purging" /\ channel = <<>>
  /\ taken' = RescanRoot(scope)
  /\ scope' = Clean
  /\ stream' = "clearing"
  /\ UNCHANGED <<rescanPending, channel, backendVars, purged, unheard>>

\* Second half: the flag is lowered, the mutex released and Rescan returned.
LowerFlag ==
  /\ stream = "clearing"
  /\ rescanPending' = FALSE
  /\ unheard' = unheard \ Beneath(Watched, taken)
  /\ taken' = Root
  /\ stream' = "idle"
  /\ UNCHANGED <<scope, channel, backendVars, purged>>

\* The consumer drops its EventStream, which closes the channel.
Drop ==
  /\ stream = "idle"
  /\ stream' = "gone"
  /\ channel' = <<>>
  /\ UNCHANGED <<signalVars, backendVars, purged, taken, unheard>>

-----------------------------------------------------------------------------
WatcherInit ==
  /\ scope = Clean
  /\ rescanPending = FALSE
  /\ channel = <<>>
  /\ backend = "ready" /\ folders = <<>> /\ outbox = <<>>
  /\ stream = "idle" /\ purged = Root /\ taken = Root
  /\ unheard = {}

Dispatch ==
  \/ LostEverything \/ RaiseFlag \/ LostUnder
  \/ TrySendAccepted \/ TrySendFull \/ TrySendClosed \/ LostRefused

\* What the consumer does once it has asked for an event.
Answer == Receive \/ Purge \/ LostPurged \/ TakeScope \/ LowerFlag

WatcherNext ==
  \/ \E report \in Reports : Report(report)
  \/ Dispatch
  \/ Call \/ Answer \/ GiveUp \/ Drop

WatcherSpec == WatcherInit /\ [][WatcherNext]_watcherVars

\* The backend's thread runs, and the consumer's task is polled.  Nothing ends
\* a recv that an idle queue waits in, so a channel that is never empty for long
\* is received from; and for the same reason nothing is assumed of GiveUp, which
\* only a window that is open or a try_recv is sure to take.
WatcherFairSpec ==
  /\ WatcherSpec
  /\ WF_watcherVars(Dispatch)
  /\ WF_watcherVars(Call \/ Answer)
  /\ SF_watcherVars(Receive)

-----------------------------------------------------------------------------
WatcherTypeOK ==
  /\ scope \in Scope
  /\ rescanPending \in BOOLEAN
  /\ channel \in Seq(Watched) /\ Len(channel) <= Capacity
  /\ backend \in {"ready", "dropped", "raising", "refused"}
  /\ folders \in Seq(Watched)
  /\ outbox \in Seq(Watched)
  /\ stream \in {"idle", "waiting", "purging", "discarding", "clearing", "gone"}
  /\ purged \in Path
  /\ taken \in Path
  /\ unheard \subseteq Watched

Within(p, s) == \E i \in DOMAIN s : s[i] = p

\* An event naming the path is on its way to the consumer.
EventComing(p) == Within(p, channel) \/ Within(p, outbox)

Covers(s, p) ==
  \/ s.extent = "Everything"
  \/ s.extent = "Subtree" /\ IsUnder(p, s.dir)

\* A re-walk visiting the path is owed: recorded in the scope, or about to be
\* recorded or delivered by the thread that holds the loss in its hands.
WalkOwed(p) ==
  \/ Covers(scope, p)
  \/ backend = "dropped"
  \/ \E i \in DOMAIN folders : IsUnder(p, folders[i])
  \/ stream = "discarding" /\ purged = p
  \/ stream = "clearing" /\ IsUnder(p, taken)

\* README "Lost events cost a re-walk, never correctness": whatever the
\* interleaving of dispatch with a purge, a path that changed and that no event
\* will name lies under the directory some re-walk is going to visit.
NothingLost == stream # "gone" => \A p \in unheard : EventComing(p) \/ WalkOwed(p)

\* scope.rs "a reader that sees `pending` also sees the widened scope", and the
\* converse that makes it useful: a recorded loss is never left behind a lowered
\* flag, where no later recv would look for it.
LossFlagged == scope.extent # "Clean" => rescanPending \/ backend = "raising"

TreeQuiet == <>[][~ \E report \in Reports : Report(report)]_watcherVars

\* recv waits on an empty channel, past a flag it looked at before it was raised.
AsleepOnALoss == stream = "waiting" /\ channel = <<>> /\ rescanPending

\* Once the tree is quiet for good, a consumer that keeps asking is told of every
\* change, or drops its stream, or sleeps for good in a recv that a loss does not
\* wake (mod.rs:153): no other interleaving of the two threads leaves a loss
\* recorded where it is never reported.
EverythingHeard ==
  TreeQuiet =>
    \A p \in Watched : p \in unheard ~> (p \notin unheard \/ stream = "gone" \/ []AsleepOnALoss)

\* The same without the sleep, as README "Lost events cost a re-walk, never
\* correctness" reads.
EverythingIsHeard ==
  TreeQuiet => \A p \in Watched : p \in unheard ~> (p \notin unheard \/ stream = "gone")
=============================================================================
