----------------------------- MODULE EventQueue -----------------------------
(***************************************************************************)
(* The event queue: events accumulate over a window that opens on the      *)
(* first of them, and leave it as one batch.  The module drives the queue  *)
(* the way the sync loop does: next_batch until the loop is cancelled,     *)
(* which drops the call wherever it stands, or the stream ends; then drain *)
(* until nothing is left.                                                  *)
(*                                                                         *)
(* The stream is any order of events and rescans.  Both halves of a rename *)
(* carry the kernel's cookie, but either may come first, twice or never:   *)
(* inotify's backend reports the halves and then the pair, and a full      *)
(* channel refuses some of them.                                           *)
(*                                                                         *)
(* "owed" is not a variable of the program: the paths of the events taken  *)
(* from the stream that no batch has named and no re-walk has covered.     *)
(***************************************************************************)
EXTENDS WatchRoot

CONSTANTS
  Events,      \* the FsEvents the stream may yield
  Rescans,     \* the directories a Rescan may name
  NoCookie,    \* tracker: None
  MaxPending,  \* QueueConfig.max_pending
  Delay        \* QueueConfig.delay, in ticks of the clock

ASSUME EventsAssumption ==
  Events \subseteq [kind : {"change", "from", "to"}, path : Path, cookie : Nat \cup {NoCookie}]
ASSUME EventsInside == \A e \in Events : IsUnder(e.path, Root)
ASSUME RescansAssumption == Rescans \subseteq Path
ASSUME ConfigAssumption == MaxPending \in Nat \ {0} /\ Delay \in Nat

VARIABLES
  pending,       \* the distinct paths accumulated
  halfMoves,     \* the renames half seen: at most one event for a cookie
  renames,       \* the renames seen whole
  windowOpened,  \* window_opened is Some
  call,          \* where next_batch, drain and their caller stand
  remaining,     \* ticks until the deadline of the window
  closed,        \* the watcher has stopped and its channel is empty
  batch,         \* what the last call returned
  owed

window == <<pending, halfMoves, renames, windowOpened>>
queueVars == <<pending, halfMoves, renames, windowOpened, call, remaining, closed, batch, owed>>

NoBatch == [kind |-> "none"]
Changes(paths, moves) == [kind |-> "changes", paths |-> paths, renames |-> moves]
Rescan(root) == [kind |-> "rescan", root |-> root]

-----------------------------------------------------------------------------
(* merge, flush and take_rescan *)

Rename(half, other) ==
  IF half.kind = "from" THEN [from |-> half.path, to |-> other.path]
                        ELSE [from |-> other.path, to |-> half.path]

\* Variant: the half that completes a rename stays on record, and joins the other.
MergeNeverRemoves(event) ==
  /\ windowOpened' = TRUE
  /\ pending' = pending \cup {event.path}
  /\ owed' = owed \cup {event.path}
  /\ IF event.cookie = NoCookie \/ event.kind = "change"
       THEN UNCHANGED <<halfMoves, renames>>
       ELSE LET partner == {h \in halfMoves : h.cookie = event.cookie /\ h.kind # event.kind}
            IN /\ renames' = renames \cup {Rename(event, h) : h \in partner}
               /\ halfMoves' = halfMoves \cup {event}

Merge(event) ==
  /\ windowOpened' = TRUE
  /\ pending' = pending \cup {event.path}
  /\ owed' = owed \cup {event.path}
  /\ IF event.cookie = NoCookie \/ event.kind = "change"
       THEN UNCHANGED <<halfMoves, renames>>
       ELSE LET same    == {h \in halfMoves : h.cookie = event.cookie}
                partner == {h \in same : h.kind # event.kind}
            IN /\ renames' = renames \cup {Rename(event, h) : h \in partner}
               /\ halfMoves' = (halfMoves \ same) \cup (IF partner = {} THEN {event} ELSE {})

\* Variant: the halves wait on for partners in a later window.
EmptiedKeepsHalves ==
  /\ pending' = {}
  /\ renames' = {}
  /\ windowOpened' = FALSE
  /\ UNCHANGED halfMoves

\* Leaves the window empty, the halves without a partner included.
Emptied ==
  /\ pending' = {}
  /\ halfMoves' = {}
  /\ renames' = {}
  /\ windowOpened' = FALSE

Flush ==
  /\ batch' = Changes(pending, renames)
  /\ owed' = owed \ pending
  /\ Emptied

\* What had accumulated is discarded: the walk is taken to subsume it.
TakeRescan(root) ==
  /\ batch' = Rescan(root)
  /\ owed' = owed \ Beneath(owed, root)
  /\ Emptied

-----------------------------------------------------------------------------
(* next_batch *)

NextBatch ==
  /\ call = "returned"
  /\ call' = "idle"
  /\ UNCHANGED <<window, remaining, closed, batch, owed>>

RecvFirst(event) ==
  /\ call = "idle" /\ ~closed
  /\ Merge(event)
  /\ remaining' = Delay
  /\ call' = "window"
  /\ UNCHANGED <<closed, batch>>

\* Variant: one path too many.
RoomForOneMore == Cardinality(pending) <= MaxPending

\* The loop's condition, examined before every turn of the select.
RoomInWindow == Cardinality(pending) < MaxPending

\* Variant: a debounce, which every event starts over.
RecvNextDebounced(event) ==
  /\ call = "window" /\ ~closed /\ RoomInWindow
  /\ Merge(event)
  /\ remaining' = Delay
  /\ UNCHANGED <<call, closed, batch>>

\* The deadline stays where the first event put it.
RecvNext(event) ==
  /\ call = "window" /\ ~closed /\ RoomInWindow
  /\ Merge(event)
  /\ UNCHANGED <<call, remaining, closed, batch>>

\* recv and try_recv look at the rescan flag before they look at the channel,
\* so that a rescan may still come once the stream has ended.
RecvRescan(root) ==
  /\ call = "idle" \/ (call = "window" /\ RoomInWindow)
  /\ TakeRescan(root)
  /\ call' = "returned"
  /\ UNCHANGED <<remaining, closed>>

\* The window is cut short, or its deadline passes, or the stream ends in it.
WindowCloses ==
  /\ call = "window"
  /\ ~RoomInWindow \/ remaining = 0 \/ closed
  /\ Flush
  /\ call' = "returned"
  /\ UNCHANGED <<remaining, closed>>

\* recv returned None with nothing accumulated: next_batch returns None and the
\* loop goes on to drain.
StreamEnds ==
  /\ call = "idle" /\ closed
  /\ batch' = NoBatch
  /\ call' = "ended"
  /\ UNCHANGED <<window, remaining, closed, owed>>

\* Variant: what the call had accumulated goes with it.
CancelDiscards ==
  /\ call \in {"idle", "window"}
  /\ call' = "ended"
  /\ Emptied
  /\ UNCHANGED <<remaining, closed, batch, owed>>

\* The loop's token fires while it selects: the call is dropped at its await.
Cancel ==
  /\ call \in {"idle", "window"}
  /\ call' = "ended"
  /\ UNCHANGED <<window, remaining, closed, batch, owed>>

-----------------------------------------------------------------------------
(* drain, called until it returns None *)

DrainRecv(event) ==
  /\ call = "ended" /\ ~closed
  /\ Merge(event)
  /\ UNCHANGED <<call, remaining, closed, batch>>

DrainRescan(root) ==
  /\ call = "ended"
  /\ TakeRescan(root)
  /\ UNCHANGED <<call, remaining, closed>>

\* try_recv comes up empty, now or for good.
DrainFlush ==
  /\ call = "ended" /\ pending # {}
  /\ Flush
  /\ UNCHANGED <<call, remaining, closed>>

DrainNone ==
  /\ call = "ended" /\ pending = {}
  /\ call' = "drained"
  /\ batch' = NoBatch
  /\ UNCHANGED <<window, remaining, closed, owed>>

-----------------------------------------------------------------------------
(* the clock and the watcher *)

Tick ==
  /\ call = "window" /\ remaining > 0
  /\ remaining' = remaining - 1
  /\ UNCHANGED <<window, call, closed, batch, owed>>

WatcherStops ==
  /\ ~closed
  /\ closed' = TRUE
  /\ UNCHANGED <<window, call, remaining, batch, owed>>

QueueInit ==
  /\ pending = {} /\ halfMoves = {} /\ renames = {} /\ windowOpened = FALSE
  /\ call = "returned" /\ remaining = Delay
  /\ closed = FALSE
  /\ batch = NoBatch
  /\ owed = {}

QueueNext ==
  \/ NextBatch \/ WindowCloses \/ StreamEnds \/ Cancel
  \/ \E event \in Events : RecvFirst(event) \/ RecvNext(event) \/ DrainRecv(event)
  \/ \E root \in Rescans : RecvRescan(root) \/ DrainRescan(root)
  \/ DrainFlush \/ DrainNone
  \/ Tick \/ WatcherStops

QueueSpec == QueueInit /\ [][QueueNext]_queueVars

\* The clock advances and a select with a branch ready completes.  Nothing is
\* assumed of the stream: it may have an event ready at every turn.
QueueFairSpec == QueueSpec /\ WF_queueVars(Tick) /\ WF_queueVars(WindowCloses)

-----------------------------------------------------------------------------
QueueTypeOK ==
  /\ pending \subseteq Path
  /\ halfMoves \subseteq Events
  /\ \A h, k \in halfMoves : h.cookie = k.cookie => h = k
  /\ renames \subseteq [from : Path, to : Path]
  /\ windowOpened \in BOOLEAN
  /\ call \in {"returned", "idle", "window", "ended", "drained"}
  /\ remaining \in 0..Delay
  /\ closed \in BOOLEAN
  /\ batch \in {NoBatch} \cup {Rescan(root) : root \in Rescans}
               \cup [kind : {"changes"}, paths : SUBSET Path, renames : SUBSET [from : Path, to : Path]]
  /\ owed \subseteq Path

\* Taken from the stream, and neither waiting here nor announced.
Forgotten == owed \ pending

ForgottenByRescan(p) ==
  \E root \in Rescans : (RecvRescan(root) \/ DrainRescan(root)) /\ ~IsUnder(p, root)

\* syncer.rs "Without this, cancelling would discard changes that were seen":
\* a path an event named waits here until a batch names it or a re-walk covers
\* it, also across a next_batch dropped in mid-window and through drain, which
\* ends with nothing waiting.  The one step that forgets any is take_rescan, of
\* a directory they do not lie in.
ForgottenOnlyByRescan ==
  [][/\ \A p \in Forgotten' : p \in Forgotten \/ ForgottenByRescan(p)
     /\ call' = "drained" => pending' = {}]_queueVars

\* mod.rs:299 "The walk observes the tree as it is now, which subsumes every path
\* waiting here": the same without that step.
NothingForgotten ==
  /\ owed \subseteq pending
  /\ call = "drained" => owed = {}

\* "Both endpoints of every rename also appear in paths", so that a consumer may
\* ignore renames; half a rename left over from an earlier window must not be
\* completed in this one.
RenamesAreSuspect ==
  batch.kind = "changes" =>
    \A move \in batch.renames : {move.from, move.to} \subseteq batch.paths

\* Changes.paths is "Never empty", and next_batch holds it to max_pending.
BatchSized ==
  /\ batch.kind = "changes" => batch.paths # {}
  /\ call = "returned" /\ batch.kind = "changes" => Cardinality(batch.paths) <= MaxPending

\* The lag reported for a batch is dated from its own first event: a window is
\* dated exactly while something waits in it.
WindowDated == windowOpened <=> pending # {}

\* "a debounce would never fire under continuous change": a window that has
\* opened closes, however many events keep arriving in it.
WindowEnds == call = "window" ~> call # "window"
=============================================================================
