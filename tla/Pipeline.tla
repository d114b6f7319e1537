----------------------------- MODULE Pipeline ------------------------------
(***************************************************************************)
(* The watcher and the queue above it, joined as they run: next_batch and  *)
(* drain ask the stream for an event and merge, or turn into a batch, what *)
(* recv or try_recv answers, with nothing awaited in between.  A path is   *)
(* told of twice on its way to the sync, by the watcher to the queue and   *)
(* by a batch to the sync; between the two it is only in the queue.        *)
(*                                                                         *)
(* EventQueue takes events and rescans in any order from anywhere.  Here   *)
(* they are the ones the watcher's two threads produce.                    *)
(***************************************************************************)
EXTENDS Watcher, EventQueue

vars == <<watcherVars, queueVars>>

-----------------------------------------------------------------------------
(* The backend's thread, which ends between two reports when it does *)

Reported ==
  /\ ~closed
  /\ \E report \in Reports : Report(report)
  /\ UNCHANGED queueVars

Dispatching == Dispatch /\ UNCHANGED queueVars

\* What is still in the channel is delivered first.
Stopped ==
  /\ backend = "ready" /\ folders = <<>> /\ outbox = <<>> /\ channel = <<>>
  /\ WatcherStops
  /\ UNCHANGED watcherVars

-----------------------------------------------------------------------------
(* The sync's task, asking *)

Asking == call \in {"idle", "ended"} \/ (call = "window" /\ RoomInWindow)

Asked == Asking /\ Call /\ UNCHANGED queueVars

\* The purge is one poll of recv: nothing else of the task comes in between.
Purging == (Purge \/ LostPurged \/ TakeScope) /\ UNCHANGED queueVars

Merged ==
  /\ Receive
  /\ \E event \in Events :
       /\ event.path = Head(channel)
       /\ RecvFirst(event) \/ RecvNext(event) \/ DrainRecv(event)

Rescanned == LowerFlag /\ (RecvRescan(taken) \/ DrainRescan(taken))

\* recv is dropped in its wait, or says that the stream has ended; try_recv
\* finds nothing.
Unanswered ==
  /\ GiveUp
  /\ \/ Cancel \/ StreamEnds \/ WindowCloses
     \/ channel = <<>> /\ (DrainFlush \/ DrainNone)

-----------------------------------------------------------------------------
(* The sync's task, not asking *)

Between ==
  /\ stream = "idle"
  /\ NextBatch \/ Cancel \/ (WindowCloses /\ (~RoomInWindow \/ remaining = 0))
  /\ UNCHANGED watcherVars

Ticked == Tick /\ UNCHANGED watcherVars

\* The queue goes with the run that owns it, and the stream with the queue.
Dropped == call = "drained" /\ Drop /\ UNCHANGED queueVars

-----------------------------------------------------------------------------
Init == WatcherInit /\ QueueInit

Next ==
  \/ Reported \/ Dispatching \/ Stopped
  \/ Asked \/ Purging \/ Merged \/ Rescanned \/ Unanswered
  \/ Between \/ Ticked \/ Dropped

Spec == Init /\ [][Next]_vars

-----------------------------------------------------------------------------
\* Changed since a batch last named the path or a re-walk the sync was told of
\* last covered it.
Unannounced == unheard \cup owed

\* The path is going to be named by a batch or walked: the watcher knows it, or
\* the queue does.
OnItsWay(p) == EventComing(p) \/ WalkOwed(p) \/ p \in pending

\* README "Lost events cost a re-walk, never correctness", of the two together: a
\* change no batch has announced is on its way to one, whatever the interleaving
\* of threads, windows, cancellation and draining, and the one step that drops it
\* on the floor is take_rescan, when the rescan is of a directory it is not under.
MissedOnlyByRescan ==
  [][\A p \in Unannounced' :
       (p \in Unannounced => OnItsWay(p)) /\ stream' # "gone" =>
          \/ OnItsWay(p)'
          \/ Rescanned /\ p \in pending /\ ~IsUnder(p, taken)]_vars
=============================================================================
