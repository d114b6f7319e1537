------------------------------- MODULE Syncer -------------------------------
(***************************************************************************)
(* One sync entry, running: the full pass at startup, the loop that turns  *)
(* each batch into a pass and carries the failed paths forward, and the    *)
(* flush that a cancelled loop ends with.  The process may also die and be *)
(* started again.                                                          *)
(*                                                                         *)
(* The watcher and the queue appear as what Watcher and EventQueue show of *)
(* them: a set of paths owed, of which a batch of changes names some and a *)
(* rescan covers those beneath its root.  A pass appears as what Pass      *)
(* shows: it examines the paths of its scope, and each one that differs is *)
(* brought across or reported failed.                                      *)
(*                                                                         *)
(* "diverged", "owed", "dropped", "lost" and "forgotten" are not variables *)
(* of the program: the paths at which the trees differ, those the watcher  *)
(* and the queue have still to mention, and those that bound has dropped,  *)
(* that were in the scope of a pass that failed as a whole, or that the    *)
(* queue discarded for a rescan of another subtree, and that no pass has   *)
(* looked at since.                                                        *)
(***************************************************************************)
EXTENDS Paths

CONSTANTS
  Files,       \* the relative paths that may change
  MaxRetries,  \* MAX_RETRIES
  PassFaults,  \* whether a pass as a whole may fail once the loop runs
  MaxChanges,  \* bound: changes of the source
  MaxFaults,   \* bound: actions and passes that fail
  MaxStops     \* bound: cancellations and crashes

ASSUME FilesAssumption == Files \subseteq Path \ {<<>>} /\ IsFiniteSet(Files)
ASSUME LimitsAssumption ==
  /\ MaxRetries \in Nat
  /\ PassFaults \in BOOLEAN
  /\ MaxChanges \in Nat /\ MaxFaults \in Nat /\ MaxStops \in Nat

VARIABLES
  loop,      \* where run stands
  work,      \* where the pass in hand stands
  scope,     \* the paths the pass in hand covers
  todo,      \* the plan: the paths it has still to bring across
  failures,  \* ApplyReport.failed_paths
  retries,   \* the paths carried forward
  late,      \* SHUTDOWN_GRACE has elapsed
  diverged, owed, dropped, lost, forgotten,
  changes, faults, stops

pass == <<work, scope, todo, failures>>
tree == <<diverged, owed>>
abandoned == <<dropped, lost, forgotten>>
counters == <<changes, faults, stops>>
vars == <<loop, work, scope, todo, failures, retries, late, diverged, owed, dropped, lost, forgotten,
          changes, faults, stops>>

-----------------------------------------------------------------------------
(* reconcile_scope *)

StartPass(paths) ==
  /\ work' = "indexing"
  /\ scope' = paths
  /\ todo' = {} /\ failures' = {}

EndPass ==
  /\ work' = "none"
  /\ scope' = {} /\ todo' = {} /\ failures' = {}

PlanFor ==
  /\ work = "indexing"
  /\ todo' = scope \cap diverged
  /\ work' = "applying"
  /\ dropped' = dropped \ scope /\ lost' = lost \ scope /\ forgotten' = forgotten \ scope
  /\ UNCHANGED <<loop, scope, failures, retries, late, tree, counters>>

\* A copy takes the source as it is by then.
ApplyOne(path) ==
  /\ work = "applying" /\ path \in todo
  /\ todo' = todo \ {path}
  /\ diverged' = diverged \ {path}
  /\ UNCHANGED <<loop, work, scope, failures, retries, late, owed, abandoned, counters>>

ActionFails(path) ==
  /\ work = "applying" /\ path \in todo
  /\ faults < MaxFaults /\ faults' = faults + 1
  /\ todo' = todo \ {path}
  /\ failures' = failures \cup {path}
  /\ UNCHANGED <<loop, work, scope, retries, late, tree, abandoned, changes, stops>>

\* Indexing either side, or planning, gave an error instead.
PassError ==
  /\ work = "indexing"
  /\ faults < MaxFaults /\ faults' = faults + 1
  /\ PassFaults \/ loop = "starting"

Finished == work = "applying" /\ todo = {}

-----------------------------------------------------------------------------
(* run *)

\* Variant: the retries grow without a cap.
BoundedByNothing(paths) == {paths}

\* bound: deduplicated and cut to the cap; which paths sort first is left open.
Bounded(paths) ==
  {kept \in SUBSET paths :
     Cardinality(kept) = IF Cardinality(paths) > MaxRetries THEN MaxRetries ELSE Cardinality(paths)}

CarryForward(paths) ==
  \E kept \in Bounded(paths) :
    /\ retries' = kept
    /\ dropped' = dropped \cup (paths \ kept)

\* The watch comes first, then the pass over the whole tree.
StartupDone ==
  /\ loop = "starting" /\ Finished
  /\ CarryForward(failures)
  /\ EndPass
  /\ loop' = "selecting"
  /\ UNCHANGED <<late, tree, lost, forgotten, counters>>

\* It is fatal to fail as a whole: run returns the error.
StartupFails ==
  /\ loop = "starting" /\ PassError
  /\ EndPass
  /\ loop' = "exited"
  /\ UNCHANGED <<retries, late, tree, abandoned, changes, stops>>

\* Variant: the batch takes the place of the retries.
HandleChangesAlone(paths) ==
  /\ retries' = {}
  /\ StartPass(UNION {Beneath(Files, p) : p \in paths})

\* handle, of a batch of changes: the retries are folded in.  The pass covers what
\* lies beneath a named path as well.
HandleChanges(paths) ==
  /\ retries' = {}
  /\ StartPass(UNION {Beneath(Files, p) : p \in paths \cup retries})

\* Variant: a rescan is taken to subsume every retry.
HandleRescanForgets(prefix) ==
  /\ retries' = {}
  /\ StartPass(Beneath(Files, prefix))

\* handle, of a rescan: the retries it covers are subsumed by it.
HandleRescan(prefix) ==
  /\ retries' = retries \ Beneath(retries, prefix)
  /\ StartPass(Beneath(Files, prefix))

\* next_batch or drain returns a batch that mentions a path that is owed.
ChangesBatch(path) ==
  /\ path \in owed
  /\ \E more \in SUBSET owed :
       HandleChanges(more \cup {path}) /\ owed' = owed \ (more \cup {path})
  /\ UNCHANGED <<late, diverged, abandoned, counters>>

\* take_rescan: whatever the queue holds is discarded, beneath the prefix or elsewhere;
\* how much of what is owed has reached the queue is left open.
RescanBatch(path) ==
  /\ path \in owed
  /\ \E length \in 0..Len(path), held \in SUBSET owed :
       LET prefix == SubSeq(path, 1, length)
       IN  /\ HandleRescan(prefix)
           /\ owed' = owed \ (held \cup Beneath(owed, prefix))
           /\ forgotten' = forgotten \cup (held \ Beneath(owed, prefix))
  /\ UNCHANGED <<late, diverged, dropped, lost, counters>>

SelectChanges(path) == loop = "selecting" /\ ChangesBatch(path) /\ loop' = "handling"
SelectRescan(path)  == loop = "selecting" /\ RescanBatch(path) /\ loop' = "handling"

\* The end of handle.  What remained of the retries outside a rescan is carried on
\* with what failed; a pass that failed as a whole has no failed paths.
HandleDone ==
  /\ loop \in {"handling", "flushing"} /\ Finished
  /\ CarryForward(failures \cup retries)
  /\ EndPass
  /\ loop' = IF loop = "handling" THEN "selecting" ELSE "draining"
  /\ UNCHANGED <<late, tree, lost, forgotten, counters>>

HandleFails ==
  /\ loop \in {"handling", "flushing"} /\ PassError
  /\ CarryForward(retries)
  /\ lost' = lost \cup scope
  /\ EndPass
  /\ loop' = IF loop = "handling" THEN "selecting" ELSE "draining"
  /\ UNCHANGED <<late, tree, forgotten, changes, stops>>

\* The token is cancelled, or the watcher has stopped: looked at between batches.
Cancelled ==
  /\ loop = "selecting"
  /\ stops < MaxStops /\ stops' = stops + 1
  /\ loop' = "draining"
  /\ UNCHANGED <<pass, retries, late, tree, abandoned, changes, faults>>

-----------------------------------------------------------------------------
(* flush *)

DrainBatch(path) ==
  /\ loop = "draining" /\ ~late
  /\ ChangesBatch(path) \/ RescanBatch(path)
  /\ loop' = "flushing"

GraceElapses ==
  /\ loop \in {"draining", "flushing"} /\ ~late
  /\ late' = TRUE
  /\ UNCHANGED <<loop, pass, retries, tree, abandoned, counters>>

\* A batch drained after the deadline is left to the next startup pass.
GiveUp ==
  /\ loop = "draining" /\ late
  /\ \E some \in SUBSET owed : some # {} /\ owed' = owed \ some
  /\ loop' = "exited"
  /\ UNCHANGED <<pass, retries, late, diverged, abandoned, counters>>

\* drain found nothing, whatever has happened that it has not heard of: the last
\* attempt at what was failing, if anything was.
LastAttempt ==
  /\ loop = "draining"
  /\ IF retries = {}
       THEN loop' = "stopped" /\ UNCHANGED pass
       ELSE StartPass(retries) /\ loop' = "retrying"
  /\ UNCHANGED <<retries, late, tree, abandoned, counters>>

\* Its report is not looked at.
LastAttemptDone ==
  /\ loop = "retrying"
  /\ \/ Finished /\ UNCHANGED faults
     \/ PassError
  /\ loop' = "stopped"
  /\ UNCHANGED <<pass, retries, late, tree, abandoned, changes, stops>>

-----------------------------------------------------------------------------
(* the tree, and the process *)

Running == loop \notin {"exited", "stopped"}

\* Watched from before the startup pass, a change is owed as soon as it is made.
Change(path) ==
  /\ Running /\ changes < MaxChanges
  /\ changes' = changes + 1
  /\ diverged' = diverged \cup {path}
  /\ owed' = owed \cup {path}
  /\ UNCHANGED <<loop, pass, retries, late, abandoned, faults, stops>>

\* Something is reported that makes no difference to the mirror.
Touch(path) ==
  /\ Running
  /\ owed' = owed \cup {path}
  /\ UNCHANGED <<loop, pass, retries, late, diverged, abandoned, counters>>

Crash ==
  /\ Running
  /\ stops < MaxStops /\ stops' = stops + 1
  /\ loop' = "exited"
  /\ UNCHANGED <<pass, retries, late, tree, abandoned, changes, faults>>

\* Nothing is kept from one run to the next, and nobody saw what happened between.
Restart ==
  /\ ~Running /\ stops < MaxStops /\ stops' = stops + 1
  /\ loop' = "starting"
  /\ StartPass(Files)
  /\ retries' = {} /\ owed' = {} /\ dropped' = {} /\ lost' = {} /\ forgotten' = {}
  /\ late' = FALSE
  /\ \E unseen \in SUBSET Files : diverged' = diverged \cup unseen
  /\ UNCHANGED <<changes, faults>>

Init ==
  /\ loop = "starting"
  /\ work = "indexing" /\ scope = Files /\ todo = {} /\ failures = {}
  /\ retries = {} /\ late = FALSE
  /\ diverged \in SUBSET Files /\ owed = {}
  /\ dropped = {} /\ lost = {} /\ forgotten = {}
  /\ changes = 0 /\ faults = 0 /\ stops = 0

Reconcile == PlanFor \/ \E path \in Files : ApplyOne(path)

Run ==
  \/ StartupDone \/ StartupFails \/ HandleDone \/ HandleFails \/ Cancelled
  \/ \E path \in Files : SelectChanges(path) \/ SelectRescan(path) \/ DrainBatch(path) \/ ActionFails(path)
  \/ GiveUp \/ GraceElapses \/ LastAttempt \/ LastAttemptDone

Next ==
  \/ Reconcile \/ Run
  \/ \E path \in Files : Change(path) \/ Touch(path)
  \/ Crash \/ Restart

Spec == Init /\ [][Next]_vars

\* Passes run to their end.  Of the watcher and the queue nothing is assumed: neither
\* when a batch comes nor what is in it.
FairSpec ==
  /\ Spec
  /\ WF_vars(Reconcile)
  /\ WF_vars(StartupDone \/ HandleDone)

-----------------------------------------------------------------------------
TypeOK ==
  /\ loop \in {"starting", "selecting", "handling", "draining", "flushing", "retrying", "stopped", "exited"}
  /\ work \in {"none", "indexing", "applying"}
  /\ scope \subseteq Files /\ todo \subseteq scope /\ failures \subseteq scope
  /\ retries \subseteq Files /\ Cardinality(retries) <= MaxRetries
  /\ late \in BOOLEAN
  /\ diverged \subseteq Files /\ owed \subseteq Files /\ dropped \subseteq Files /\ lost \subseteq Files
  /\ forgotten \subseteq Files
  /\ changes \in 0..MaxChanges /\ faults \in 0..MaxFaults /\ stops \in 0..MaxStops

\* The pass in hand has still to look at the path, to bring it across or to
\* report it.
InHand(path) ==
  \/ work = "indexing" /\ path \in scope
  \/ path \in todo \cup failures

\* README "Reconciliation is the source of truth, and notification is only an
\* optimization": a path at which the trees differ is going to be looked at again,
\* or bound has said that it drops it, or it was one of a pass that failed as a
\* whole, or the queue discarded it for a rescan of another subtree.  Of a flush that
\* ran its course what its last attempt failed at, and what it never heard of, stays
\* behind.
NothingElseAbandoned ==
  loop # "exited" =>
    \A p \in diverged :
      p \in owed \cup retries \cup dropped \cup lost \cup forgotten \/ InHand(p)

\* Nothing is owed for ever: neither the watcher nor the queue promises it.
Delivered == \A path \in Files : []<>(path \notin owed)

Converges == <>[](diverged \subseteq dropped \cup lost \cup forgotten)

\* However often it fails or is started again, once changes, faults and stops cease
\* the mirror ends up in agreement but for what was given up, IF what is owed comes in
\* time in a batch and batches of changes, which the retries ride along with, keep
\* coming from somewhere in the tree.
NoisyTreeConverges ==
  Delivered /\ []<><<\E path \in Files : SelectChanges(path)>>_vars => Converges

\* README "re-queues the failed paths onto a later batch, so a transient problem
\* clears itself without intervention": also in a tree that then stays quiet.
QuietTreeConverges == Delivered => Converges
=============================================================================
