------------------------------- MODULE Pass -------------------------------
(***************************************************************************)
(* One reconcile pass: index the source, index the target, plan, then      *)
(* apply the plan action by action, while the source goes on changing.  An *)
(* action that fails is reported and the rest go on; an index that fails   *)
(* ends the pass.  The target is a directory, here or behind a link; over  *)
(* a link, a request whose reply is lost is issued again.                  *)
(*                                                                         *)
(* "met", "steady", "before", "missing" and "vanished" are not variables   *)
(* of the program: the trees the source has been while it is walked,       *)
(* whether it has kept still since the pass began, the target as it was    *)
(* then, the target's paths that the source, while it was there, has       *)
(* lacked at some moment of the pass, and whether its root went away in    *)
(* the middle of the walk.                                                 *)
(***************************************************************************)
EXTENDS Reconcile

CONSTANTS
  Trees,        \* what the two trees may hold
  Deletes,      \* what ReconcileConfig.delete may be
  Scopes,       \* the scopes a pass may be given
  DefaultMode,  \* the mode the process umask leaves a new entry with
  MaxFaults,    \* bound: what fails for reasons of its own, and replies that are lost
  MaxChanges    \* bound: how often the source changes during the pass

ASSUME TreesAssumption == \A tree \in Trees : IsTree(tree) /\ DOMAIN tree \subseteq Path
ASSUME EntriesAssumption ==
  \A tree \in Trees : \A p \in DOMAIN tree :
    tree[p].kind \in {"dir", "file", "link"} /\ DOMAIN tree[p] = {"kind", "data", "mode"}
ASSUME DeletesAssumption == Deletes \subseteq BOOLEAN
ASSUME ScopesAssumption ==
  Scopes \subseteq [kind : {"paths", "subtree"}, roots : SUBSET Path]
ASSUME BoundsAssumption == MaxFaults \in Nat /\ MaxChanges \in Nat

VARIABLES
  source, target,  \* the two trees on disk
  mounted,         \* the source root is there
  delete, scope,
  stage,           \* where the pass stands
  met,             \* what the walk of the source may have come by, {} outside it
  sourceIndex, targetIndex,
  plan,            \* the actions still to apply
  failed,          \* the paths of the actions that failed
  steady, before, missing, vanished,
  changes, faults, lost

indexes == <<sourceIndex, targetIndex>>
disk == <<source, target, mounted>>
ghosts == <<steady, before, missing, vanished>>
counters == <<changes, faults, lost>>
vars == <<source, target, mounted, delete, scope, stage, met, sourceIndex, targetIndex, plan, failed,
          steady, before, missing, vanished, changes, faults, lost>>

NoEntries == [p \in {} |-> 0]

-----------------------------------------------------------------------------
(* LocalSink *)

Put(tree, path, entry) ==
  [q \in DOMAIN tree \cup {path} |-> IF q = path THEN entry ELSE tree[q]]
Drop(tree, path) == [q \in DOMAIN tree \ {path} |-> tree[q]]

Fresh(kind, data) == [kind |-> kind, data |-> data, mode |-> DefaultMode]
NewDir == Fresh("dir", 0)

\* The directories above a path that are not there.
MissingAncestors(tree, path) ==
  {SubSeq(path, 1, i) : i \in 1..(Len(path) - 1)} \ DOMAIN tree

\* create_dir_all of what is missing above a path.
WithParents(tree, path) ==
  [q \in DOMAIN tree \cup MissingAncestors(tree, path) |->
     IF q \in DOMAIN tree THEN tree[q] ELSE NewDir]

\* Variant: links on the way to a path are followed.
ReachableThroughLinks(tree, path) == \A q \in Ancestors(tree, path) : ~IsFile(tree[q])

\* resolve refuses a path reached through a link; create_dir_all and every lookup
\* fail on one that runs into a file.
Reachable(tree, path) == \A q \in Ancestors(tree, path) : IsDir(tree[q])

Empty(tree, path) == \A q \in DOMAIN tree : IsUnder(q, path) => q = path

\* clear: a directory goes only when nothing is left in it.
Clearable(tree, path) ==
  path \in DOMAIN tree => ~IsDir(tree[path]) \/ Empty(tree, path)

Possible(action) ==
  LET p == action.path
      present == p \in DOMAIN target
  IN /\ Reachable(target, p)
     /\ CASE action.op = "create_dir" -> present => IsDir(target[p])
          [] action.op = "copy_file" ->
               /\ mounted /\ p \in DOMAIN source /\ IsFile(source[p])
               /\ present => ~IsDir(target[p])
          [] action.op \in {"create_symlink", "remove"} -> Clearable(target, p)
          [] action.op = "set_metadata" -> present /\ ~IsLink(target[p])

\* The content copied is the source's of the moment; everything else is the
\* plan's.  A copy or a link replaces what was there, its mode included.
Applied(action) ==
  LET p == action.path
      made == WithParents(target, p)
  IN CASE action.op = "create_dir" -> IF p \in DOMAIN target THEN target ELSE Put(made, p, NewDir)
       [] action.op = "copy_file" -> Put(made, p, Fresh("file", source[p].data))
       [] action.op = "create_symlink" -> Put(made, p, [kind |-> "link", data |-> action.target, mode |-> 0])
       [] action.op = "remove" -> Drop(target, p)
       [] action.op = "set_metadata" -> [target EXCEPT ![p].mode = action.mode]

\* What a failed action may leave: create_dir_all stops part of the way down, and
\* replace_symlink has cleared the path by the time the link cannot be made.
Left(action) ==
  LET p == action.path
  IN {target} \cup
     (IF ~Reachable(target, p) THEN {}
      ELSE (IF action.op \in {"create_dir", "copy_file", "create_symlink"}
              THEN {WithParents(target, SubSeq(p, 1, i)) : i \in 1..Len(p)} ELSE {})
           \cup (IF action.op = "create_symlink" /\ Clearable(target, p)
              THEN {Drop(WithParents(target, p), p)} ELSE {}))

-----------------------------------------------------------------------------
(* reconcile_scope *)

\* Permissions, a full disk: for no reason to be seen in the trees.
Fault == faults + lost < MaxFaults /\ faults' = faults + 1

\* Variant: a root that is gone reads as an empty tree.
CheckNothing ==
  /\ stage = "index source"
  /\ stage' = "walk source" /\ met' = {source}
  /\ UNCHANGED <<disk, delete, scope, indexes, plan, failed, ghosts, counters>>

\* ensure_root: a root that is gone is an error, not an empty tree.
CheckRoot ==
  /\ stage = "index source" /\ mounted
  /\ stage' = "walk source" /\ met' = {source}
  /\ UNCHANGED <<disk, delete, scope, indexes, plan, failed, ghosts, counters>>

\* The source is read path by path while it changes: the walk comes by each path in some
\* tree that there has been since the root was checked, and takes one that is not
\* there to have been deleted, the root's going away being no different.  So the index need not be
\* a tree, nor any tree that there was.  (That the kind of an entry may be of another
\* moment than its mode is left out.)
IndexSource ==
  /\ stage = "walk source"
  /\ \A root \in scope.roots : \E tree \in met : ~CannotLookUp(tree, scope, root)
  /\ \E seen \in [UNION {Indexed(tree, scope) : tree \in met} -> met] :
       sourceIndex' = [p \in {q \in DOMAIN seen : q \in Indexed(seen[q], scope)} |-> seen[p][p]]
  /\ stage' = "index target" /\ met' = {}
  /\ UNCHANGED <<disk, delete, scope, targetIndex, plan, failed, ghosts, counters>>

\* The target is the pass's own, and keeps still.
IndexTarget ==
  /\ stage = "index target"
  /\ ~CannotIndex(target, scope)
  /\ targetIndex' = IndexScope(target, scope)
  /\ plan' = Plan(sourceIndex, targetIndex', delete, scope)
  /\ stage' = "apply"
  /\ UNCHANGED <<disk, delete, scope, met, sourceIndex, failed, ghosts, counters>>

\* A walk of a tree that changes can also run into a file where there was a directory,
\* or find the very directory that it starts from gone.
IndexFails ==
  /\ stage \in {"index source", "walk source", "index target"}
  /\ \/ stage = "index source" /\ ~mounted /\ UNCHANGED faults
     \/ stage = "walk source" /\ (met # {source} \/ CannotIndex(source, scope)) /\ UNCHANGED faults
     \/ stage = "index target" /\ CannotIndex(target, scope) /\ UNCHANGED faults
     \/ Fault
  /\ stage' = "error" /\ met' = {}
  /\ UNCHANGED <<disk, delete, scope, indexes, plan, failed, ghosts, changes, lost>>

Turn(action) == stage = "apply" /\ \A other \in plan : ~Precedes(other, action)

ApplySucceeds(action) ==
  /\ Turn(action) /\ Possible(action)
  /\ target' = Applied(action)
  /\ plan' = plan \ {action}
  /\ UNCHANGED <<source, mounted, delete, scope, stage, met, indexes, failed, ghosts, counters>>

ApplyFails(action) ==
  /\ Turn(action)
  /\ IF Possible(action) THEN Fault ELSE UNCHANGED faults
  /\ target' \in Left(action)
  /\ failed' = failed \cup {action.path}
  /\ plan' = plan \ {action}
  /\ UNCHANGED <<source, mounted, delete, scope, stage, met, indexes, ghosts, changes, lost>>

\* The actions that are one request to an agent.  A copy is many frames, and Transfer's.
OneRequest == {"create_dir", "create_symlink", "remove", "set_metadata"}

\* The agent has its sink do as asked, and the link goes before the reply is here: the
\* request is issued again, over what it has done.  (What fails is left alike by one
\* attempt and by two.)
Unanswered(action) ==
  /\ Turn(action) /\ Possible(action) /\ action.op \in OneRequest
  /\ faults + lost < MaxFaults /\ lost' = lost + 1
  /\ target' = Applied(action)
  /\ UNCHANGED <<source, mounted, delete, scope, stage, met, indexes, plan, failed, ghosts, changes, faults>>

Finish ==
  /\ stage = "apply" /\ plan = {}
  /\ stage' = "done"
  /\ UNCHANGED <<disk, delete, scope, met, indexes, plan, failed, ghosts, counters>>

\* The source's own users, who may also take its root away.
SourceChanges ==
  /\ stage \notin {"done", "error"} /\ changes < MaxChanges
  /\ mounted
  /\ \/ /\ source' \in Trees \ {source} /\ UNCHANGED <<mounted, vanished>>
        /\ missing' = missing \cup (DOMAIN before \ DOMAIN source')
     \/ /\ mounted' = FALSE /\ source' = NoEntries /\ UNCHANGED missing
        /\ vanished' = (vanished \/ stage = "walk source")
  /\ met' = IF stage = "walk source" THEN met \cup {source'} ELSE met
  /\ steady' = FALSE
  /\ changes' = changes + 1
  /\ UNCHANGED <<target, delete, scope, stage, indexes, plan, failed, before, faults, lost>>

Init ==
  /\ source \in Trees /\ target \in Trees /\ delete \in Deletes /\ scope \in Scopes
  /\ mounted = TRUE
  /\ stage = "index source"
  /\ sourceIndex = NoEntries /\ targetIndex = NoEntries
  /\ met = {} /\ plan = {} /\ failed = {}
  /\ steady = TRUE /\ vanished = FALSE /\ before = target /\ changes = 0 /\ faults = 0 /\ lost = 0
  /\ missing = DOMAIN target \ DOMAIN source

Next ==
  \/ CheckRoot \/ IndexSource \/ IndexTarget \/ IndexFails
  \/ \E action \in plan : ApplySucceeds(action) \/ ApplyFails(action) \/ Unanswered(action)
  \/ Finish
  \/ SourceChanges

Spec == Init /\ [][Next]_vars

-----------------------------------------------------------------------------
TypeOK ==
  /\ IsTree(source) /\ IsTree(target)
  /\ IsTree(before) /\ missing \subseteq DOMAIN before
  /\ delete \in Deletes /\ scope \in Scopes
  /\ stage \in {"index source", "walk source", "index target", "apply", "done", "error"}
  /\ met \subseteq Trees \cup {NoEntries} /\ (met # {} <=> stage = "walk source")
  /\ \A action \in plan :
       /\ action.op \in {"create_dir", "copy_file", "create_symlink", "remove", "set_metadata"}
       /\ action.path \in Path \ {<<>>}
  /\ failed \subseteq Path
  /\ mounted \in BOOLEAN /\ steady \in BOOLEAN /\ vanished \in BOOLEAN /\ changes \in 0..MaxChanges
  /\ faults \in 0..MaxFaults /\ lost \in 0..MaxFaults

\* What takes part in the sync: neither excluded nor a transfer's own temporary.
Mirrored(path) ==
  ~Excludes(path) /\ \A i \in DOMAIN path : path[i] \notin Temporary

\* What a scope asks for, if all of a path is put to the filter.
InScope(path) == Mirrored(path) /\ \E root \in scope.roots : IsUnder(path, root)

\* What it asks for as the pass asks: the filter, and the look out for temporaries, begin
\* beyond the root of a walk, so that a pattern anchored at the sync root may spare
\* something other than it names.
Taken(path) ==
  \E root \in scope.roots :
    /\ IsUnder(path, root)
    /\ \/ path = root /\ ~Excludes(path)
       \/ path # root /\ ~Excludes(Beyond(path, root)) /\ ~IsTransferTemporary(path, root)
    /\ scope.kind = "paths" => ~Excludes(root)

\* What is excluded but not kept from the pass, for the filter is not asked of all of the path:
\* the directory that a rescan starts at, those above it, and what lies beyond it or
\* a path of a batch and is not excluded there.
Overlooked(path) ==
  \E root \in scope.roots :
    \/ scope.kind = "subtree" /\ IsUnder(root, path)
    \/ /\ IsUnder(path, root) /\ path # root /\ ~Excludes(Beyond(path, root))
       /\ scope.kind = "paths" => ~Excludes(root)

Diverges(path) ==
  \/ /\ path \in DOMAIN source
     /\ path \in DOMAIN target => DiffersFrom(source[path], target[path])
  \/ delete /\ path \in DOMAIN target \ DOMAIN source

ModeDiverges(path) ==
  /\ path \in DOMAIN source \cap DOMAIN target
  /\ HasMetadata(source[path]) /\ HasMetadata(target[path])
  /\ MetadataDiffers(source[path], target[path])

\* The target had something else there when the pass began.
Replaced(path) ==
  path \in DOMAIN before \cap DOMAIN source /\ DiffersFrom(source[path], before[path])

\* sink/mod.rs "failures are reported so the caller can requeue exactly those
\* paths": when a pass over a source that kept still is done, every difference
\* left among what its scope takes is at a path it reports.  Nothing else would ever be retried.
Accounted ==
  stage = "done" /\ steady =>
    \A p \in DOMAIN source \cup DOMAIN target :
      Taken(p) /\ (Diverges(p) \/ (ModeDiverges(p) /\ ~Replaced(p))) => p \in failed

\* The same of all that is to be mirrored.  It does not hold: a pattern anchored at the sync
\* root is matched against what lies beyond the directory that is walked.
EverythingAccounted ==
  stage = "done" /\ steady =>
    \A p \in DOMAIN source \cup DOMAIN target : InScope(p) /\ Diverges(p) => p \in failed

\* push_metadata "a copied file inherits whatever the copy produced, neither of
\* which is necessarily the source's mode": the same of every mode.
ModesAccounted ==
  stage = "done" /\ steady =>
    \A p \in DOMAIN source \cap DOMAIN target :
      Taken(p) /\ ModeDiverges(p) => p \in failed

\* A path the target held is missing from it only if the source, while it was there, was
\* without it too, or if its replacement is still to come or is reported failed.
Removed(path) == path \in DOMAIN before \ DOMAIN target

Explained(path) == path \in missing \cup failed \cup {action.path : action \in plan}

\* index.rs, of reading "the source is gone" as "the source is empty", and of removals
\* racing the source: a root that goes away before the walk or after it removes nothing, and nor
\* does a tree that changes under the walk, but what it lacked at some moment.  Two things are taken
\* for missing that are not: whatever the walk had still to come by when the root
\* went away under it, and an excluded directory that a rescan starts at, where the
\* source has a file.
RemovedWasMissing ==
  \A p \in DOMAIN before :
    Removed(p) => \/ Explained(p) \/ vanished
                  \/ scope.kind = "subtree" /\ p \in scope.roots /\ Excludes(p)

\* ensure_root "turns the source is gone into the source is empty ... a plan to remove
\* the entire target", which that check is to rule out.  It rules it out only at the moment it is made.
RemovedWasAlwaysMissing == \A p \in DOMAIN before : Removed(p) => Explained(p)

Touched(path) ==
  ~(path \in DOMAIN target \cap DOMAIN target' /\ target'[path] = target[path])

\* filter.rs "the files the operator asked it to leave alone": no pass creates, changes or
\* removes an excluded path of the target, unless the scope has the filter overlook it.
ExcludedUntouched ==
  [][\A p \in DOMAIN target \cup DOMAIN target' :
       Excludes(p) /\ Touched(p) => Overlooked(p)]_vars

\* The same without exception.  It does not hold of a rescan that starts at an excluded directory, nor
\* of an anchored pattern where the walk starts below the sync root.
ExcludedNeverTouched ==
  [][\A p \in DOMAIN target \cup DOMAIN target' : Excludes(p) => ~Touched(p)]_vars

\* ReconcileConfig.delete is off by default because "the target is the copy that
\* has no backup": without it a step takes a path away only where it was making
\* room for the source's own link, could not make that, and says so.
NothingRemoved == [][~delete => DOMAIN target \ DOMAIN target' \subseteq failed']_vars

\* action.rs "Order is part of the contract: applying these in sequence must
\* succeed": in a pass over the whole tree, deletions on and with nothing
\* else going wrong, an action fails only at a directory that holds something the pass
\* may not see, and so may not remove.  A request that is issued again does not fail
\* for having been carried out before.
OrderSucceeds ==
  steady /\ faults = 0 /\ delete /\ scope = SubtreeScope(<<>>) =>
    \A p \in failed : \E q \in DOMAIN target : IsUnder(q, p) /\ ~Mirrored(q)
=============================================================================
