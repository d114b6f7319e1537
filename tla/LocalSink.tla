----------------------------- MODULE LocalSink -----------------------------
(***************************************************************************)
(* The sink for a directory on this machine, one system call at a time: a  *)
(* directory of the tree and one name in it.  A file is copied through a   *)
(* temporary beside it, stamped with the source's time and renamed over    *)
(* the destination; a link is cleared and made again.  An operation that   *)
(* the directory's mode refuses widens the mode, is tried once more and    *)
(* puts it back.  Meanwhile the source is written, calls fail, and the     *)
(* process is stopped between any two of them and started again.           *)
(*                                                                         *)
(* A pass plans from what the two trees show.  Its indexes are Pass's      *)
(* concern: here they are read in one step.                                *)
(*                                                                         *)
(* Not variables of the program: "due", what the next batch will have a    *)
(* pass look at; "reads", what has been copied from beginning to end, with *)
(* the time it was given; "torn", what was published last was not what the *)
(* source held; "steady", the source has kept still since the pass began;  *)
(* "whole", the pass has seen the directory itself; "littered" and         *)
(* "lapsed", a temporary, a widened mode has been left by a crash or a     *)
(* failed call.                                                            *)
(***************************************************************************)
EXTENDS Integers, SequencesExt

CONSTANTS
  Contents,    \* what a file may hold
  MaxChanges,  \* bound: changes of the source
  MaxFaults,   \* bound: system calls that fail
  MaxCrashes   \* bound: times the process is stopped

ASSUME ContentsAssumption == \A c \in Contents : c \in Seq(Nat)
ASSUME SinkBounds == MaxChanges \in Nat /\ MaxFaults \in Nat /\ MaxCrashes \in Nat

VARIABLES
  sourceDir,  \* the mode of the source's directory, or "none"
  source,     \* what is at the name in it
  held,       \* the file the copy has open
  linked,     \* which is still the one at the name
  dir,        \* the target: the mode of its directory, or "none"
  dest, temp, \* what is at the name in it, and at the temporary's
  at,         \* where the sink stands
  todo,       \* the actions of the plan that are left, the one in hand first
  wanted,     \* the mode that the plan has for the directory
  copied,     \* how many blocks have been
  error,      \* of the first or the second attempt
  original,   \* the mode to put back, or "none"
  failed,     \* actions of the pass that did
  retry,      \* what they were to, for the batch that comes next
  due, reads, torn, steady, whole, littered, lapsed,
  changes, faults, crashes

sourceVars == <<sourceDir, source, changes>>
handle == <<held, linked, copied>>
targetVars == <<dir, dest, temp>>
planVars == <<todo, wanted, failed, due, retry, steady, whole>>
attemptVars == <<error, original>>
history == <<reads, torn, littered, lapsed>>
vars == <<sourceVars, handle, targetVars, planVars, attemptVars, at, history, faults, crashes>>

Entry(kind, data, time) == [kind |-> kind, data |-> data, time |-> time]
Nothing == Entry("none", <<>>, 0)
Link == Entry("link", <<>>, 0)
File(data, time) == Entry("file", data, time)
Unstamped == -1                       \* the clock's time, which no source has

IsFile(entry) == entry.kind = "file"

-----------------------------------------------------------------------------
(* The source *)

\* A look at the directory is one at the name as well.
Wider(known, scope) == IF known = "tree" THEN known ELSE scope

Changed(scope) ==
  /\ changes < MaxChanges /\ changes' = changes + 1
  /\ steady' = FALSE /\ due' = Wider(due, scope)
  /\ UNCHANGED <<targetVars, todo, wanted, copied, failed, retry, whole, attemptVars, at, history,
                 faults, crashes>>

\* In place: what is open sees it.
Rewrite(data) ==
  /\ IsFile(source)
  /\ source' = File(data, changes + 1)
  /\ held' = IF linked THEN source' ELSE held
  /\ UNCHANGED <<sourceDir, linked>>
  /\ Changed("name")

\* Replaced, created or removed: what is open does not.
Replace(entry) ==
  /\ sourceDir # "none" /\ entry # source
  /\ source' = entry
  /\ linked' = FALSE
  /\ UNCHANGED <<sourceDir, held>>
  /\ Changed("name")

\* The directory is made, given a mode, or removed with what it holds.
ChangeDir(mode) ==
  /\ mode # sourceDir /\ sourceDir' = mode
  /\ source' = IF mode = "none" THEN Nothing ELSE source
  /\ linked' = (linked /\ mode # "none")
  /\ UNCHANGED held
  /\ Changed("tree")

-----------------------------------------------------------------------------
(* A pass *)

Differs(entry, other) ==
  \/ entry.kind # other.kind
  \/ entry.time # other.time \/ Len(entry.data) # Len(other.data)

\* The actions that the plan for what is at the name has, and for the directory.
NeededForName ==
  {op \in {"remove", "copy", "symlink"} :
     CASE op = "remove"  -> source = Nothing /\ dest # Nothing
       [] op = "copy"    -> IsFile(source) /\ Differs(source, dest)
       [] op = "symlink" -> source = Link /\ Differs(source, dest)}

NeededForDir ==
  {op \in {"rmdir", "mkdir", "chmod"} :
     CASE op = "rmdir" -> sourceDir = "none" /\ dir # "none"
       [] op = "mkdir" -> sourceDir # "none" /\ dir = "none"
       [] op = "chmod" -> sourceDir # "none" /\ sourceDir # dir}

\* Plan::order: removals inward-out, writes outward-in, metadata last.
Ordered(needed) ==
  LET If(op) == IF op \in needed THEN <<op>> ELSE <<>>
  IN  If("remove") \o If("rmdir") \o If("mkdir") \o If("copy") \o If("symlink") \o If("chmod")

\* A process that starts looks at the tree; later passes, at what a batch holds and
\* at what has failed.
StartPass ==
  /\ whole' = (at = "down" \/ "tree" \in {due, retry})
  /\ todo' = Ordered(NeededForName \cup (IF whole' THEN NeededForDir ELSE {}))
  /\ wanted' = sourceDir /\ failed' = FALSE /\ steady' = TRUE
  /\ due' = "none" /\ retry' = "none"
  /\ at' = IF todo' = <<>> THEN "idle" ELSE "acting"
  /\ UNCHANGED <<sourceVars, handle, targetVars, attemptVars, history, faults, crashes>>

BatchComes == (at = "down" \/ (at = "idle" /\ due # "none")) /\ StartPass

\* What has failed waits for a batch: here one of changes elsewhere in the tree.
Waiting == at = "idle" /\ due = "none" /\ retry # "none"
OtherBatchComes == Waiting /\ StartPass

Doing(op) == todo # <<>> /\ Head(todo) = op
OnDir == \E op \in {"rmdir", "mkdir", "chmod"} : Doing(op)

\* One action fails, and the next is taken up all the same; its path is kept.
ActionEnds(result) ==
  /\ retry' = CASE result = "ok" -> retry
                [] result # "ok" /\ OnDir -> "tree"
                [] result # "ok" /\ ~OnDir -> Wider(retry, "name")
  /\ todo' = Tail(todo)
  /\ at' = IF todo' = <<>> THEN "idle" ELSE "acting"
  /\ failed' = (failed \/ result # "ok")
  /\ error' = "ok" /\ original' = "none"
  /\ held' = Nothing /\ linked' = FALSE /\ copied' = 0
  /\ UNCHANGED <<wanted, due, steady, whole>>

-----------------------------------------------------------------------------
(* An attempt and its retry *)

Fault == faults < MaxFaults /\ faults' = faults + 1

\* What publish does about an error comes first: the temporary is removed.
AttemptFails(result) ==
  /\ error' = result
  /\ at' = IF Doing("copy") THEN "cleaning" ELSE "failed"
  /\ UNCHANGED <<handle, planVars, original>>

AttemptSucceeds ==
  IF original = "none" THEN ActionEnds("ok")
  ELSE at' = "restoring" /\ UNCHANGED <<handle, planVars, attemptVars>>

\* A call that may be refused, may fail, or does what it is for.
Calls(refused, effect) ==
  \/ refused /\ AttemptFails("denied") /\ UNCHANGED <<targetVars, faults>>
  \/ Fault /\ \E result \in {"denied", "io"} : AttemptFails(result) /\ UNCHANGED targetVars
  \/ ~refused /\ effect /\ UNCHANGED faults

Enter ==
  CASE Doing("copy") -> "preparing"
    [] Doing("symlink") -> "clearing"
    [] Doing("remove") -> "removing"
    [] OTHER -> "working"

\* write_file and create_symlink make sure of the directories above, which is the
\* caller's failure if it fails: there is no retry for it.
Begin ==
  /\ at = "acting"
  /\ \/ /\ at' = Enter
        /\ dir' = IF dir = "none" /\ (Doing("copy") \/ Doing("symlink")) THEN "open" ELSE dir
        /\ UNCHANGED <<handle, planVars, attemptVars, faults>>
     \/ Doing("copy") /\ Fault /\ ActionEnds("io") /\ UNCHANGED dir
  /\ UNCHANGED <<sourceVars, dest, temp, history, crashes>>

\* Variant: a refusal is final.
NeverRelaxable == FALSE

\* relax_for: only a refusal is worth another attempt, only where it was the mode
\* that refused, and only once.
Relaxable == error = "denied" /\ dir = "readonly"

Relax ==
  /\ at = "failed" /\ original = "none"
  /\ \/ /\ Relaxable
        /\ original' = dir /\ dir' = "widened" /\ error' = "ok" /\ at' = Enter
        /\ held' = Nothing /\ linked' = FALSE /\ copied' = 0
        /\ UNCHANGED <<planVars, faults>>
     \/ ~Relaxable /\ ActionEnds(error) /\ UNCHANGED <<dir, faults>>
     \/ Relaxable /\ Fault /\ ActionEnds(error) /\ UNCHANGED dir
  /\ UNCHANGED <<sourceVars, dest, temp, history, crashes>>

RetryFails ==
  /\ at = "failed" /\ original # "none"
  /\ at' = "restoring"
  /\ UNCHANGED <<sourceVars, handle, targetVars, planVars, attemptVars, history,
                 faults, crashes>>

\* Variant: only an attempt that succeeded puts the mode back.
RestoreOnSuccess ==
  /\ at = "restoring"
  /\ dir' = IF error = "ok" THEN original ELSE dir
  /\ ActionEnds(error)
  /\ UNCHANGED <<sourceVars, dest, temp, history, faults, crashes>>

\* Variant: what the second attempt came to is not passed on.
RestoreAndForget ==
  /\ at = "restoring"
  /\ dir' = original
  /\ ActionEnds("ok")
  /\ UNCHANGED <<sourceVars, dest, temp, history, faults, crashes>>

\* restore_mode: however the second attempt ended.
Restore ==
  /\ at = "restoring"
  /\ \/ dir' = original /\ UNCHANGED <<lapsed, faults>>
     \/ Fault /\ lapsed' = TRUE /\ UNCHANGED dir
  /\ ActionEnds(error)
  /\ UNCHANGED <<sourceVars, dest, temp, reads, torn, littered, crashes>>

-----------------------------------------------------------------------------
(* publish, for a file *)

Step(next) == at' = next /\ UNCHANGED <<planVars, attemptVars>>

\* Variant: what lies at the temporary's path is opened as it is found.
ReuseTemporary ==
  /\ at = "preparing"
  /\ Step("opening")
  /\ UNCHANGED <<sourceVars, handle, targetVars, history, faults, crashes>>

\* copy_into_fresh: what a crash has left at the temporary's path is unlinked.
RemoveStale ==
  /\ at = "preparing"
  /\ Calls(dir = "readonly" /\ temp # Nothing,
           temp' = Nothing /\ Step("opening") /\ UNCHANGED <<handle, dir, dest>>)
  /\ UNCHANGED <<sourceVars, history, crashes>>

\* The source is opened first, so that one which is gone leaves nothing behind.
OpenSource ==
  /\ at = "opening"
  /\ \/ ~IsFile(source) /\ AttemptFails("io") /\ UNCHANGED <<targetVars, faults>>
     \/ /\ IsFile(source)
        /\ Calls(dir = "readonly",
                 /\ temp' = IF temp = Nothing THEN File(<<>>, Unstamped) ELSE temp
                 /\ held' = source /\ linked' = TRUE /\ copied' = 0
                 /\ Step("copying") /\ UNCHANGED <<dir, dest>>)
  /\ UNCHANGED <<sourceVars, history, crashes>>

AtEnd == copied >= Len(held.data)

CopyBlock ==
  /\ at = "copying" /\ ~AtEnd
  /\ Calls(FALSE,
           /\ temp' = File(Append(temp.data, held.data[copied + 1]), Unstamped)
           /\ copied' = copied + 1
           /\ UNCHANGED <<at, planVars, attemptVars, held, linked, dir, dest>>)
  /\ UNCHANGED <<sourceVars, history, crashes>>

\* The time is that of whatever is at the source's path by then.
StampSource ==
  /\ at = "copying" /\ AtEnd
  /\ \/ /\ ~IsFile(source)
        /\ AttemptFails("io") /\ UNCHANGED <<targetVars, reads, faults>>
     \/ /\ IsFile(source)
        /\ reads' = reads \cup {File(temp.data, source.time)}
        /\ Calls(FALSE, /\ temp' = File(temp.data, source.time)
                        /\ Step("renaming") /\ UNCHANGED <<handle, dir, dest>>)
  /\ UNCHANGED <<sourceVars, torn, littered, lapsed, crashes>>

\* Variant: the destination is unlinked, and then there is a rename.
UnlinkFirst ==
  /\ at = "renaming" /\ dest # Nothing
  /\ dest' = Nothing
  /\ UNCHANGED <<at, sourceVars, handle, planVars, attemptVars, dir, temp, history, faults, crashes>>

RenameOver ==
  /\ at = "renaming"
  /\ Calls(dir = "readonly",
           dest' = temp /\ temp' = Nothing /\ AttemptSucceeds /\ UNCHANGED dir)
  /\ torn' = IF dest' # dest THEN temp.data # source.data ELSE torn
  /\ UNCHANGED <<sourceVars, reads, littered, lapsed, crashes>>

\* A failed copy does not leave its temporary, if it can help it.
RemoveTemporary ==
  /\ at = "cleaning"
  /\ at' = "failed"
  /\ \/ temp' = (IF dir = "readonly" THEN temp ELSE Nothing) /\ UNCHANGED <<littered, faults>>
     \/ temp # Nothing /\ Fault /\ littered' = TRUE /\ UNCHANGED temp
  /\ UNCHANGED <<sourceVars, handle, planVars, attemptVars, dir, dest, reads, torn, lapsed, crashes>>

-----------------------------------------------------------------------------
(* The other operations *)

\* replace_symlink: between its two calls nothing is there.
ClearForLink ==
  /\ at = "clearing"
  /\ Calls(dir = "readonly" /\ dest # Nothing,
           dest' = Nothing /\ Step("linking") /\ UNCHANGED <<handle, dir, temp>>)
  /\ UNCHANGED <<sourceVars, history, crashes>>

MakeLink ==
  /\ at = "linking"
  /\ Calls(dir = "readonly", dest' = Link /\ AttemptSucceeds /\ UNCHANGED <<dir, temp>>)
  /\ UNCHANGED <<sourceVars, history, crashes>>

RemoveEntry ==
  /\ at = "removing"
  /\ Calls(dir = "readonly" /\ dest # Nothing,
           dest' = Nothing /\ AttemptSucceeds /\ UNCHANGED <<dir, temp>>)
  /\ UNCHANGED <<sourceVars, history, crashes>>

\* Of the directory itself: not removed unless it is empty, temporaries included.
DirAfter ==
  CASE Doing("rmdir") -> IF dest = Nothing /\ temp = Nothing THEN "none" ELSE dir
    [] Doing("mkdir") -> IF dir = "none" THEN "open" ELSE dir
    [] Doing("chmod") -> IF dir = "none" THEN "none" ELSE wanted

WorkOnDir ==
  /\ at = "working"
  /\ \/ /\ dir' = DirAfter
        /\ ActionEnds(IF (dir' = "none") = Doing("rmdir") THEN "ok" ELSE "io")
        /\ UNCHANGED faults
     \/ Fault /\ ActionEnds("io") /\ UNCHANGED dir
  /\ lapsed' = (lapsed /\ dir' = "widened")
  /\ UNCHANGED <<sourceVars, dest, temp, reads, torn, littered, crashes>>

\* The process is stopped, and what it knew is lost.
Crash ==
  /\ at # "down" /\ crashes < MaxCrashes /\ crashes' = crashes + 1
  /\ at' = "down" /\ todo' = <<>> /\ due' = "none" /\ retry' = "none"
  /\ error' = "ok" /\ original' = "none"
  /\ held' = Nothing /\ linked' = FALSE /\ copied' = 0
  /\ littered' = (littered \/ temp # Nothing)
  /\ UNCHANGED <<sourceVars, targetVars, wanted, failed, steady, whole, reads, torn, lapsed, faults>>

-----------------------------------------------------------------------------
Init ==
  /\ sourceDir \in {"open", "readonly"}
  /\ source \in {Nothing, Link} \cup {File(data, 0) : data \in Contents}
  /\ dir \in {"none", "open", "readonly"}
  /\ dest \in {Nothing} \cup
       (IF dir = "none" THEN {} ELSE {Link} \cup {File(data, Unstamped) : data \in Contents})
  /\ temp = Nothing
  /\ held = Nothing /\ linked = FALSE /\ copied = 0
  /\ at = "down" /\ todo = <<>> /\ wanted = "none" /\ error = "ok" /\ original = "none"
  /\ failed = FALSE /\ due = "none" /\ retry = "none" /\ steady = FALSE /\ whole = FALSE
  /\ reads = {dest} /\ torn = FALSE /\ littered = FALSE /\ lapsed = FALSE
  /\ changes = 0 /\ faults = 0 /\ crashes = 0

Environment ==
  \/ \E data \in Contents : Rewrite(data)
  \/ \E entry \in {Nothing, Link} \cup {File(data, changes + 1) : data \in Contents} : Replace(entry)
  \/ \E mode \in {"none", "open", "readonly"} : ChangeDir(mode)

Sink ==
  \/ Begin \/ Relax \/ RetryFails \/ Restore
  \/ RemoveStale \/ OpenSource \/ CopyBlock \/ StampSource \/ RenameOver \/ RemoveTemporary
  \/ ClearForLink \/ MakeLink \/ RemoveEntry \/ WorkOnDir

Next == Environment \/ BatchComes \/ OtherBatchComes \/ Sink \/ Crash

Spec == Init /\ [][Next]_vars

\* A process that runs goes on, one that was stopped is started again, and what has
\* changed comes in a batch.
FairSpec == Spec /\ WF_vars(BatchComes) /\ WF_vars(Sink)

-----------------------------------------------------------------------------
(* Properties *)

\* Every variable keeps its type, the sink stands in an action as long as the plan has
\* one, and a copy under way has filled its temporary from empty.
TypeOK ==
  /\ (todo = <<>>) = (at \in {"down", "idle"})
  /\ at = "copying" => Len(temp.data) = copied
  /\ sourceDir \in {"none", "open", "readonly"}
  /\ dir \in {"none", "open", "readonly", "widened"}
  /\ \A entry \in {source, held, dest, temp} :
       entry \in [kind : {"none", "link", "file"}, data : Seq(Nat), time : Int]
  /\ linked \in BOOLEAN /\ copied \in Nat
  /\ at \in {"down", "idle", "acting", "working", "preparing", "opening", "copying", "renaming",
             "cleaning", "clearing", "linking", "removing", "failed", "restoring"}
  /\ todo \in Seq({"remove", "rmdir", "mkdir", "copy", "symlink", "chmod"})
  /\ error \in {"ok", "denied", "io"} /\ original \in {"none", "readonly"}
  /\ {due, retry} \subseteq {"none", "name", "tree"}
  /\ {failed, steady, whole, torn, littered, lapsed} \subseteq BOOLEAN

\* Whoever opens the destination finds what was there or a whole copy with its time on
\* it, at every moment, also of a copy that fails, is tried again or is cut off by a
\* crash; and finds nothing only where the plan removes it or puts a link there.
Shown == INSTANCE AtomicReplace WITH
           Absent <- Nothing,
           offered <- reads,
           removable <- Doing("remove") \/ Doing("symlink"),
           shown <- IF dest = Link THEN Nothing ELSE dest

ReplacesAtomically == Shown!Spec

\* A pass over a source that kept still leaves what the source has, the mode of the
\* directory included, or has reported a failure.  What an earlier copy took from a
\* source that was being written is not looked at again.
Acknowledged ==
  at = "idle" /\ whole /\ steady /\ ~failed /\ ~torn =>
    dest = source /\ (dir = sourceDir \/ lapsed)

\* Between passes a temporary is there only if the process was stopped or could not
\* remove it; and a directory is more permissive than it was only if a chmod failed:
\* not after an operation that failed twice, and after a crash only until the
\* pass over the tree that follows, or one after it if its own chmod fails.
LeftAsFound ==
  at = "idle" =>
    /\ temp # Nothing => littered
    /\ dir = "widened" => lapsed \/ retry = "tree"

\* A copy of a source that was being written, whose size and time say it is equal.
Overlooked == torn /\ ~Differs(source, dest)

\* A mode that could not be put back, by an operation that did what it was for.
LeftWide == lapsed /\ dir = "widened"

\* A directory that the source no longer has, with a temporary in it that no index shows.
Blocked == sourceDir = "none" /\ temp # Nothing

\* Once calls no longer fail, nobody stops the process, and as long as nothing that failed
\* waits for ever for another batch, the target comes to be equal to the source, content,
\* times and mode, also in a directory that may not be written and after a crash at any point;
\* only a copy that is overlooked, a mode that was left wide and a directory that a leftover
\* keeps from being removed stay as they are.
Settles ==
  []<>~Waiting => <>[](/\ dest = source \/ Overlooked
                       /\ dir = sourceDir \/ LeftWide \/ Blocked)

\* As documented, a leftover is harmless apart from the space it takes.
LeftoversAreHarmless == []<>~Waiting => <>[](dir = sourceDir \/ LeftWide)

\* local.rs "the next pass repairs on its own: the two modes now disagree": a mode that
\* could not be put back is put right in the end.
ModesAreRepaired == []<>~Waiting => <>[](dir = sourceDir \/ Blocked)
=============================================================================
