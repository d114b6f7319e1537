--------------------------- MODULE LocalSinkProofs ---------------------------
(***************************************************************************)
(* The sink for a directory on this machine implements atomic replacement, *)
(* leaves what it found between passes and reports what it did not do, for *)
(* files of any content and any number of changes, faults and crashes.     *)
(***************************************************************************)
EXTENDS LocalSink, SequenceTheorems, TLAPS

Modes == {"none", "open", "readonly"}
Files == [kind : {"file"}, data : Seq(Nat), time : Int]
Entries == {Nothing, Link} \cup Files
NameOps == {"remove", "copy", "symlink"}
DirOps == {"rmdir", "mkdir", "chmod"}
Results == {"ok", "denied", "io"}
CopySteps == {"preparing", "opening", "copying", "renaming", "cleaning"}
Calling == CopySteps \cup {"clearing", "linking", "removing", "failed", "restoring"}

Typed ==
  /\ source \in Entries /\ held \in Entries /\ dest \in Entries /\ temp \in Entries
  /\ sourceDir \in Modes /\ wanted \in Modes /\ dir \in Modes \cup {"widened"}
  /\ linked \in BOOLEAN /\ copied \in Nat /\ changes \in Nat
  /\ at \in Calling \cup {"down", "idle", "acting", "working"}
  /\ todo \in Seq(NameOps \cup DirOps)
  /\ error \in Results /\ original \in {"none", "readonly"}
  /\ due \in {"none", "name", "tree"} /\ retry \in {"none", "name", "tree"}
  /\ failed \in BOOLEAN /\ steady \in BOOLEAN /\ whole \in BOOLEAN
  /\ torn \in BOOLEAN /\ littered \in BOOLEAN /\ lapsed \in BOOLEAN

\* An operation's calls are made for the action in hand, and fail for a reason.
Placed ==
  /\ (todo = <<>>) = (at \in {"down", "idle"})
  /\ at \in Calling => \E op \in NameOps : Doing(op)
  /\ at = "working" => OnDir
  /\ at \in CopySteps => Doing("copy")
  /\ at \in {"clearing", "linking"} => Doing("symlink")
  /\ at = "removing" => Doing("remove")
  /\ at \in {"cleaning", "failed"} => error # "ok"

\* A mode is to be put back as long as the operation that widened it goes on.
Lent ==
  /\ at = "restoring" => original # "none"
  /\ original # "none" => at \in Calling /\ dir = "widened" /\ ~lapsed
  /\ lapsed => dir = "widened"

\* The temporary of a copy under way is removed before the copy ends.
Temporary ==
  /\ at = "opening" => temp = Nothing
  /\ at \in {"copying", "renaming"} => IsFile(temp) /\ dir # "readonly"
  /\ at = "copying" => Len(temp.data) = copied
  /\ temp # Nothing => \/ littered
                       \/ at \in {"copying", "renaming", "cleaning"} /\ dir # "readonly"

\* What a rename is about to publish has been read whole, and for a source that keeps still
\* has its time.
Finished ==
  /\ at = "renaming" => temp \in reads
  /\ at = "renaming" /\ steady => temp.time = source.time

\* What is ahead in the plan, the action in hand included.
Ahead == {todo[i] : i \in 1..Len(todo)}

\* A mode that a crash has left widened is set by the pass over the tree that follows.
Widened ==
  dir = "widened" =>
    lapsed \/ retry = "tree" \/ at = "down" \/ original # "none" \/ "rmdir" \in Ahead \/ "chmod" \in Ahead

\* Times tell what the source has held from what it holds.
Timed ==
  /\ source.time \in 0..changes /\ temp.time <= changes /\ dest.time <= changes
  /\ sourceDir = "none" => source = Nothing
  /\ IsFile(source) /\ IsFile(dest) /\ dest.time = source.time /\ ~torn => dest.data = source.data

\* As long as the source keeps still its plan fits it.
Fits ==
  at # "down" /\ steady =>
    /\ wanted = sourceDir
    /\ "remove" \in Ahead => source = Nothing
    /\ "copy" \in Ahead => IsFile(source)
    /\ "symlink" \in Ahead => source = Link
    /\ "rmdir" \in Ahead => sourceDir = "none"
    /\ "mkdir" \in Ahead \/ "chmod" \in Ahead => sourceDir # "none"

\* And what is not yet as in the source is ahead, or has been reported.
NameDone == dest = source \/ torn
DirDone == lapsed \/ sourceDir = IF original = "none" THEN dir ELSE original
Outstanding ==
  /\ at # "down" /\ steady /\ ~failed => NameDone \/ NameOps \cap Ahead # {}
  /\ at # "down" /\ steady /\ ~failed /\ whole => DirDone \/ "rmdir" \in Ahead \/ "chmod" \in Ahead
  /\ at = "restoring" /\ error = "ok" /\ steady => NameDone

IInv ==
  /\ Typed /\ Placed /\ Lent /\ Temporary /\ Finished
  /\ Widened /\ Timed /\ Fits /\ Outstanding

-----------------------------------------------------------------------------
(* Entries and plans *)

LEMMA Shapes ==
  /\ Nothing \in Entries /\ Nothing.kind = "none" /\ Nothing.data = <<>> /\ Nothing.time = 0
  /\ Link \in Entries /\ Link.kind = "link" /\ Link.data = <<>> /\ Link.time = 0
  /\ Nothing # Link /\ ~IsFile(Nothing) /\ ~IsFile(Link)
<1>1. /\ Nothing.kind = "none" /\ Nothing.data = <<>> /\ Nothing.time = 0
      /\ Link.kind = "link" /\ Link.data = <<>> /\ Link.time = 0
  BY DEF Nothing, Link, Entry
<1> QED
  BY <1>1 DEF Entries, IsFile

LEMMA FileShapes ==
  ASSUME NEW data \in Seq(Nat), NEW time \in Int
  PROVE  /\ File(data, time) \in Files /\ IsFile(File(data, time))
         /\ File(data, time).data = data /\ File(data, time).time = time
         /\ File(data, time) # Nothing /\ File(data, time) # Link
BY Shapes DEF File, Files, Entry, IsFile

LEMMA EntryKinds ==
  ASSUME NEW entry \in Entries
  PROVE  /\ entry.data \in Seq(Nat) /\ entry.time \in Int
         /\ IsFile(entry) \/ entry = Nothing \/ entry = Link
         /\ IsFile(entry) => entry \in Files /\ entry # Nothing /\ entry # Link
<1>1. CASE entry \in {Nothing, Link}
  <2>1. <<>> \in Seq(Nat)
    OBVIOUS
  <2>2. entry.data = <<>> /\ entry.time = 0 /\ ~IsFile(entry)
    BY <1>1, Shapes
  <2> QED
    BY <1>1, <2>1, <2>2
<1>2. CASE entry \in Files
  BY <1>2, Shapes DEF Files, IsFile
<1> QED
  BY <1>1, <1>2 DEF Entries

\* Files are told apart by what they hold and by their times.
LEMMA SameFile ==
  ASSUME NEW entry \in Entries, NEW other \in Entries, IsFile(entry), IsFile(other),
         entry.data = other.data, entry.time = other.time
  PROVE  entry = other
<1>1. entry \in Files /\ other \in Files
  BY EntryKinds
<1>2. entry.kind = other.kind /\ entry.data = other.data /\ entry.time = other.time
  BY <1>1 DEF Files
<1> QED
  BY <1>1, <1>2 DEF Files

LEMMA HeadAhead ==
  ASSUME todo \in Seq(NameOps \cup DirOps), NEW op, Doing(op)
  PROVE  op \in Ahead /\ op \in NameOps \cup DirOps
<1>1. Len(todo) \in Nat /\ Len(todo) # 0 /\ todo[1] = op
  BY DEF Doing
<1> QED
  BY <1>1 DEF Ahead

\* When an action ends, the others stay ahead.
LEMMA Taking ==
  ASSUME todo \in Seq(NameOps \cup DirOps), todo # <<>>, todo' = Tail(todo)
  PROVE  /\ todo' \in Seq(NameOps \cup DirOps)
         /\ Ahead' \subseteq Ahead /\ Ahead \subseteq Ahead' \cup {Head(todo)}
<1>1. /\ todo' \in Seq(NameOps \cup DirOps) /\ Len(todo') = Len(todo) - 1
      /\ \A i \in 1..Len(todo') : todo'[i] = todo[i + 1]
  BY HeadTailProperties
<1>2. Len(todo) \in Nat /\ Len(todo) # 0 /\ Head(todo) = todo[1]
  OBVIOUS
<1>3. Ahead' \subseteq Ahead
  <2> SUFFICES ASSUME NEW i \in 1..Len(todo')
               PROVE  todo'[i] \in Ahead
    BY DEF Ahead
  <2> QED
    BY <1>1, <1>2 DEF Ahead
<1>4. Ahead \subseteq Ahead' \cup {Head(todo)}
  <2> SUFFICES ASSUME NEW i \in 1..Len(todo), i # 1
               PROVE  todo[i] \in Ahead'
    BY <1>2 DEF Ahead
  <2>1. i - 1 \in 1..Len(todo') /\ (i - 1) + 1 = i
    BY <1>1, <1>2
  <2> QED
    BY <1>1, <2>1 DEF Ahead
<1> QED
  BY <1>1, <1>3, <1>4

LEMMA NothingAhead == todo = <<>> => Ahead = {}
BY DEF Ahead

\* A plan has what is needed, in whatever order.
LEMMA OrderedHas ==
  ASSUME NEW needed \in SUBSET (NameOps \cup DirOps), todo' = Ordered(needed)
  PROVE  todo' \in Seq(NameOps \cup DirOps) /\ Ahead' = needed
<1> DEFINE Part(op) == IF op \in needed THEN <<op>> ELSE <<>>
           Made(s, set) == s \in Seq(NameOps \cup DirOps) /\ {s[i] : i \in 1..Len(s)} = set
<1>1. ASSUME NEW s, NEW set, Made(s, set), NEW op \in NameOps \cup DirOps
      PROVE  Made(s \o Part(op), set \cup ({op} \cap needed))
  <2>1. CASE op \in needed
    <3>1. /\ s \o Part(op) \in Seq(NameOps \cup DirOps) /\ Len(s \o Part(op)) = Len(s) + 1
          /\ \A i \in 1..Len(s) : (s \o Part(op))[i] = s[i]
          /\ (s \o Part(op))[Len(s) + 1] = op
      BY <1>1, <2>1
    <3>2. Len(s) \in Nat
      BY <1>1
    <3>3. {(s \o Part(op))[i] : i \in 1..(Len(s) + 1)} = {s[i] : i \in 1..Len(s)} \cup {op}
      <4> HIDE DEF Part
      <4>1. \A i \in 1..(Len(s) + 1) : i \in 1..Len(s) \/ i = Len(s) + 1
        BY <3>2
      <4>2. \A i \in 1..Len(s) : i \in 1..(Len(s) + 1)
        BY <3>2
      <4>3. Len(s) + 1 \in 1..(Len(s) + 1)
        BY <3>2
      <4> QED
        BY <3>1, <4>1, <4>2, <4>3
    <3> QED
      BY <3>1, <3>3, <1>1, <2>1
  <2>2. CASE op \notin needed
    BY <1>1, <2>2, ConcatEmptySeq
  <2> QED
    BY <2>1, <2>2
<1>2. Made(Part("remove"), {"remove"} \cap needed)
  <2>1. Made(<<>>, {})
    OBVIOUS
  <2>2. CASE "remove" \in needed
    <3>1. Len(<<"remove">>) = 1 /\ <<"remove">>[1] = "remove" /\ <<"remove">> \in Seq(NameOps \cup DirOps)
      BY DEF NameOps
    <3> QED
      BY <2>2, <3>1
  <2>3. CASE "remove" \notin needed
    BY <2>1, <2>3
  <2> QED
    BY <2>2, <2>3
<1>3. Ordered(needed) = Part("remove") \o Part("rmdir") \o Part("mkdir") \o Part("copy") \o Part("symlink") \o Part("chmod")
  BY DEF Ordered
<1>4. /\ "rmdir" \in NameOps \cup DirOps /\ "mkdir" \in NameOps \cup DirOps
      /\ "copy" \in NameOps \cup DirOps /\ "symlink" \in NameOps \cup DirOps
      /\ "chmod" \in NameOps \cup DirOps
  BY DEF NameOps, DirOps
<1> HIDE DEF Part, Made
<1>5. \E set : Made(Part("remove") \o Part("rmdir") \o Part("mkdir"), set)
        /\ set = ({"remove"} \cap needed) \cup ({"rmdir"} \cap needed) \cup ({"mkdir"} \cap needed)
  BY <1>1, <1>2, <1>4
<1>6. \E set : Made(Ordered(needed), set) /\ set = needed
  <2>1. PICK set : /\ Made(Part("remove") \o Part("rmdir") \o Part("mkdir"), set)
                   /\ set = ({"remove"} \cap needed) \cup ({"rmdir"} \cap needed) \cup ({"mkdir"} \cap needed)
    BY <1>5
  <2>2. Made(Ordered(needed), ((set \cup ({"copy"} \cap needed)) \cup ({"symlink"} \cap needed)) \cup ({"chmod"} \cap needed))
    <3> DEFINE First == Part("remove") \o Part("rmdir") \o Part("mkdir")
    <3>1. Made(First \o Part("copy"), set \cup ({"copy"} \cap needed))
      BY <1>1, <1>4, <2>1
    <3>2. Made(First \o Part("copy") \o Part("symlink"),
               (set \cup ({"copy"} \cap needed)) \cup ({"symlink"} \cap needed))
      BY <1>1, <1>4, <3>1
    <3>3. Made(First \o Part("copy") \o Part("symlink") \o Part("chmod"),
               ((set \cup ({"copy"} \cap needed)) \cup ({"symlink"} \cap needed)) \cup ({"chmod"} \cap needed))
      BY <1>1, <1>4, <3>2
    <3> QED
      BY <1>3, <3>3
  <2>3. ((set \cup ({"copy"} \cap needed)) \cup ({"symlink"} \cap needed)) \cup ({"chmod"} \cap needed) = needed
    BY <2>1 DEF NameOps, DirOps
  <2> QED
    BY <2>2, <2>3
<1>7. todo' \in Seq(NameOps \cup DirOps) /\ {todo'[i] : i \in 1..Len(todo')} = needed
  BY <1>6 DEF Made
<1> QED
  BY <1>7 DEF Ahead

-----------------------------------------------------------------------------
(* Steps *)

\* An attempt that fails goes to its cleaning or its retry.
LEMMA FailingKeeps ==
  ASSUME IInv, NEW result \in {"denied", "io"}, AttemptFails(result),
         at \in Calling \ {"cleaning", "failed", "restoring"},
         UNCHANGED <<sourceVars, targetVars, torn, littered, lapsed>>
  PROVE  IInv'
<1>1. /\ error' = result /\ at' = IF Doing("copy") THEN "cleaning" ELSE "failed"
      /\ UNCHANGED <<held, linked, copied, todo, wanted, failed, due, retry, steady, whole, original>>
      /\ UNCHANGED <<source, sourceDir, changes, dir, dest, temp>>
  BY DEF AttemptFails, handle, planVars, sourceVars, targetVars
<1>2. Ahead' = Ahead /\ Doing("copy")' = Doing("copy")
  BY <1>1 DEF Ahead, Doing
<1>3. Typed'
  BY <1>1 DEF IInv, Typed, Calling, CopySteps, Results
<1>4. Placed'
  BY <1>1, <1>2 DEF IInv, Placed, Calling, CopySteps, Doing
<1>5. Lent' /\ Finished'
  BY <1>1 DEF IInv, Lent, Finished, Calling, CopySteps
<1>6. Temporary'
  BY <1>1 DEF IInv, Placed, Temporary, Calling, CopySteps
<1>7. Widened' /\ Timed' /\ Fits'
  BY <1>1, <1>2 DEF IInv, Widened, Timed, Fits, Calling, CopySteps
<1>8. Outstanding'
  BY <1>1, <1>2 DEF IInv, Outstanding, NameDone, DirDone, Calling, CopySteps
<1> QED
  BY <1>3, <1>4, <1>5, <1>6, <1>7, <1>8 DEF IInv

LEMMA Ending ==
  ASSUME Typed, NEW result, ActionEnds(result), todo # <<>>
  PROVE  /\ todo' = Tail(todo) /\ todo' \in Seq(NameOps \cup DirOps)
         /\ Ahead' \subseteq Ahead /\ Ahead \subseteq Ahead' \cup {Head(todo)}
         /\ at' \in {"idle", "acting"} /\ (todo' = <<>>) = (at' = "idle")
         /\ failed' = (failed \/ result # "ok") /\ error' = "ok" /\ original' = "none"
         /\ held' = Nothing /\ linked' = FALSE /\ copied' = 0
         /\ UNCHANGED <<wanted, due, steady, whole>>
         /\ result = "ok" => retry' = retry
         /\ result # "ok" => retry' = IF OnDir THEN "tree" ELSE Wider(retry, "name")
<1>1. /\ todo' = Tail(todo) /\ at' = IF todo' = <<>> THEN "idle" ELSE "acting"
      /\ failed' = (failed \/ result # "ok") /\ error' = "ok" /\ original' = "none"
      /\ held' = Nothing /\ linked' = FALSE /\ copied' = 0
      /\ UNCHANGED <<wanted, due, steady, whole>>
  BY DEF ActionEnds
<1>2. retry' = CASE result = "ok" -> retry
                 [] result # "ok" /\ OnDir -> "tree"
                 [] result # "ok" /\ ~OnDir -> Wider(retry, "name")
  BY DEF ActionEnds
<1>3. /\ result = "ok" => retry' = retry
      /\ result # "ok" => retry' = IF OnDir THEN "tree" ELSE Wider(retry, "name")
  BY <1>2
<1>4. todo \in Seq(NameOps \cup DirOps)
  BY DEF Typed
<1> QED
  BY <1>1, <1>3, <1>4, Taking

\* An action that ends leaves no temporary that is not accounted for, and what it was for is
\* done or has been reported.
LEMMA EndingKeeps ==
  ASSUME IInv, NEW result \in Results, ActionEnds(result), todo # <<>>,
         UNCHANGED sourceVars,
         dest' \in Entries, temp' \in Entries, temp' # Nothing => littered',
         dir' \in Modes \cup {"widened"}, lapsed' => dir' = "widened",
         torn' \in BOOLEAN, littered' \in BOOLEAN, lapsed' \in BOOLEAN,
         Widened', Timed', Outstanding'
  PROVE  IInv'
<1>1. Typed
  BY DEF IInv
<1>2. source' = source /\ sourceDir' = sourceDir /\ changes' = changes
  BY DEF sourceVars
<1>3. due' \in {"none", "name", "tree"} /\ retry' \in {"none", "name", "tree"}
  BY <1>1, Ending DEF Typed, Wider
<1> DEFINE Ended ==
      /\ todo' \in Seq(NameOps \cup DirOps)
      /\ at' \in {"idle", "acting"} /\ (todo' = <<>>) = (at' = "idle")
      /\ failed' = (failed \/ result # "ok") /\ error' = "ok" /\ original' = "none"
      /\ held' = Nothing /\ linked' = FALSE /\ copied' = 0
      /\ UNCHANGED <<wanted, due, steady, whole>>
<1>a. Ended
  BY <1>1, Ending
<1>b. held' \in Entries
  BY <1>a, Shapes
<1>4. Typed'
  BY <1>1, <1>2, <1>3, <1>a, <1>b DEF Typed, Results
<1>5. Placed' /\ Lent' /\ Finished'
  BY <1>a DEF Placed, Lent, Finished, Calling, CopySteps
<1>6. Temporary'
  BY <1>1, Ending DEF Temporary
<1>7. Fits'
  BY <1>1, <1>2, Ending DEF IInv, Placed, Fits
<1> QED
  BY <1>4, <1>5, <1>6, <1>7 DEF IInv

\* The target left as it is, a mode that is widened stays accounted for.
LEMMA WidenedKept ==
  ASSUME IInv, NEW result, ActionEnds(result), todo # <<>>,
         dir' = dir, lapsed' = lapsed, original = "none", at # "down",
         OnDir => result # "ok"
  PROVE  Widened'
<1>1. Typed
  BY DEF IInv
<1>2. CASE OnDir
  BY <1>1, <1>2, Ending DEF Widened
<1>3. CASE ~OnDir
  <2>1. Head(todo) \notin {"rmdir", "chmod"}
    BY <1>3 DEF OnDir, Doing
  <2>2. retry = "tree" => retry' = "tree"
    BY <1>1, <1>3, Ending DEF Wider
  <2> QED
    BY <1>1, <2>1, <2>2, Ending DEF IInv, Widened
<1> QED
  BY <1>2, <1>3

\* An action that fails with no mode to put back.
LEMMA FailedKeeps ==
  ASSUME IInv, NEW result \in {"denied", "io"}, ActionEnds(result), todo # <<>>,
         original = "none", temp # Nothing => littered, at # "down",
         UNCHANGED <<sourceVars, targetVars, torn, littered, lapsed>>
  PROVE  IInv'
<1>1. Typed
  BY DEF IInv
<1>2. /\ source' = source /\ sourceDir' = sourceDir /\ changes' = changes
      /\ dir' = dir /\ dest' = dest /\ temp' = temp
  BY DEF sourceVars, targetVars
<1>3. Widened'
  BY <1>2, WidenedKept
<1>4. Timed'
  BY <1>2 DEF IInv, Timed
<1>5. Outstanding'
  BY <1>1, Ending DEF Outstanding
<1>6. lapsed' => dir' = "widened"
  BY <1>2 DEF IInv, Lent
<1>7. /\ dest' \in Entries /\ temp' \in Entries /\ dir' \in Modes \cup {"widened"}
      /\ torn' \in BOOLEAN /\ littered' \in BOOLEAN /\ lapsed' \in BOOLEAN
  BY <1>1, <1>2 DEF Typed
<1> QED
  BY <1>2, <1>3, <1>4, <1>5, <1>6, <1>7, EndingKeeps DEF Results

\* An attempt that succeeds has brought the name to what the source has, unless it was
\* written meanwhile, and has left no temporary of its own.
LEMMA SucceedingKeeps ==
  ASSUME IInv, at \in {"renaming", "linking", "removing"}, AttemptSucceeds,
         UNCHANGED <<sourceVars, dir, lapsed, littered>>,
         dest' \in Entries, temp' \in Entries, temp' # Nothing => littered',
         torn' \in BOOLEAN, Timed', steady => dest' = source \/ torn'
  PROVE  IInv'
<1>1. Typed
  BY DEF IInv
<1>2. source' = source /\ sourceDir' = sourceDir /\ changes' = changes
  BY DEF sourceVars
<1>3. todo # <<>> /\ ~OnDir
  BY DEF IInv, Placed, OnDir, Doing, CopySteps
<1>4. /\ dir' \in Modes \cup {"widened"}
      /\ lapsed' => dir' = "widened"
      /\ littered' \in BOOLEAN /\ lapsed' \in BOOLEAN
  BY <1>1 DEF IInv, Typed, Lent
<1>5. CASE original = "none"
  <2>1. ActionEnds("ok")
    BY <1>5 DEF AttemptSucceeds
  <2>2. Widened'
    BY <1>3, <1>5, <2>1, WidenedKept
  <2>3. Head(todo) \notin {"rmdir", "chmod"}
    BY <1>3 DEF OnDir, Doing
  <2>4. Outstanding'
    BY <1>1, <1>2, <1>3, <1>5, <2>1, <2>3, Ending DEF IInv, Outstanding, NameDone, DirDone
  <2>5. UNCHANGED sourceVars
    OBVIOUS
  <2> QED
    BY <1>3, <1>4, <2>1, <2>2, <2>4, <2>5, EndingKeeps DEF Results
<1>6. CASE original # "none"
  <2>1. /\ at' = "restoring"
        /\ UNCHANGED <<held, linked, copied, todo, wanted, failed, due, retry, steady, whole, error, original>>
    BY <1>6 DEF AttemptSucceeds, handle, planVars, attemptVars
  <2>2. Ahead' = Ahead
    BY <2>1 DEF Ahead
  <2>3. Typed'
    BY <1>1, <1>2, <1>4, <2>1 DEF Typed, Calling
  <2>4. Placed'
    BY <2>1 DEF IInv, Placed, Doing, Calling, CopySteps
  <2>5. Lent' /\ Finished' /\ Temporary'
    BY <1>6, <2>1 DEF IInv, Lent, Finished, Temporary, Calling
  <2>6. Widened' /\ Fits'
    BY <1>2, <1>6, <2>1, <2>2 DEF IInv, Widened, Fits
  <2>7. Outstanding'
    BY <1>2, <2>1, <2>2 DEF IInv, Outstanding, NameDone, DirDone
  <2> QED
    BY <2>3, <2>4, <2>5, <2>6, <2>7 DEF IInv
<1> QED
  BY <1>5, <1>6

\* Whatever changes in the source, the pass under way is no longer over a source that keeps
\* still, and what its files hold is told by a time of its own.
LEMMA ChangeKeeps ==
  ASSUME IInv, NEW scope \in {"name", "tree"}, Changed(scope),
         source' \in Entries, source'.time \in 0..(changes + 1),
         IsFile(source') => source'.time = changes + 1 \/ source' = source,
         sourceDir' \in Modes, sourceDir' = "none" => source' = Nothing,
         held' \in Entries, linked' \in BOOLEAN
  PROVE  IInv'
<1>1. /\ changes' = changes + 1 /\ steady' = FALSE /\ due' = Wider(due, scope)
      /\ UNCHANGED <<todo, wanted, copied, failed, retry, whole, at, dir, dest, temp, error, original,
                     reads, torn, littered, lapsed>>
  BY DEF Changed, targetVars, attemptVars, history
<1>2. Ahead' = Ahead
  BY <1>1 DEF Ahead
<1>3. changes \in Nat /\ due' \in {"none", "name", "tree"}
  BY <1>1 DEF IInv, Typed, Wider
<1>a. changes' \in Nat
  BY <1>1, <1>3
<1>4. Typed'
  BY <1>1, <1>3, <1>a DEF IInv, Typed
<1>5. Placed' /\ Lent' /\ Temporary'
  BY <1>1 DEF IInv, Placed, Lent, Temporary, OnDir, Doing
<1>6. Finished' /\ Widened' /\ Fits' /\ Outstanding'
  BY <1>1, <1>2, <1>3 DEF IInv, Finished, Widened, Fits, Outstanding
<1>7. Timed'
  <2>1. temp.time \in Int /\ dest.time \in Int /\ temp.time <= changes /\ dest.time <= changes
    BY EntryKinds DEF IInv, Typed, Timed
  <2>2. IsFile(source') /\ IsFile(dest') /\ dest'.time = source'.time /\ ~torn' => dest'.data = source'.data
    BY <1>1, <1>3, <2>1 DEF IInv, Timed
  <2> QED
    BY <1>1, <1>3, <2>1, <2>2 DEF Timed
<1> QED
  BY <1>4, <1>5, <1>6, <1>7 DEF IInv

LEMMA EnvironmentKeeps == IInv /\ Environment => IInv'
<1> SUFFICES ASSUME IInv, Environment
             PROVE  IInv'
  OBVIOUS
<1>1. /\ changes \in Nat /\ source \in Entries /\ held \in Entries /\ linked \in BOOLEAN
      /\ sourceDir \in Modes /\ source.time \in 0..changes
      /\ sourceDir = "none" => source = Nothing
  BY DEF IInv, Typed, Timed
<1>2. changes + 1 \in Nat /\ \A time \in 0..changes : time \in 0..(changes + 1)
  BY <1>1
<1>3. \A data \in Contents : data \in Seq(Nat)
  BY ContentsAssumption
<1>4. ASSUME NEW data \in Contents, Rewrite(data)
      PROVE  IInv'
  <2>1. source' = File(data, changes + 1) /\ Changed("name") /\ sourceDir' = sourceDir /\ linked' = linked
    BY <1>4 DEF Rewrite
  <2>2. source' \in Entries /\ source'.time = changes + 1
    BY <1>2, <1>3, <2>1, FileShapes DEF Entries
  <2>3. held' \in Entries
    BY <1>1, <1>4, <2>2 DEF Rewrite
  <2>4. sourceDir' # "none"
    BY <1>1, <1>4, <2>1, Shapes DEF Rewrite
  <2> QED
    BY <1>1, <1>2, <2>1, <2>2, <2>3, <2>4, ChangeKeeps
<1>5. ASSUME NEW entry \in {Nothing, Link} \cup {File(data, changes + 1) : data \in Contents},
             Replace(entry)
      PROVE  IInv'
  <2>1. /\ source' = entry /\ Changed("name")
        /\ sourceDir' = sourceDir /\ held' = held /\ linked' = FALSE /\ sourceDir # "none"
    BY <1>5 DEF Replace
  <2>a. sourceDir' \in Modes /\ sourceDir' # "none" /\ held' \in Entries /\ linked' \in BOOLEAN
    BY <1>1, <2>1
  <2>2. CASE entry \in {Nothing, Link}
    <3>1. source' \in Entries /\ source'.time \in 0..(changes + 1) /\ ~IsFile(source')
      BY <1>2, <2>1, <2>2, Shapes
    <3> QED
      BY <2>1, <2>a, <3>1, ChangeKeeps
  <2>3. CASE entry \notin {Nothing, Link}
    <3>1. PICK data \in Contents : entry = File(data, changes + 1)
      BY <2>3
    <3>2. source' \in Entries /\ source'.time = changes + 1 /\ source'.time \in 0..(changes + 1)
      BY <1>2, <1>3, <2>1, <3>1, FileShapes DEF Entries
    <3> QED
      BY <2>1, <2>a, <3>2, ChangeKeeps
  <2> QED
    BY <2>2, <2>3
<1>6. ASSUME NEW mode \in {"none", "open", "readonly"}, ChangeDir(mode)
      PROVE  IInv'
  <2>1. /\ sourceDir' = mode /\ source' = (IF mode = "none" THEN Nothing ELSE source)
        /\ linked' = (linked /\ mode # "none") /\ held' = held /\ Changed("tree")
    BY <1>6 DEF ChangeDir
  <2>2. source' \in Entries /\ source'.time \in 0..changes /\ (IsFile(source') => source' = source)
    BY <1>1, <2>1, Shapes
  <2> QED
    BY <1>1, <1>2, <2>1, <2>2, ChangeKeeps DEF Modes
<1> QED
  BY <1>4, <1>5, <1>6 DEF Environment

\* A pass has ahead of it whatever is not as in the source.
LEMMA StartPassKeeps == IInv /\ (BatchComes \/ OtherBatchComes) => IInv'
<1> SUFFICES ASSUME IInv, StartPass, at \in {"down", "idle"}
             PROVE  IInv'
  BY DEF BatchComes, OtherBatchComes, Waiting
<1> DEFINE needed == NeededForName \cup (IF whole' THEN NeededForDir ELSE {})
<1>1. /\ at \in {"down", "idle"}
      /\ whole' = (at = "down" \/ "tree" \in {due, retry})
      /\ todo' = Ordered(needed)
      /\ wanted' = sourceDir /\ failed' = FALSE /\ steady' = TRUE /\ due' = "none" /\ retry' = "none"
      /\ at' = IF todo' = <<>> THEN "idle" ELSE "acting"
      /\ UNCHANGED <<source, sourceDir, changes, held, linked, copied, dir, dest, temp,
                     error, original, reads, torn, littered, lapsed>>
  BY DEF StartPass, sourceVars, handle, targetVars, attemptVars, history
<1>2. needed \in SUBSET (NameOps \cup DirOps)
  BY DEF NeededForName, NeededForDir, NameOps, DirOps
<1>3. todo' \in Seq(NameOps \cup DirOps) /\ Ahead' = needed
  <2> HIDE DEF needed
  <2> QED
    BY <1>1, <1>2, OrderedHas
<1>4. /\ "remove" \in Ahead' <=> source = Nothing /\ dest # Nothing
      /\ "copy" \in Ahead' <=> IsFile(source) /\ Differs(source, dest)
      /\ "symlink" \in Ahead' <=> source = Link /\ Differs(source, dest)
      /\ "rmdir" \in Ahead' <=> whole' /\ sourceDir = "none" /\ dir # "none"
      /\ "mkdir" \in Ahead' <=> whole' /\ sourceDir # "none" /\ dir = "none"
      /\ "chmod" \in Ahead' <=> whole' /\ sourceDir # "none" /\ sourceDir # dir
  BY <1>3 DEF NeededForName, NeededForDir
<1>5. original = "none"
  BY <1>1 DEF IInv, Lent, Calling, CopySteps
<1>6. Typed'
  BY <1>1, <1>3 DEF IInv, Typed
<1>7. Placed' /\ Lent' /\ Finished'
  BY <1>1, <1>5 DEF IInv, Placed, Lent, Finished, Calling, CopySteps
<1>8. Temporary' /\ Timed'
  BY <1>1 DEF IInv, Temporary, Timed
<1>9. Widened'
  <2>1. dir = "widened" => sourceDir # dir
    BY DEF IInv, Typed, Modes
  <2>2. at = "idle" => Ahead = {}
    BY NothingAhead DEF IInv, Placed
  <2>3. dir = "widened" => lapsed \/ whole'
    BY <1>1, <1>5, <2>2 DEF IInv, Widened
  <2> QED
    BY <1>1, <1>4, <2>1, <2>3 DEF Widened
<1>10. Fits'
  BY <1>1, <1>4 DEF Fits
<1>11. NameDone' \/ NameOps \cap Ahead' # {}
  <2> SUFFICES ASSUME NameOps \cap Ahead' = {}
               PROVE  dest = source \/ torn
    BY <1>1 DEF NameDone
  <2>1. source \in Entries /\ dest \in Entries
    BY DEF IInv, Typed
  <2>2. CASE source = Nothing
    BY <1>4, <2>2 DEF NameOps
  <2>3. CASE source = Link
    <3>1. dest.kind = "link"
      BY <1>4, <2>3, Shapes DEF NameOps, Differs
    <3> QED
      BY <2>1, <2>3, <3>1, EntryKinds, Shapes DEF IsFile
  <2>4. CASE IsFile(source)
    <3>1. dest.kind = source.kind /\ dest.time = source.time
      BY <1>4, <2>4 DEF NameOps, Differs
    <3>2. IsFile(dest) /\ (torn \/ dest.data = source.data)
      BY <2>4, <3>1 DEF IsFile, IInv, Timed, Typed
    <3> QED
      BY <2>1, <2>4, <3>1, <3>2, SameFile
  <2> QED
    BY <2>1, <2>2, <2>3, <2>4, EntryKinds
<1>12. whole' => DirDone' \/ "rmdir" \in Ahead' \/ "chmod" \in Ahead'
  BY <1>1, <1>4, <1>5 DEF DirDone
<1>13. Outstanding'
  BY <1>1, <1>11, <1>12 DEF Outstanding
<1> QED
  BY <1>6, <1>7, <1>8, <1>9, <1>10, <1>13 DEF IInv

\* An operation is entered for the action in hand.
LEMMA Entered ==
  ASSUME IInv, todo # <<>>, at' = Enter, UNCHANGED <<todo, wanted, failed, due, retry, steady, whole>>
  PROVE  /\ at' \in {"preparing", "clearing", "removing", "working"}
         /\ at' = "working" <=> OnDir
         /\ Ahead' = Ahead /\ Placed'
<1> DEFINE op == Head(todo)
<1>1. \A other : Doing(other) <=> other = op
  BY DEF Doing
<1>2. op \in NameOps \cup DirOps
  <2>1. Doing(op)
    BY DEF Doing
  <2> QED
    BY <2>1, HeadAhead DEF IInv, Typed
<1> HIDE DEF op
<1>3. at' = CASE op = "copy" -> "preparing" [] op = "symlink" -> "clearing"
              [] op = "remove" -> "removing" [] OTHER -> "working"
  BY <1>1 DEF Enter
<1>4. /\ at' \in {"preparing", "clearing", "removing", "working"}
      /\ at' = "preparing" <=> op = "copy"
      /\ at' = "clearing" <=> op = "symlink"
      /\ at' = "removing" <=> op = "remove"
      /\ at' = "working" <=> op \in DirOps
  BY <1>2, <1>3 DEF NameOps, DirOps
<1>5. OnDir <=> op \in DirOps
  BY <1>1 DEF OnDir, DirOps
<1>6. Ahead' = Ahead
  BY DEF Ahead
<1>7. \A other : Doing(other)' <=> Doing(other)
  BY DEF Doing
<1>8. OnDir' <=> OnDir
  BY <1>7 DEF OnDir
<1>9. Placed'
  BY <1>1, <1>2, <1>4, <1>5, <1>7, <1>8 DEF Placed, Calling, CopySteps, NameOps
<1> QED
  BY <1>4, <1>5, <1>6, <1>9

LEMMA BeginKeeps == IInv /\ Begin => IInv'
<1> SUFFICES ASSUME IInv, Begin
             PROVE  IInv'
  OBVIOUS
<1>1. /\ at = "acting" /\ todo # <<>> /\ original = "none" /\ (temp # Nothing => littered)
      /\ UNCHANGED <<source, sourceDir, changes, dest, temp, reads, torn, littered, lapsed>>
  BY DEF Begin, IInv, Placed, Lent, Temporary, Calling, CopySteps, sourceVars, history
<1>3. CASE ActionEnds("io") /\ UNCHANGED dir
  BY <1>1, <1>3, FailedKeeps DEF sourceVars, targetVars
<1>4. CASE ~(ActionEnds("io") /\ UNCHANGED dir)
  <2>1. /\ at' = Enter
        /\ dir' = IF dir = "none" /\ (Doing("copy") \/ Doing("symlink")) THEN "open" ELSE dir
        /\ UNCHANGED <<held, linked, copied, todo, wanted, failed, due, retry, steady, whole, error, original>>
    BY <1>4 DEF Begin, handle, planVars, attemptVars
  <2>2. /\ at' \in {"preparing", "clearing", "removing", "working"}
        /\ Ahead' = Ahead /\ Placed'
    BY <1>1, <2>1, Entered
  <2>3. dir' \in Modes \cup {"widened"} /\ (dir' = "widened" <=> dir = "widened")
    BY <2>1 DEF IInv, Typed, Modes
  <2>4. Typed'
    BY <1>1, <2>1, <2>2, <2>3 DEF IInv, Typed, Calling, CopySteps
  <2>5. Lent' /\ Temporary' /\ Finished'
    BY <1>1, <2>1, <2>2, <2>3 DEF IInv, Lent, Temporary, Finished
  <2>6. Widened' /\ Timed' /\ Fits'
    BY <1>1, <2>1, <2>2, <2>3 DEF IInv, Widened, Timed, Fits
  <2>7. dir' = dir \/ ~steady \/ (sourceDir # "none" /\ dir = "none" /\ ~lapsed)
    <3> SUFFICES ASSUME dir' # dir, steady
                 PROVE  sourceDir # "none" /\ dir = "none" /\ ~lapsed
      OBVIOUS
    <3>1. dir = "none" /\ ("copy" \in Ahead \/ "symlink" \in Ahead)
      BY <2>1, HeadAhead DEF IInv, Typed
    <3>2. source # Nothing
      BY <1>1, <3>1, Shapes DEF IInv, Fits
    <3> QED
      BY <3>1, <3>2 DEF IInv, Timed, Lent
  <2>8. Outstanding'
    BY <1>1, <2>1, <2>2, <2>7 DEF IInv, Outstanding, NameDone, DirDone
  <2> QED
    BY <2>2, <2>4, <2>5, <2>6, <2>8 DEF IInv
<1> QED
  BY <1>3, <1>4

\* Only the mode that refused is widened, and it is to be put back.
LEMMA RelaxKeeps == IInv /\ Relax => IInv'
<1> SUFFICES ASSUME IInv, Relax
             PROVE  IInv'
  OBVIOUS
<1>1. /\ at = "failed" /\ original = "none" /\ (temp # Nothing => littered)
      /\ error \in {"denied", "io"}
      /\ UNCHANGED <<source, sourceDir, changes, dest, temp, reads, torn, littered, lapsed>>
  BY DEF Relax, IInv, Typed, Placed, Temporary, Results, sourceVars, history
<1>2. todo # <<>> /\ ~OnDir
  BY <1>1 DEF IInv, Placed, OnDir, Doing, Calling, NameOps
<1>3. CASE ActionEnds(error) /\ UNCHANGED dir
  <2>1. UNCHANGED <<sourceVars, targetVars, torn, littered, lapsed>>
    BY <1>1, <1>3 DEF sourceVars, targetVars
  <2> QED
    BY <1>1, <1>2, <1>3, <2>1, FailedKeeps
<1>4. CASE ~(ActionEnds(error) /\ UNCHANGED dir)
  <2>1. /\ error = "denied" /\ dir = "readonly"
        /\ original' = dir /\ dir' = "widened" /\ error' = "ok" /\ at' = Enter
        /\ held' = Nothing /\ linked' = FALSE /\ copied' = 0
        /\ UNCHANGED <<todo, wanted, failed, due, retry, steady, whole>>
    BY <1>4 DEF Relax, Relaxable, planVars
  <2>2. /\ at' \in {"preparing", "clearing", "removing"}
        /\ Ahead' = Ahead /\ Placed'
    BY <1>2, <2>1, Entered
  <2>3. ~lapsed
    BY <2>1 DEF IInv, Lent
  <2>4. Typed'
    BY <1>1, <2>1, <2>2, Shapes DEF IInv, Typed, Results, Calling, CopySteps
  <2>5. Lent' /\ Temporary' /\ Finished'
    BY <1>1, <2>1, <2>2, <2>3 DEF Lent, Temporary, Finished, Calling, CopySteps
  <2>6. Widened' /\ Timed' /\ Fits'
    BY <1>1, <2>1, <2>2 DEF IInv, Widened, Timed, Fits
  <2>7. Outstanding'
    BY <1>1, <2>1, <2>2, <2>3 DEF IInv, Outstanding, NameDone, DirDone
  <2> QED
    BY <2>2, <2>4, <2>5, <2>6, <2>7 DEF IInv
<1> QED
  BY <1>3, <1>4

LEMMA RetryFailsKeeps == IInv /\ RetryFails => IInv'
<1> SUFFICES ASSUME IInv, RetryFails
             PROVE  IInv'
  OBVIOUS
<1>1. /\ at = "failed" /\ original # "none" /\ at' = "restoring"
      /\ UNCHANGED <<source, sourceDir, changes, held, linked, copied, dir, dest, temp,
                     todo, wanted, failed, due, retry, steady, whole, error, original,
                     reads, torn, littered, lapsed>>
  BY DEF RetryFails, sourceVars, handle, targetVars, planVars, attemptVars, history
<1>2. Ahead' = Ahead /\ error # "ok"
  BY <1>1 DEF Ahead, IInv, Placed
<1>3. Typed'
  BY <1>1 DEF IInv, Typed, Calling
<1>4. Placed' /\ Lent'
  BY <1>1 DEF IInv, Placed, Lent, Doing, Calling, CopySteps
<1>5. Temporary' /\ Finished'
  BY <1>1 DEF IInv, Temporary, Finished
<1>6. Widened' /\ Timed' /\ Fits'
  BY <1>1, <1>2 DEF IInv, Widened, Timed, Fits
<1>7. Outstanding'
  BY <1>1, <1>2 DEF IInv, Outstanding, NameDone, DirDone
<1> QED
  BY <1>3, <1>4, <1>5, <1>6, <1>7 DEF IInv

\* However the second attempt ended.
LEMMA RestoreKeeps == IInv /\ Restore => IInv'
<1> SUFFICES ASSUME IInv, Restore
             PROVE  IInv'
  OBVIOUS
<1>1. /\ at = "restoring" /\ original = "readonly" /\ dir = "widened" /\ lapsed = FALSE
      /\ (temp # Nothing => littered) /\ error \in Results
      /\ UNCHANGED <<source, sourceDir, changes, dest, temp, reads, torn, littered>>
  BY DEF Restore, IInv, Typed, Lent, Temporary, sourceVars
<1>2. ActionEnds(error) /\ ((dir' = original /\ lapsed' = lapsed) \/ (dir' = dir /\ lapsed' = TRUE))
  BY DEF Restore
<1>3. todo # <<>> /\ Head(todo) \in NameOps
  BY <1>1 DEF IInv, Placed, Doing, Calling, NameOps
<1>4. dir' \in Modes \cup {"widened"} /\ lapsed' \in BOOLEAN /\ (lapsed' => dir' = "widened")
  BY <1>1, <1>2 DEF Modes
<1>5. Widened'
  BY <1>1, <1>2 DEF Widened
<1>6. Timed'
  BY <1>1 DEF IInv, Timed
<1>7. Outstanding'
  <2>1. /\ Ahead' \subseteq Ahead /\ Ahead \subseteq Ahead' \cup {Head(todo)}
        /\ at' \in {"idle", "acting"} /\ failed' = (failed \/ error # "ok") /\ original' = "none"
        /\ steady' = steady /\ whole' = whole
    BY <1>2, <1>3, Ending DEF IInv
  <2>2. "rmdir" \in Ahead \/ "chmod" \in Ahead => "rmdir" \in Ahead' \/ "chmod" \in Ahead'
    BY <1>3, <2>1 DEF NameOps
  <2>3. at' # "down" /\ steady' /\ ~failed' => NameDone'
    BY <1>1, <2>1 DEF IInv, Outstanding, NameDone
  <2>4. at' # "down" /\ steady' /\ ~failed' /\ whole' => DirDone' \/ "rmdir" \in Ahead' \/ "chmod" \in Ahead'
    BY <1>1, <1>2, <2>1, <2>2 DEF IInv, Outstanding, DirDone
  <2> QED
    BY <2>1, <2>3, <2>4 DEF Outstanding
<1>8. UNCHANGED sourceVars /\ dest' \in Entries /\ temp' \in Entries /\ torn' \in BOOLEAN /\ littered' \in BOOLEAN
  BY <1>1 DEF sourceVars, IInv, Typed
<1> QED
  BY <1>1, <1>2, <1>3, <1>4, <1>5, <1>6, <1>7, <1>8, EndingKeeps

\* The calls of a copy, each of which may be the one that fails.
Failing == \E result \in {"denied", "io"} : AttemptFails(result)

\* What a step of an attempt leaves alone.
LEMMA Stepping ==
  ASSUME NEW next, Step(next)
  PROVE  /\ at' = next /\ Ahead' = Ahead
         /\ UNCHANGED <<todo, wanted, failed, due, retry, steady, whole, error, original>>
BY DEF Step, planVars, attemptVars, Ahead

LEMMA RemoveStaleKeeps == IInv /\ RemoveStale => IInv'
<1> SUFFICES ASSUME IInv, RemoveStale
             PROVE  IInv'
  OBVIOUS
<1>1. /\ at = "preparing"
      /\ UNCHANGED <<source, sourceDir, changes, reads, torn, littered, lapsed>>
  BY DEF RemoveStale, sourceVars, history
<1>2. CASE Failing /\ UNCHANGED targetVars
  BY <1>1, <1>2, FailingKeeps DEF Failing, Calling, CopySteps, sourceVars
<1>3. CASE ~(Failing /\ UNCHANGED targetVars)
  <2>1. /\ temp' = Nothing /\ Step("opening")
        /\ UNCHANGED <<held, linked, copied, dir, dest>>
    BY <1>3 DEF RemoveStale, Calls, Failing, handle
  <2>2. /\ at' = "opening" /\ Ahead' = Ahead
        /\ UNCHANGED <<todo, wanted, failed, due, retry, steady, whole, error, original>>
    BY <2>1, Stepping
  <2>3. Typed'
    BY <1>1, <2>1, <2>2, Shapes DEF IInv, Typed, Calling, CopySteps
  <2>4. Placed' /\ Lent'
    BY <1>1, <2>1, <2>2 DEF IInv, Placed, Lent, Doing, Calling, CopySteps
  <2>5. Temporary' /\ Finished'
    BY <2>1, <2>2 DEF Temporary, Finished
  <2>6. Timed'
    BY <1>1, <2>1, Shapes DEF IInv, Typed, Timed
  <2>7. Widened' /\ Fits'
    BY <1>1, <2>1, <2>2 DEF IInv, Widened, Fits
  <2>8. Outstanding'
    BY <1>1, <2>1, <2>2 DEF IInv, Outstanding, NameDone, DirDone
  <2> QED
    BY <2>3, <2>4, <2>5, <2>6, <2>7, <2>8 DEF IInv
<1> QED
  BY <1>2, <1>3

LEMMA OpenSourceKeeps == IInv /\ OpenSource => IInv'
<1> SUFFICES ASSUME IInv, OpenSource
             PROVE  IInv'
  OBVIOUS
<1>1. /\ at = "opening" /\ temp = Nothing
      /\ UNCHANGED <<source, sourceDir, changes, reads, torn, littered, lapsed>>
  BY DEF OpenSource, sourceVars, history, IInv, Temporary
<1>2. CASE Failing /\ UNCHANGED targetVars
  BY <1>1, <1>2, FailingKeeps DEF Failing, Calling, CopySteps, sourceVars
<1>3. CASE ~(Failing /\ UNCHANGED targetVars)
  <2>1. /\ dir # "readonly" /\ temp' = File(<<>>, Unstamped)
        /\ held' = source /\ linked' = TRUE /\ copied' = 0 /\ Step("copying")
        /\ UNCHANGED <<dir, dest>>
    BY <1>1, <1>3 DEF OpenSource, Calls, Failing
  <2>2. /\ at' = "copying" /\ Ahead' = Ahead
        /\ UNCHANGED <<todo, wanted, failed, due, retry, steady, whole, error, original>>
    BY <2>1, Stepping
  <2>3. /\ temp' \in Entries /\ IsFile(temp') /\ temp'.data = <<>> /\ temp'.time = -1
    <3>1. <<>> \in Seq(Nat) /\ Unstamped \in Int /\ Unstamped = -1
      BY DEF Unstamped
    <3> QED
      BY <2>1, <3>1, FileShapes DEF Entries
  <2>4. Typed'
    BY <1>1, <2>1, <2>2, <2>3 DEF IInv, Typed, Calling, CopySteps
  <2>5. Placed' /\ Lent'
    BY <1>1, <2>1, <2>2 DEF IInv, Placed, Lent, Doing, Calling, CopySteps
  <2>6. Temporary' /\ Finished'
    BY <2>1, <2>2, <2>3 DEF Temporary, Finished
  <2>7. Timed'
    BY <1>1, <2>1, <2>3 DEF IInv, Typed, Timed
  <2>8. Widened' /\ Fits'
    BY <1>1, <2>1, <2>2 DEF IInv, Widened, Fits
  <2>9. Outstanding'
    BY <1>1, <2>1, <2>2 DEF IInv, Outstanding, NameDone, DirDone
  <2> QED
    BY <2>4, <2>5, <2>6, <2>7, <2>8, <2>9 DEF IInv
<1> QED
  BY <1>2, <1>3

LEMMA CopyBlockKeeps == IInv /\ CopyBlock => IInv'
<1> SUFFICES ASSUME IInv, CopyBlock
             PROVE  IInv'
  OBVIOUS
<1>1. /\ at = "copying" /\ copied < Len(held.data) /\ copied \in Nat
      /\ UNCHANGED <<source, sourceDir, changes, reads, torn, littered, lapsed>>
  <2>1. copied \in Nat /\ Len(held.data) \in Nat
    BY EntryKinds DEF IInv, Typed
  <2> QED
    BY <2>1 DEF CopyBlock, AtEnd, sourceVars, history
<1>2. CASE Failing /\ UNCHANGED targetVars
  BY <1>1, <1>2, FailingKeeps DEF Failing, Calling, CopySteps, sourceVars
<1>3. CASE ~(Failing /\ UNCHANGED targetVars)
  <2>1. /\ temp' = File(Append(temp.data, held.data[copied + 1]), Unstamped)
        /\ copied' = copied + 1
        /\ UNCHANGED <<at, todo, wanted, failed, due, retry, steady, whole, error, original,
                       held, linked, dir, dest>>
    BY <1>3 DEF CopyBlock, Calls, Failing, planVars, attemptVars
  <2>2. Ahead' = Ahead
    BY <2>1 DEF Ahead
  <2>3. /\ temp' \in Entries /\ IsFile(temp') /\ Len(temp'.data) = copied' /\ temp'.time = -1
    <3>1. temp.data \in Seq(Nat) /\ held.data \in Seq(Nat)
      BY EntryKinds DEF IInv, Typed
    <3>2. held.data[copied + 1] \in Nat
      BY <1>1, <3>1
    <3>3. /\ Append(temp.data, held.data[copied + 1]) \in Seq(Nat)
          /\ Len(Append(temp.data, held.data[copied + 1])) = Len(temp.data) + 1
      BY <3>1, <3>2
    <3>4. Unstamped \in Int /\ Unstamped = -1
      BY DEF Unstamped
    <3> QED
      BY <1>1, <2>1, <3>3, <3>4, FileShapes DEF Entries, IInv, Temporary
  <2>4. Typed'
    BY <1>1, <2>1, <2>3 DEF IInv, Typed
  <2>5. Placed' /\ Lent'
    BY <1>1, <2>1 DEF IInv, Placed, Lent, Doing, Calling, CopySteps
  <2>6. Temporary' /\ Finished'
    BY <1>1, <2>1, <2>3 DEF IInv, Temporary, Finished
  <2>7. Timed'
    BY <1>1, <2>1, <2>3 DEF IInv, Typed, Timed
  <2>8. Widened' /\ Fits'
    BY <1>1, <2>1, <2>2 DEF IInv, Widened, Fits
  <2>9. Outstanding'
    BY <1>1, <2>1, <2>2 DEF IInv, Outstanding, NameDone, DirDone
  <2> QED
    BY <2>4, <2>5, <2>6, <2>7, <2>8, <2>9 DEF IInv
<1> QED
  BY <1>2, <1>3

LEMMA StampSourceKeeps == IInv /\ StampSource => IInv'
<1> SUFFICES ASSUME IInv, StampSource
             PROVE  IInv'
  OBVIOUS
<1>1. /\ at = "copying" /\ dir # "readonly"
      /\ UNCHANGED <<source, sourceDir, changes, torn, littered, lapsed>>
  BY DEF StampSource, sourceVars, IInv, Temporary
<1>2. CASE Failing /\ UNCHANGED targetVars
  BY <1>1, <1>2, FailingKeeps DEF Failing, Calling, CopySteps, sourceVars
<1>3. CASE ~(Failing /\ UNCHANGED targetVars)
  <2>1. /\ IsFile(source) /\ temp' = File(temp.data, source.time) /\ temp' \in reads'
        /\ Step("renaming")
        /\ UNCHANGED <<held, linked, copied, dir, dest>>
    BY <1>3 DEF StampSource, Calls, Failing, handle
  <2>2. /\ at' = "renaming" /\ Ahead' = Ahead
        /\ UNCHANGED <<todo, wanted, failed, due, retry, steady, whole, error, original>>
    BY <2>1, Stepping
  <2>3. temp' \in Entries /\ IsFile(temp') /\ temp'.time = source.time /\ temp'.time <= changes
    <3>1. temp.data \in Seq(Nat) /\ source.time \in 0..changes /\ source.time \in Int /\ changes \in Nat
      BY EntryKinds DEF IInv, Typed, Timed
    <3> QED
      BY <2>1, <3>1, FileShapes DEF Entries
  <2>4. Typed'
    BY <1>1, <2>1, <2>2, <2>3 DEF IInv, Typed, Calling, CopySteps
  <2>5. Placed' /\ Lent'
    BY <1>1, <2>1, <2>2 DEF IInv, Placed, Lent, Doing, Calling, CopySteps
  <2>6. Temporary' /\ Finished'
    BY <1>1, <2>1, <2>2, <2>3 DEF Temporary, Finished
  <2>7. Timed'
    BY <1>1, <2>1, <2>3 DEF IInv, Typed, Timed
  <2>8. Widened' /\ Fits'
    BY <1>1, <2>1, <2>2 DEF IInv, Widened, Fits
  <2>9. Outstanding'
    BY <1>1, <2>1, <2>2 DEF IInv, Outstanding, NameDone, DirDone
  <2> QED
    BY <2>4, <2>5, <2>6, <2>7, <2>8, <2>9 DEF IInv
<1> QED
  BY <1>2, <1>3

\* What a rename publishes is what the source holds, or is told from it: by its time, or as
\* torn.
LEMMA RenameOverKeeps == IInv /\ RenameOver => IInv'
<1> SUFFICES ASSUME IInv, RenameOver
             PROVE  IInv'
  OBVIOUS
<1>1. /\ at = "renaming" /\ torn' = IF dest' # dest THEN temp.data # source.data ELSE torn
      /\ UNCHANGED <<source, sourceDir, changes, reads, littered, lapsed>>
  BY DEF RenameOver, sourceVars
<1>2. CASE Failing /\ UNCHANGED targetVars
  <2>1. UNCHANGED torn
    BY <1>1, <1>2 DEF targetVars
  <2> QED
    BY <1>1, <1>2, <2>1, FailingKeeps DEF Failing, Calling, CopySteps, sourceVars
<1>3. CASE ~(Failing /\ UNCHANGED targetVars)
  <2>1. dest' = temp /\ temp' = Nothing /\ AttemptSucceeds /\ dir' = dir
    BY <1>3 DEF RenameOver, Calls, Failing
  <2>2. /\ temp \in Entries /\ dest \in Entries /\ source \in Entries /\ IsFile(temp)
        /\ torn \in BOOLEAN /\ temp.time <= changes /\ temp' \in Entries /\ temp'.time = 0 /\ 0 <= changes
    BY <1>1, <2>1, Shapes DEF IInv, Typed, Temporary, Timed
  <2>3. torn' \in BOOLEAN
    BY <1>1, <2>2
  <2>4. IsFile(source) /\ temp.time = source.time /\ ~torn' => dest' = source
    <3> SUFFICES ASSUME IsFile(source), temp.time = source.time, ~torn'
                 PROVE  temp.data = source.data
      BY <2>1, <2>2, SameFile
    <3>1. CASE dest' # dest
      BY <1>1, <3>1
    <3>2. CASE dest' = dest
      BY <1>1, <2>1, <2>2, <3>2 DEF IInv, Timed
    <3> QED
      BY <3>1, <3>2
  <2>5. Timed'
    <3>1. /\ source'.time \in 0..changes' /\ temp'.time <= changes' /\ dest'.time <= changes'
          /\ sourceDir' = "none" => source' = Nothing
      BY <1>1, <2>1, <2>2 DEF IInv, Timed
    <3>2. IsFile(source') /\ IsFile(dest') /\ dest'.time = source'.time /\ ~torn' => dest'.data = source'.data
      BY <1>1, <2>1, <2>4
    <3> QED
      BY <3>1, <3>2 DEF Timed
  <2>6. steady => dest' = source \/ torn'
    <3> SUFFICES ASSUME steady
                 PROVE  IsFile(source) /\ temp.time = source.time
      BY <2>4
    <3>1. "copy" \in Ahead
      BY <1>1, HeadAhead DEF IInv, Typed, Placed, CopySteps
    <3> QED
      BY <1>1, <3>1 DEF IInv, Fits, Finished
  <2> QED
    BY <1>1, <2>1, <2>2, <2>3, <2>5, <2>6, SucceedingKeeps DEF sourceVars
<1> QED
  BY <1>2, <1>3

LEMMA RemoveTemporaryKeeps == IInv /\ RemoveTemporary => IInv'
<1> SUFFICES ASSUME IInv, RemoveTemporary
             PROVE  IInv'
  OBVIOUS
<1>1. /\ at = "cleaning" /\ at' = "failed"
      /\ UNCHANGED <<source, sourceDir, changes, held, linked, copied, todo, wanted, failed, due, retry,
                     steady, whole, error, original, dir, dest, reads, torn, lapsed>>
  BY DEF RemoveTemporary, sourceVars, handle, planVars, attemptVars
<1>2. /\ temp' \in {temp, Nothing} /\ littered' \in {littered, TRUE}
      /\ temp' # Nothing => littered'
  <2>1. /\ temp # Nothing => littered \/ dir # "readonly"
        /\ littered \in BOOLEAN
    BY <1>1 DEF IInv, Typed, Temporary
  <2>2. CASE temp' = (IF dir = "readonly" THEN temp ELSE Nothing) /\ littered' = littered
    BY <2>1, <2>2
  <2>3. CASE temp' = temp /\ littered' = TRUE
    BY <2>3
  <2> QED
    BY <2>2, <2>3 DEF RemoveTemporary
<1>3. Ahead' = Ahead
  BY <1>1 DEF Ahead
<1>4. Typed'
  <2>1. Typed
    BY DEF IInv
  <2>2. temp' \in Entries /\ littered' \in BOOLEAN
    BY <1>2, <2>1, Shapes DEF Typed
  <2>3. at' \in Calling \cup {"down", "idle", "acting", "working"}
    BY <1>1 DEF Calling, CopySteps
  <2> QED
    BY <1>1, <2>1, <2>2, <2>3 DEF Typed
<1>5. Placed' /\ Lent'
  BY <1>1 DEF IInv, Placed, Lent, Doing, Calling, CopySteps
<1>6. Temporary' /\ Finished'
  BY <1>1, <1>2 DEF Temporary, Finished
<1>7. Timed'
  BY <1>1, <1>2, Shapes DEF IInv, Typed, Timed
<1>8. Widened' /\ Fits'
  BY <1>1, <1>3 DEF IInv, Widened, Fits
<1>9. Outstanding'
  BY <1>1, <1>3 DEF IInv, Outstanding, NameDone, DirDone
<1> QED
  BY <1>4, <1>5, <1>6, <1>7, <1>8, <1>9 DEF IInv

\* Between the two calls of replace_symlink the link is still ahead.
LEMMA ClearForLinkKeeps == IInv /\ ClearForLink => IInv'
<1> SUFFICES ASSUME IInv, ClearForLink
             PROVE  IInv'
  OBVIOUS
<1>1. /\ at = "clearing" /\ "symlink" \in Ahead /\ (temp # Nothing => littered)
      /\ UNCHANGED <<source, sourceDir, changes, reads, torn, littered, lapsed>>
  BY HeadAhead DEF ClearForLink, sourceVars, history, IInv, Typed, Placed, Temporary
<1>2. CASE Failing /\ UNCHANGED targetVars
  BY <1>1, <1>2, FailingKeeps DEF Failing, Calling, CopySteps, sourceVars
<1>3. CASE ~(Failing /\ UNCHANGED targetVars)
  <2>1. /\ dest' = Nothing /\ Step("linking")
        /\ UNCHANGED <<held, linked, copied, dir, temp>>
    BY <1>3 DEF ClearForLink, Calls, Failing, handle
  <2>2. /\ at' = "linking" /\ Ahead' = Ahead
        /\ UNCHANGED <<todo, wanted, failed, due, retry, steady, whole, error, original>>
    BY <2>1, Stepping
  <2>3. Typed'
    BY <1>1, <2>1, <2>2, Shapes DEF IInv, Typed, Calling, CopySteps
  <2>4. Placed' /\ Lent'
    BY <1>1, <2>1, <2>2 DEF IInv, Placed, Lent, Doing, Calling, CopySteps
  <2>5. Temporary' /\ Finished'
    BY <1>1, <2>1, <2>2 DEF Temporary, Finished
  <2>6. Timed'
    BY <1>1, <2>1, Shapes DEF IInv, Typed, Timed
  <2>7. Widened' /\ Fits'
    BY <1>1, <2>1, <2>2 DEF IInv, Widened, Fits
  <2>8. Outstanding'
    BY <1>1, <2>1, <2>2 DEF IInv, Outstanding, DirDone, NameOps
  <2> QED
    BY <2>3, <2>4, <2>5, <2>6, <2>7, <2>8 DEF IInv
<1> QED
  BY <1>2, <1>3

LEMMA MakeLinkKeeps == IInv /\ MakeLink => IInv'
<1> SUFFICES ASSUME IInv, MakeLink
             PROVE  IInv'
  OBVIOUS
<1>1. /\ at = "linking" /\ "symlink" \in Ahead /\ (temp # Nothing => littered)
      /\ UNCHANGED <<source, sourceDir, changes, reads, torn, littered, lapsed>>
  BY HeadAhead DEF MakeLink, sourceVars, history, IInv, Typed, Placed, Temporary
<1>2. CASE Failing /\ UNCHANGED targetVars
  BY <1>1, <1>2, FailingKeeps DEF Failing, Calling, CopySteps, sourceVars
<1>3. CASE ~(Failing /\ UNCHANGED targetVars)
  <2>1. dest' = Link /\ AttemptSucceeds /\ dir' = dir /\ temp' = temp
    BY <1>3 DEF MakeLink, Calls, Failing
  <2>2. /\ dest' \in Entries /\ temp' \in Entries /\ torn' \in BOOLEAN
        /\ temp' # Nothing => littered'
    BY <1>1, <2>1, Shapes DEF IInv, Typed
  <2>3. Timed'
    BY <1>1, <2>1, Shapes DEF IInv, Typed, Timed
  <2>4. steady => dest' = source
    BY <1>1, <2>1 DEF IInv, Fits
  <2> QED
    BY <1>1, <2>1, <2>2, <2>3, <2>4, SucceedingKeeps DEF sourceVars
<1> QED
  BY <1>2, <1>3

LEMMA RemoveEntryKeeps == IInv /\ RemoveEntry => IInv'
<1> SUFFICES ASSUME IInv, RemoveEntry
             PROVE  IInv'
  OBVIOUS
<1>1. /\ at = "removing" /\ "remove" \in Ahead /\ (temp # Nothing => littered)
      /\ UNCHANGED <<source, sourceDir, changes, reads, torn, littered, lapsed>>
  BY HeadAhead DEF RemoveEntry, sourceVars, history, IInv, Typed, Placed, Temporary
<1>2. CASE Failing /\ UNCHANGED targetVars
  BY <1>1, <1>2, FailingKeeps DEF Failing, Calling, CopySteps, sourceVars
<1>3. CASE ~(Failing /\ UNCHANGED targetVars)
  <2>1. dest' = Nothing /\ AttemptSucceeds /\ dir' = dir /\ temp' = temp
    BY <1>3 DEF RemoveEntry, Calls, Failing
  <2>2. /\ dest' \in Entries /\ temp' \in Entries /\ torn' \in BOOLEAN
        /\ temp' # Nothing => littered'
    BY <1>1, <2>1, Shapes DEF IInv, Typed
  <2>3. Timed'
    BY <1>1, <2>1, Shapes DEF IInv, Typed, Timed
  <2>4. steady => dest' = source
    BY <1>1, <2>1 DEF IInv, Fits
  <2> QED
    BY <1>1, <2>1, <2>2, <2>3, <2>4, SucceedingKeeps DEF sourceVars
<1> QED
  BY <1>2, <1>3

\* An action on the directory that is told as done has made it what the source's is.
LEMMA WorkOnDirKeeps == IInv /\ WorkOnDir => IInv'
<1> SUFFICES ASSUME IInv, WorkOnDir
             PROVE  IInv'
  OBVIOUS
<1>1. /\ at = "working" /\ original = "none" /\ OnDir /\ todo # <<>>
      /\ (temp # Nothing => littered)
      /\ lapsed' = (lapsed /\ dir' = "widened")
      /\ UNCHANGED <<source, sourceDir, changes, dest, temp, reads, torn, littered>>
  BY DEF WorkOnDir, sourceVars, IInv, Placed, Lent, Temporary, Calling, CopySteps
<1> DEFINE told == IF (dir' = "none") = Doing("rmdir") THEN "ok" ELSE "io"
<1>2. (lapsed => dir = "widened") /\ lapsed \in BOOLEAN
  BY DEF IInv, Typed, Lent
<1>3. CASE UNCHANGED dir /\ ActionEnds("io")
  <2>1. lapsed' = lapsed
    BY <1>1, <1>2, <1>3
  <2> QED
    BY <1>1, <1>3, <2>1, FailedKeeps DEF sourceVars, targetVars
<1>4. CASE ~(UNCHANGED dir /\ ActionEnds("io"))
  <2>1. dir' = DirAfter /\ ActionEnds(told)
    BY <1>4 DEF WorkOnDir
  <2>2. told \in {"ok", "io"} /\ told \in Results
    BY DEF Results
  <2> HIDE DEF told
  <2>3. /\ Ahead' \subseteq Ahead /\ Ahead \subseteq Ahead' \cup {Head(todo)}
        /\ failed' = (failed \/ told # "ok") /\ original' = "none" /\ at' \in {"idle", "acting"}
        /\ UNCHANGED <<wanted, steady, whole>>
        /\ (told # "ok" => retry' = "tree") /\ (told = "ok" => retry' = retry)
    BY <1>1, <2>1, Ending DEF IInv
  <2>4. /\ dir \in Modes \cup {"widened"} /\ wanted \in Modes /\ sourceDir \in Modes
    BY DEF IInv, Typed
  <2>5. PICK op \in DirOps : Doing(op) /\ Head(todo) = op /\ op \in Ahead
    BY <1>1, HeadAhead DEF OnDir, DirOps, Doing, IInv, Typed
  <2>6. /\ op = "rmdir" => dir' = IF dest = Nothing /\ temp = Nothing THEN "none" ELSE dir
        /\ op = "mkdir" => dir' = IF dir = "none" THEN "open" ELSE dir
        /\ op = "chmod" => dir' = IF dir = "none" THEN "none" ELSE wanted
        /\ told = IF (dir' = "none") = (op = "rmdir") THEN "ok" ELSE "io"
    BY <2>1, <2>5 DEF DirAfter, Doing, told
  <2>7. /\ dir' \in Modes \cup {"widened"} /\ lapsed' \in BOOLEAN
        /\ lapsed' => dir' = "widened"
    BY <1>1, <1>2, <2>4, <2>5, <2>6 DEF Modes, DirOps
  <2>8. Widened'
    <3> SUFFICES ASSUME dir' = "widened", ~lapsed', told = "ok"
                 PROVE  retry' = "tree" \/ "rmdir" \in Ahead' \/ "chmod" \in Ahead'
      BY <2>2, <2>3 DEF Widened
    <3>1. op = "mkdir" /\ dir = "widened"
      BY <2>4, <2>5, <2>6 DEF Modes, DirOps
    <3> QED
      BY <1>1, <2>3, <2>5, <3>1 DEF IInv, Widened
  <2>9. Timed'
    BY <1>1 DEF IInv, Timed
  <2>10. Outstanding'
    <3>1. at' # "restoring" /\ (failed' \/ told = "ok")
      BY <2>2, <2>3
    <3>2. steady' /\ ~failed' => NameDone' \/ NameOps \cap Ahead' # {}
      BY <1>1, <2>3, <2>5 DEF IInv, Outstanding, NameDone, NameOps, DirOps
    <3>3. steady' /\ ~failed' /\ whole' => DirDone' \/ "rmdir" \in Ahead' \/ "chmod" \in Ahead'
      <4> SUFFICES ASSUME steady, ~failed', whole
                   PROVE  DirDone' \/ "rmdir" \in Ahead' \/ "chmod" \in Ahead'
        BY <2>3
      <4>1. told = "ok" /\ ~failed /\ wanted = sourceDir
        BY <1>1, <2>3, <3>1 DEF IInv, Fits
      <4>2. CASE op = "rmdir"
        BY <1>1, <2>3, <2>5, <2>6, <4>1, <4>2 DEF IInv, Fits, DirDone
      <4>3. CASE op = "chmod"
        BY <1>1, <2>3, <2>5, <2>6, <4>1, <4>3 DEF DirDone
      <4>4. CASE op = "mkdir"
        <5>1. sourceDir # "none"
          BY <1>1, <2>5, <4>4 DEF IInv, Fits
        <5>2. DirDone \/ "rmdir" \in Ahead' \/ "chmod" \in Ahead'
          BY <1>1, <2>3, <2>5, <4>1, <4>4 DEF IInv, Outstanding
        <5>3. CASE dir = "none"
          BY <1>1, <1>2, <5>1, <5>2, <5>3 DEF DirDone
        <5>4. CASE dir # "none"
          <6>1. dir' = dir /\ lapsed' = lapsed
            BY <1>1, <1>2, <2>6, <4>4, <5>4
          <6> QED
            BY <1>1, <2>3, <5>2, <6>1 DEF DirDone
        <5> QED
          BY <5>3, <5>4
      <4> QED
        BY <2>5, <4>2, <4>3, <4>4 DEF DirOps
    <3> QED
      BY <3>1, <3>2, <3>3 DEF Outstanding
  <2>11. UNCHANGED sourceVars /\ dest' \in Entries /\ temp' \in Entries /\ torn' \in BOOLEAN /\ littered' \in BOOLEAN
    BY <1>1 DEF sourceVars, IInv, Typed
  <2> QED
    BY <1>1, <2>1, <2>2, <2>7, <2>8, <2>9, <2>10, <2>11, EndingKeeps
<1> QED
  BY <1>3, <1>4

\* What a crash leaves at the temporary's path is a leftover from then on.
LEMMA CrashKeeps == IInv /\ Crash => IInv'
<1> SUFFICES ASSUME IInv, Crash
             PROVE  IInv'
  OBVIOUS
<1>1. /\ at' = "down" /\ todo' = <<>> /\ due' = "none" /\ retry' = "none"
      /\ error' = "ok" /\ original' = "none"
      /\ held' = Nothing /\ linked' = FALSE /\ copied' = 0
      /\ littered' = (littered \/ temp # Nothing)
      /\ UNCHANGED <<source, sourceDir, changes, dir, dest, temp, wanted, failed, steady, whole,
                     reads, torn, lapsed>>
  BY DEF Crash, sourceVars, targetVars
<1>2. todo' \in Seq(NameOps \cup DirOps)
  BY <1>1
<1>3. Typed'
  BY <1>1, <1>2, Shapes DEF IInv, Typed, Results
<1>4. Placed' /\ Lent' /\ Temporary' /\ Finished'
  BY <1>1 DEF IInv, Placed, Lent, Temporary, Finished, Calling, CopySteps
<1>5. Widened' /\ Timed' /\ Fits' /\ Outstanding'
  BY <1>1 DEF IInv, Widened, Timed, Fits, Outstanding
<1> QED
  BY <1>3, <1>4, <1>5 DEF IInv

LEMMA SinkKeeps == IInv /\ Sink => IInv'
BY BeginKeeps, RelaxKeeps, RetryFailsKeeps, RestoreKeeps, RemoveStaleKeeps, OpenSourceKeeps,
   CopyBlockKeeps, StampSourceKeeps, RenameOverKeeps, RemoveTemporaryKeeps, ClearForLinkKeeps,
   MakeLinkKeeps, RemoveEntryKeeps, WorkOnDirKeeps DEF Sink

LEMMA Inductive == IInv /\ [Next]_vars => IInv'
<1> SUFFICES ASSUME IInv, UNCHANGED vars
             PROVE  IInv'
  BY EnvironmentKeeps, StartPassKeeps, SinkKeeps, CrashKeeps DEF Next
<1>1. UNCHANGED <<source, sourceDir, changes, held, linked, copied, dir, dest, temp, todo, wanted,
                  failed, due, retry, steady, whole, error, original, at, reads, torn, littered, lapsed>>
  BY DEF vars, sourceVars, handle, targetVars, planVars, attemptVars, history
<1>2. Ahead' = Ahead
  BY <1>1 DEF Ahead
<1>3. Typed' /\ Lent' /\ Temporary' /\ Finished'
  BY <1>1 DEF IInv, Typed, Lent, Temporary, Finished
<1>4. Placed'
  BY <1>1 DEF IInv, Placed, OnDir, Doing
<1>5. Widened' /\ Timed' /\ Fits' /\ Outstanding'
  BY <1>1, <1>2 DEF IInv, Widened, Timed, Fits, Outstanding, NameDone, DirDone
<1> QED
  BY <1>3, <1>4, <1>5 DEF IInv

LEMMA Initial == Init => IInv
<1> SUFFICES ASSUME Init
             PROVE  IInv
  OBVIOUS
<1>1. /\ temp = Nothing /\ held = Nothing /\ linked = FALSE /\ copied = 0
      /\ at = "down" /\ todo = <<>> /\ wanted = "none" /\ error = "ok" /\ original = "none"
      /\ failed = FALSE /\ due = "none" /\ retry = "none" /\ steady = FALSE /\ whole = FALSE
      /\ torn = FALSE /\ littered = FALSE /\ lapsed = FALSE /\ changes = 0
  BY DEF Init
<1>2. sourceDir \in {"open", "readonly"} /\ dir \in {"none", "open", "readonly"}
  BY DEF Init
<1>3. source \in Entries /\ source.time = 0
  <2>1. source \in {Nothing, Link} \cup {File(data, 0) : data \in Contents}
    BY DEF Init
  <2>2. ASSUME NEW data \in Contents
        PROVE  File(data, 0) \in Entries /\ File(data, 0).time = 0
    BY ContentsAssumption, FileShapes DEF Entries
  <2> QED
    BY <2>1, <2>2, Shapes
<1>4. dest \in Entries /\ dest.time <= 0 /\ (IsFile(dest) => dest.time # 0)
  <2>1. dest \in {Nothing, Link} \cup {File(data, Unstamped) : data \in Contents}
    BY DEF Init
  <2>2. ASSUME NEW data \in Contents
        PROVE  File(data, Unstamped) \in Entries /\ File(data, Unstamped).time = -1
    <3>1. Unstamped \in Int /\ Unstamped = -1
      BY DEF Unstamped
    <3> QED
      BY <3>1, ContentsAssumption, FileShapes DEF Entries
  <2> QED
    BY <2>1, <2>2, Shapes
<1>5. todo \in Seq(NameOps \cup DirOps)
  BY <1>1
<1>6. Typed
  BY <1>1, <1>2, <1>3, <1>4, <1>5, Shapes DEF Typed, Modes, Results
<1>7. Placed /\ Lent /\ Temporary /\ Finished
  BY <1>1 DEF Placed, Lent, Temporary, Finished, Calling, CopySteps
<1>8. Widened /\ Fits /\ Outstanding
  BY <1>1 DEF Widened, Fits, Outstanding
<1>9. Timed
  BY <1>1, <1>2, <1>3, <1>4, Shapes DEF Timed
<1> QED
  BY <1>6, <1>7, <1>8, <1>9 DEF IInv

LEMMA Invariance == Spec => []IInv
BY Initial, Inductive, PTL DEF Spec

\* Every variable of the local sink keeps its type, the sink stands in an action as long as
\* the plan has one, and copy_into_fresh fills a temporary that it found empty, whatever an
\* earlier copy has left there.
THEOREM LocalSinkTypes == Spec => []TypeOK
<1>1. IInv => TypeOK
  <2> SUFFICES ASSUME IInv
               PROVE  TypeOK
    OBVIOUS
  <2>1. \A entry \in Entries :
          entry \in [kind : {"none", "link", "file"}, data : Seq(Nat), time : Int]
    <3>1. /\ Nothing \in [kind : {"none", "link", "file"}, data : Seq(Nat), time : Int]
          /\ Link \in [kind : {"none", "link", "file"}, data : Seq(Nat), time : Int]
      BY DEF Nothing, Link, Entry
    <3> QED
      BY <3>1 DEF Entries, Files
  <2>2. \A entry \in {source, held, dest, temp} :
          entry \in [kind : {"none", "link", "file"}, data : Seq(Nat), time : Int]
    BY <2>1 DEF IInv, Typed
  <2>3. NameOps \cup DirOps = {"remove", "rmdir", "mkdir", "copy", "symlink", "chmod"}
    BY DEF NameOps, DirOps
  <2>4. todo \in Seq({"remove", "rmdir", "mkdir", "copy", "symlink", "chmod"})
    BY <2>3 DEF IInv, Typed
  <2>5. {failed, steady, whole, torn, littered, lapsed} \subseteq BOOLEAN
    BY DEF IInv, Typed
  <2>6. /\ (todo = <<>>) = (at \in {"down", "idle"})
        /\ at = "copying" => Len(temp.data) = copied
    BY DEF IInv, Placed, Temporary
  <2>7. /\ sourceDir \in {"none", "open", "readonly"}
        /\ dir \in {"none", "open", "readonly", "widened"}
        /\ linked \in BOOLEAN /\ copied \in Nat
        /\ at \in {"down", "idle", "acting", "working", "preparing", "opening", "copying", "renaming",
                   "cleaning", "clearing", "linking", "removing", "failed", "restoring"}
        /\ error \in {"ok", "denied", "io"} /\ original \in {"none", "readonly"}
        /\ {due, retry} \subseteq {"none", "name", "tree"}
    BY DEF IInv, Typed, Modes, Calling, CopySteps, Results
  <2> QED
    BY <2>2, <2>4, <2>5, <2>6, <2>7 DEF TypeOK
<1> QED
  BY <1>1, Invariance, PTL

\* Whenever no pass runs, a temporary is there only if a crash or a failed removal has left
\* it, and a mode is still widened only if it could not be put back (or the
\* action that was to set it has failed and is kept for the next batch): relax_for and restore_mode leave the directory as they found
\* it, also after an operation that failed twice.
THEOREM LocalSinkLeavesAsFound == Spec => []LeftAsFound
<1>1. IInv => LeftAsFound
  <2> SUFFICES ASSUME IInv, at = "idle"
               PROVE  /\ temp # Nothing => littered
                      /\ dir = "widened" => lapsed \/ retry = "tree"
    BY DEF LeftAsFound
  <2>1. temp # Nothing => littered
    BY DEF IInv, Temporary
  <2>2. Ahead = {} /\ original = "none"
    BY NothingAhead DEF IInv, Placed, Lent, Calling, CopySteps
  <2> QED
    BY <2>1, <2>2 DEF IInv, Widened
<1> QED
  BY <1>1, Invariance, PTL

\* A pass over the tree, of a source that kept still, that reports no failure has made the
\* target what the source is, mode of the directory included: no action of the plan is
\* passed over, and no copy that was cut short is taken for done.
THEOREM LocalSinkAcknowledges == Spec => []Acknowledged
<1>1. IInv => Acknowledged
  <2> SUFFICES ASSUME IInv, at = "idle", whole, steady, ~failed, ~torn
               PROVE  dest = source /\ (dir = sourceDir \/ lapsed)
    BY DEF Acknowledged
  <2>1. Ahead = {} /\ original = "none"
    BY NothingAhead DEF IInv, Placed, Lent, Calling, CopySteps
  <2> QED
    BY <2>1 DEF IInv, Outstanding, NameDone, DirDone
<1> QED
  BY <1>1, Invariance, PTL

-----------------------------------------------------------------------------
(* Steps of the sink are steps of atomic replacement *)

LEMMA OffersOnly == reads \subseteq reads' /\ UNCHANGED dest => Shown!Next
BY DEF Shown!Next, Shown!Offer

LEMMA SinkMaps == IInv /\ Sink => Shown!Next
<1> SUFFICES ASSUME IInv, Sink
             PROVE  Shown!Next
  OBVIOUS
<1>1. CASE \/ Begin \/ Relax \/ RetryFails \/ Restore \/ RemoveStale \/ OpenSource
           \/ CopyBlock \/ StampSource \/ RemoveTemporary \/ WorkOnDir
  <2>1. reads \subseteq reads'
    BY <1>1 DEF Begin, Relax, RetryFails, Restore, RemoveStale, OpenSource, CopyBlock,
                StampSource, RemoveTemporary, WorkOnDir, history
  <2>2. UNCHANGED dest
    BY <1>1 DEF Begin, Relax, RetryFails, Restore, RemoveStale, OpenSource, CopyBlock,
                StampSource, RemoveTemporary, WorkOnDir, Calls, targetVars
  <2> QED
    BY <2>1, <2>2, OffersOnly
<1>2. CASE RenameOver
  <2>1. reads' = reads /\ at = "renaming" /\ dest' \in {dest, temp}
    BY <1>2 DEF RenameOver, Calls, targetVars
  <2>2. temp \in reads /\ temp # Link
    BY <2>1, Shapes DEF IInv, Temporary, Finished
  <2>3. CASE dest' = dest
    BY <2>1, <2>3, OffersOnly
  <2>4. CASE dest' = temp
    BY <2>1, <2>2, <2>4 DEF Shown!Next, Shown!Publish
  <2> QED
    BY <2>1, <2>3, <2>4
<1>3. CASE ClearForLink \/ MakeLink \/ RemoveEntry
  <2>1. reads' = reads /\ dest' \in {dest, Nothing, Link}
    BY <1>3 DEF ClearForLink, MakeLink, RemoveEntry, Calls, targetVars, history
  <2>2. Doing("remove") \/ Doing("symlink")
    BY <1>3 DEF ClearForLink, MakeLink, RemoveEntry, IInv, Placed
  <2>3. CASE dest' = dest
    BY <2>1, <2>3, OffersOnly
  <2>4. CASE dest' \in {Nothing, Link}
    BY <2>1, <2>2, <2>4 DEF Shown!Next, Shown!Withdraw
  <2> QED
    BY <2>1, <2>3, <2>4
<1> QED
  BY <1>1, <1>2, <1>3 DEF Sink

LEMMA StepMaps == IInv /\ [Next]_vars => [Shown!Next]_Shown!vars
<1> SUFFICES ASSUME IInv, [Next]_vars
             PROVE  Shown!Next \/ UNCHANGED Shown!vars
  OBVIOUS
<1>1. CASE Environment \/ BatchComes \/ OtherBatchComes \/ Crash
  <2>1. UNCHANGED <<reads, dest>>
    BY <1>1 DEF Environment, Rewrite, Replace, ChangeDir, Changed, BatchComes,
                OtherBatchComes, StartPass, Crash, targetVars, history
  <2> QED
    BY <2>1, OffersOnly
<1>2. CASE UNCHANGED vars
  <2>1. UNCHANGED <<reads, dest>>
    BY <1>2 DEF vars, targetVars, history
  <2> QED
    BY <2>1, OffersOnly
<1> QED
  BY <1>1, <1>2, SinkMaps DEF Next

\* Whoever opens the destination of a local copy finds what was there or a whole copy,
\* whenever the process is stopped and whichever calls fail: each step of the sink is one
\* of atomic replacement, or none.
THEOREM LocalSinkReplacesAtomically == Spec => ReplacesAtomically
<1>1. Init => Shown!Init
  BY DEF Init, Shown!Init
<1> QED
  BY <1>1, Invariance, StepMaps, PTL DEF Spec, ReplacesAtomically, Shown!Spec

\* So what a reader opens at the destination is never a part of a copy: there is nothing (or
\* a link), or a file that was there before or that publish has read whole and stamped
\* before its rename.
THEOREM LocalSinkShowsWhole == Spec => []Shown!OldOrWhole
<1>1. Shown!Init => Shown!OldOrWhole
  BY DEF Shown!Init, Shown!OldOrWhole
<1>2. Shown!OldOrWhole /\ [Shown!Next]_Shown!vars => Shown!OldOrWhole'
  BY DEF Shown!OldOrWhole, Shown!Next, Shown!Offer, Shown!Publish, Shown!Withdraw, Shown!vars
<1> QED
  BY <1>1, <1>2, LocalSinkReplacesAtomically, PTL DEF ReplacesAtomically, Shown!Spec
=============================================================================
