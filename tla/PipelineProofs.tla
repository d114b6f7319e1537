--------------------------- MODULE PipelineProofs --------------------------
(***************************************************************************)
(* What the watcher and the queue promise, each for every environment, and *)
(* then the two together: for every set of names, every watched tree, all  *)
(* reports, every capacity of the channel and cap of the batches.          *)
(***************************************************************************)
EXTENDS Pipeline, FiniteSetTheorems, SequenceTheorems, TLAPS

-----------------------------------------------------------------------------
(* Paths *)

\* Every path is under itself, and "under" composes: a walk of a directory
\* visits whatever a walk of one of its subdirectories visits.
LEMMA UnderIsPreorder ==
  /\ \A p \in Path : IsUnder(p, p)
  /\ \A p, q, r \in Path : IsUnder(p, q) /\ IsUnder(q, r) => IsUnder(p, r)
BY DEF IsUnder, Path

\* What taking the first n components of a path yields.
PrefixOf(p, n) ==
  /\ SubSeq(p, 1, n) \in Path
  /\ Len(SubSeq(p, 1, n)) = n
  /\ \A i \in 1..n : SubSeq(p, 1, n)[i] = p[i]

LEMMA PrefixProperties ==
  ASSUME NEW p \in Path, NEW n \in 0..Len(p)
  PROVE  PrefixOf(p, n)
BY DEF PrefixOf, Path

\* A path lies under its parent, which is why RescanSignal::lost may fold the
\* parent in and still promise to cover the path.
LEMMA ParentContains ==
  ASSUME NEW p \in Path
  PROVE  Parent(p) \in Path /\ IsUnder(p, Parent(p))
<1>1. CASE p = <<>>
  BY <1>1 DEF Parent, IsUnder, Path
<1>2. CASE p # <<>>
  <2>1. Len(p) \in Nat /\ Len(p) >= 1
    BY <1>2 DEF Path
  <2>2. PrefixOf(p, Len(p) - 1)
    BY <2>1, PrefixProperties
  <2> QED
    BY <1>2, <2>1, <2>2 DEF Parent, IsUnder, Path, PrefixOf
<1> QED
  BY <1>1, <1>2

\* A set of positive naturals closed downwards is an initial interval, whose
\* length is its cardinality.
LEMMA InitialInterval ==
  ASSUME NEW k \in Nat,
         NEW S \in SUBSET (1..k),
         \A i \in S : \A j \in 1..i : j \in S
  PROVE  Cardinality(S) \in Nat /\ S = 1..Cardinality(S)
<1>1. \A m \in Nat : IsFiniteSet(1..m) /\ Cardinality(1..m) = m
  <2> TAKE m \in Nat
  <2>1. 1 \in Int /\ m \in Int
    OBVIOUS
  <2>2. /\ IsFiniteSet(1..m)
        /\ Cardinality(1..m) = IF 1 > m THEN 0 ELSE m - 1 + 1
    BY <2>1, FS_Interval, Zenon
  <2> QED
    BY <2>2
<1>2. IsFiniteSet(S)
  <2>1. IsFiniteSet(1..k)
    BY <1>1
  <2> QED
    BY <2>1, FS_Subset
<1>3. PICK n : n = Cardinality(S)
  OBVIOUS
<1>4. n \in Nat
  BY <1>2, <1>3, FS_CardinalityType
<1>5. \A i \in S : i <= n
  <2> TAKE i \in S
  <2>1. 1..i \in SUBSET S
    OBVIOUS
  <2>2. Cardinality(1..i) <= Cardinality(S)
    BY <1>2, <2>1, FS_Subset
  <2>3. i \in Nat
    OBVIOUS
  <2> QED
    BY <1>1, <1>3, <2>2, <2>3
<1>6. n = 0 \/ n \in S
  <2> SUFFICES ASSUME n # 0, n \notin S
               PROVE  FALSE
    OBVIOUS
  <2>1. n - 1 \in Nat
    BY <1>4
  <2>2. S \in SUBSET (1..(n - 1))
    <3> SUFFICES ASSUME NEW i \in S
                 PROVE  i \in 1..(n - 1)
      OBVIOUS
    <3>1. i <= n /\ i # n /\ i \in Nat /\ i >= 1
      BY <1>5
    <3> QED
      BY <3>1, <1>4
  <2>3. IsFiniteSet(1..(n - 1)) /\ Cardinality(1..(n - 1)) = n - 1
    BY <2>1, <1>1
  <2>4. Cardinality(S) <= Cardinality(1..(n - 1))
    BY <2>2, <2>3, FS_Subset
  <2> QED
    BY <2>3, <2>4, <1>3, <1>4
<1>7. S = 1..n
  <2>1. \A i \in S : i \in 1..n
    BY <1>5, <1>4
  <2>2. \A i \in 1..n : i \in S
    BY <1>6, <1>4
  <2> QED
    BY <2>1, <2>2
<1> QED
  BY <1>3, <1>4, <1>7

\* common_ancestor returns a directory both paths lie under, and the deepest
\* one: whatever contains both arguments contains the result.  The first half
\* is what keeps a narrowed re-walk sound, the second what keeps it narrow.
THEOREM CommonAncestorIsGreatest ==
  ASSUME NEW a \in Path, NEW b \in Path
  PROVE  /\ CommonAncestor(a, b) \in Path
         /\ IsUnder(a, CommonAncestor(a, b))
         /\ IsUnder(b, CommonAncestor(a, b))
         /\ \A d \in Path : IsUnder(a, d) /\ IsUnder(b, d)
                              => IsUnder(CommonAncestor(a, b), d)
<1> DEFINE S == SharedPositions(a, b)
           n == Cardinality(S)
<1>1. S \in SUBSET (1..Len(a)) /\ \A i \in S : \A j \in 1..i : j \in S
  BY DEF SharedPositions, Path
<1>2. n \in Nat /\ S = 1..n
  <2>1. Len(a) \in Nat
    BY DEF Path
  <2> HIDE DEF S
  <2> QED
    BY <1>1, <2>1, InitialInterval
<1>3. n <= Len(a) /\ n <= Len(b) /\ \A j \in 1..n : a[j] = b[j]
  <2>1. CASE n = 0
    BY <2>1 DEF Path
  <2>2. CASE n # 0
    <3>1. n \in S
      BY <1>2, <2>2
    <3> HIDE DEF n
    <3> QED
      BY <3>1 DEF SharedPositions, Path
  <2> QED
    BY <2>1, <2>2
<1>4. \A d \in Path : IsUnder(a, d) /\ IsUnder(b, d) => Len(d) <= n
  <2> SUFFICES ASSUME NEW d \in Path, IsUnder(a, d), IsUnder(b, d), Len(d) # 0
               PROVE  Len(d) \in S
    BY <1>2 DEF Path
  <2> QED
    BY DEF SharedPositions, IsUnder, Path
<1>5. CommonAncestor(a, b) = SubSeq(a, 1, n)
  BY DEF CommonAncestor
<1> HIDE DEF n, S
<1>6. PrefixOf(a, n)
  <2>1. Len(a) \in Nat
    BY DEF Path
  <2> QED
    BY <1>2, <1>3, <2>1, PrefixProperties
<1> DEFINE c == CommonAncestor(a, b)
<1>7. c \in Path /\ Len(c) = n /\ \A i \in 1..n : c[i] = a[i]
  BY <1>5, <1>6 DEF PrefixOf
<1> HIDE DEF c
<1>8. IsUnder(a, c) /\ IsUnder(b, c)
  BY <1>3, <1>7 DEF IsUnder
<1>9. \A d \in Path : IsUnder(a, d) /\ IsUnder(b, d) => IsUnder(c, d)
  <2> SUFFICES ASSUME NEW d \in Path, IsUnder(a, d), IsUnder(b, d)
               PROVE  IsUnder(c, d)
    OBVIOUS
  <2>1. Len(d) \in Nat /\ Len(d) <= n
    BY <1>4 DEF Path
  <2>2. \A i \in 1..Len(d) : i \in 1..n /\ a[i] = d[i]
    BY <1>2, <2>1 DEF IsUnder
  <2> QED
    BY <1>7, <2>1, <2>2 DEF IsUnder
<1> QED
  BY <1>7, <1>8, <1>9 DEF c

-----------------------------------------------------------------------------
(* The watcher *)

\* The strengthening: a refused event is still at the head of the outbox when
\* it is folded in, and take() holds the mutex with the scope already replaced.
StepInv ==
  /\ backend = "refused" => outbox # <<>>
  /\ stream = "clearing" => scope.extent = "Clean"

TakenInTree == stream = "clearing" => IsUnder(taken, Root)

WatcherInv == WatcherTypeOK /\ StepInv /\ LossFlagged /\ NothingLost /\ TakenInTree

LEMMA ScopesAreScopes ==
  /\ Clean \in Scope /\ Everything \in Scope
  /\ \A d \in Path : Subtree(d) \in Scope
BY RootAssumption DEF Clean, Everything, Subtree, Scope

\* widen() never uncovers a path and always covers the directory it is given.
LEMMA WidenedCovers ==
  ASSUME NEW s \in Scope, NEW d \in Path
  PROVE  /\ Widened(s, d) \in Scope
         /\ Widened(s, d).extent # "Clean"
         /\ \A p \in Path : Covers(s, p) \/ IsUnder(p, d) => Covers(Widened(s, d), p)
<1>1. CASE s.extent = "Clean"
  BY <1>1, ScopesAreScopes DEF Widened, Subtree, Covers
<1>2. CASE s.extent = "Subtree"
  <2> DEFINE c == CommonAncestor(s.dir, d)
  <2>1. s.dir \in Path
    BY DEF Scope
  <2>2. c \in Path /\ IsUnder(s.dir, c) /\ IsUnder(d, c)
    BY <2>1, CommonAncestorIsGreatest
  <2> HIDE DEF c
  <2>3. Widened(s, d) = Subtree(c)
    BY <1>2 DEF Widened, c
  <2>4. \A p \in Path : IsUnder(p, s.dir) \/ IsUnder(p, d) => IsUnder(p, c)
    BY <2>1, <2>2, UnderIsPreorder
  <2> QED
    BY <1>2, <2>2, <2>3, <2>4, ScopesAreScopes DEF Subtree, Covers
<1>3. CASE s.extent = "Everything"
  BY <1>3, ScopesAreScopes DEF Widened, Everything, Covers
<1> QED
  BY <1>1, <1>2, <1>3 DEF Scope

\* The clamped directory lies in the tree and still covers what the scope did.
LEMMA RescanRootCovers ==
  ASSUME NEW s \in Scope
  PROVE  /\ RescanRoot(s) \in Path
         /\ IsUnder(RescanRoot(s), Root)
         /\ \A p \in Watched : Covers(s, p) => IsUnder(p, RescanRoot(s))
BY RootAssumption, WatchedAssumption, UnderIsPreorder DEF RescanRoot, Covers, Scope

\* A sequence of watched paths, after its head is taken and after one is added.
LEMMA HeadAndTail ==
  ASSUME NEW s \in Seq(Watched), s # <<>>
  PROVE  /\ Head(s) \in Watched /\ Head(s) \in Path
         /\ Tail(s) \in Seq(Watched) /\ Len(Tail(s)) = Len(s) - 1
         /\ \A p : Within(p, s) <=> p = Head(s) \/ Within(p, Tail(s))
         /\ \A p : (\E i \in DOMAIN s : IsUnder(p, s[i])) =>
              IsUnder(p, Head(s)) \/ \E i \in DOMAIN Tail(s) : IsUnder(p, Tail(s)[i])
<1>1. /\ Len(s) \in Nat \ {0} /\ DOMAIN s = 1..Len(s) /\ Head(s) = s[1]
      /\ Tail(s) \in Seq(Watched) /\ Len(Tail(s)) = Len(s) - 1
      /\ DOMAIN Tail(s) = 1..(Len(s) - 1)
      /\ \A i \in 1..(Len(s) - 1) : Tail(s)[i] = s[i + 1]
  OBVIOUS
<1>2. Head(s) \in Watched
  BY <1>1
<1>3. \A i \in DOMAIN s : i = 1 \/ (i - 1 \in DOMAIN Tail(s) /\ s[i] = Tail(s)[i - 1])
  BY <1>1
<1>4. \A i \in DOMAIN Tail(s) : i + 1 \in DOMAIN s /\ Tail(s)[i] = s[i + 1]
  BY <1>1
<1>5. 1 \in DOMAIN s
  BY <1>1
<1> QED
  BY <1>1, <1>2, <1>3, <1>4, <1>5, WatchedAssumption DEF Within

LEMMA Appended ==
  ASSUME NEW s \in Seq(Watched), NEW q \in Watched
  PROVE  /\ Append(s, q) \in Seq(Watched) /\ Len(Append(s, q)) = Len(s) + 1
         /\ \A p : Within(p, s) \/ p = q => Within(p, Append(s, q))
<1>1. /\ Len(s) \in Nat /\ DOMAIN s = 1..Len(s)
      /\ Append(s, q) \in Seq(Watched) /\ Len(Append(s, q)) = Len(s) + 1
      /\ DOMAIN Append(s, q) = 1..(Len(s) + 1)
      /\ Append(s, q)[Len(s) + 1] = q
      /\ \A i \in 1..Len(s) : Append(s, q)[i] = s[i]
  OBVIOUS
<1>2. \A i \in DOMAIN s : i \in DOMAIN Append(s, q)
  BY <1>1
<1>3. Len(s) + 1 \in DOMAIN Append(s, q)
  BY <1>1
<1> QED
  BY <1>1, <1>2, <1>3 DEF Within

\* What a report adds to the tree's unheard changes, and where each of them is.
LEMMA ReportIsTracked ==
  ASSUME NEW r \in Reports, NEW changed \in Changed(r)
  PROVE  /\ changed \subseteq Watched
         /\ Translate(r) \in Seq(Watched) /\ r.paths \in Seq(Watched)
         /\ r.kind # "dropped" =>
              \A p \in changed :
                 \/ Within(p, Translate(r))
                 \/ r.kind = "folder" /\ \E i \in DOMAIN r.paths : IsUnder(p, r.paths[i])
<1>1. r.kind \in ReportKind /\ r.paths \in Seq(Watched)
  BY ReportsAssumption
<1>2. \A i \in DOMAIN r.paths : r.paths[i] \in Watched
  BY <1>1
<1>3. CASE r.kind = "dropped"
  BY <1>1, <1>3 DEF Changed, Translate
<1>4. CASE r.kind = "folder"
  <2>1. Translate(r) = r.paths
    BY <1>4 DEF Translate
  <2>2. PICK inside \in SUBSET UNION {Beneath(Watched, r.paths[i]) : i \in DOMAIN r.paths} :
           changed = {r.paths[i] : i \in DOMAIN r.paths} \cup inside
    BY <1>4 DEF Changed
  <2>3. \A p \in inside : p \in Watched /\ \E i \in DOMAIN r.paths : IsUnder(p, r.paths[i])
    BY <2>2 DEF Beneath
  <2>4. \A p \in changed : p \in Watched /\ (Within(p, r.paths) \/ p \in inside)
    BY <1>2, <2>2, <2>3 DEF Within
  <2> QED
    BY <1>1, <1>4, <2>1, <2>3, <2>4
<1>5. CASE r.kind = "access"
  BY <1>1, <1>5 DEF Changed, Translate
<1>6. CASE r.kind = "both"
  <2>1. Len(r.paths) = 2
    BY <1>6, ReportsAssumption
  <2>2. changed = {r.paths[i] : i \in DOMAIN r.paths}
    BY <1>6 DEF Changed
  <2>3. Translate(r) = SubSeq(r.paths, 1, 2)
    BY <1>6, <2>1 DEF Translate
  <2>4. SubSeq(r.paths, 1, 2) = r.paths
    BY <1>1, <2>1, SubSeqFull
  <2> QED
    BY <1>1, <1>2, <1>6, <2>2, <2>3, <2>4 DEF Within
<1>7. CASE r.kind = "change"
  <2>1. changed = {r.paths[i] : i \in DOMAIN r.paths} /\ Translate(r) = r.paths
    BY <1>7 DEF Changed, Translate
  <2> QED
    BY <1>1, <1>2, <1>7, <2>1 DEF Within
<1> QED
  BY <1>1, <1>3, <1>4, <1>5, <1>6, <1>7 DEF ReportKind

LEMMA TypesOfSets == Watched \subseteq Path /\ Root \in Path
BY WatchedAssumption, RootAssumption

LEMMA EmptySequence == <<>> \in Seq(Watched) /\ Len(<<>>) = 0 /\ \A p : ~Within(p, <<>>)
BY DEF Within

LEMMA WatcherInitially == WatcherInit => WatcherInv
<1> SUFFICES ASSUME WatcherInit
             PROVE  WatcherInv
  OBVIOUS
<1> USE DEF WatcherInit
<1>1. WatcherTypeOK
  <2>1. Len(channel) <= Capacity
    BY CapacityAssumption, EmptySequence
  <2>2. scope \in Scope /\ purged \in Path /\ taken \in Path
    BY ScopesAreScopes, RootAssumption
  <2> QED
    BY <2>1, <2>2, EmptySequence DEF WatcherTypeOK
<1>2. StepInv /\ LossFlagged /\ NothingLost /\ TakenInTree
  BY DEF StepInv, LossFlagged, NothingLost, TakenInTree, Clean
<1> QED
  BY <1>1, <1>2 DEF WatcherInv

\* The consumer will be told of the path.
Tracked(p) == EventComing(p) \/ WalkOwed(p)

\* Once a path is tracked it stays so, whichever thread moves, until the consumer
\* is told of it or is gone.
LEMMA DispatchTracks ==
  ASSUME WatcherTypeOK, StepInv, Dispatch, stream # "gone",
         NEW p \in Watched, Tracked(p)
  PROVE  Tracked(p)'
<1> USE DEF signalVars, backendVars, streamVars, Tracked, EventComing, WalkOwed
<1> p \in Path
  BY TypesOfSets
<1>1. CASE LostEverything
  BY <1>1 DEF LostEverything, Covers, Everything
<1>2. CASE RaiseFlag \/ TrySendFull
  BY <1>2 DEF RaiseFlag, TrySendFull, Sending
<1>3. CASE LostUnder
  <2> USE <1>3 DEF LostUnder, Widen
  <2>1. Head(folders) \in Path
    BY HeadAndTail DEF WatcherTypeOK
  <2>2. Covers(scope, p) \/ IsUnder(p, Head(folders)) => Covers(scope', p)
    BY <2>1, WidenedCovers DEF WatcherTypeOK
  <2>3. (\E i \in DOMAIN folders : IsUnder(p, folders[i])) =>
           IsUnder(p, Head(folders)) \/ \E i \in DOMAIN folders' : IsUnder(p, folders'[i])
    BY HeadAndTail DEF WatcherTypeOK
  <2> QED
    BY <2>2, <2>3
<1>4. CASE TrySendAccepted
  <2> USE <1>4 DEF TrySendAccepted, Sending
  <2>1. Head(outbox) \in Watched /\ (Within(p, outbox) => p = Head(outbox) \/ Within(p, outbox'))
    BY HeadAndTail DEF WatcherTypeOK
  <2>2. Within(p, channel) \/ p = Head(outbox) => Within(p, channel')
    BY <2>1, Appended DEF WatcherTypeOK
  <2> QED
    BY <2>1, <2>2
<1>5. CASE TrySendClosed
  BY <1>5 DEF TrySendClosed
<1>6. CASE LostRefused
  <2> USE <1>6 DEF LostRefused, Widen
  <2>1. /\ Head(outbox) \in Path
        /\ Within(p, outbox) => p = Head(outbox) \/ Within(p, outbox')
    BY HeadAndTail DEF WatcherTypeOK, StepInv
  <2>2. Parent(Head(outbox)) \in Path /\ IsUnder(Head(outbox), Parent(Head(outbox)))
    BY <2>1, ParentContains
  <2>3. Covers(scope, p) \/ p = Head(outbox) => Covers(scope', p)
    BY <2>2, WidenedCovers DEF WatcherTypeOK
  <2> QED
    BY <2>1, <2>3
<1> QED
  BY <1>1, <1>2, <1>3, <1>4, <1>5, <1>6 DEF Dispatch

LEMMA ConsumerTracks ==
  ASSUME WatcherTypeOK, Call \/ Answer \/ GiveUp \/ Drop, stream' # "gone",
         NEW p \in Watched, Tracked(p)
  PROVE  \/ Tracked(p)'
         \/ Receive /\ p = Head(channel)
         \/ LowerFlag /\ IsUnder(p, taken)
<1> USE DEF signalVars, backendVars, streamVars, Tracked, EventComing, WalkOwed
<1> p \in Path
  BY TypesOfSets
<1>1. CASE Call \/ GiveUp
  BY <1>1 DEF Call, GiveUp
<1>2. CASE Receive
  <2>1. Within(p, channel) => p = Head(channel) \/ Within(p, channel')
    BY <1>2, HeadAndTail DEF WatcherTypeOK, Receive
  <2> QED
    BY <1>2, <2>1 DEF Receive
<1>3. CASE Purge
  <2>1. Within(p, channel) => p = Head(channel) \/ Within(p, channel')
    BY <1>3, HeadAndTail DEF WatcherTypeOK, Purge
  <2> QED
    BY <1>3, <2>1 DEF Purge
<1>4. CASE LostPurged
  <2> USE <1>4 DEF LostPurged, Widen
  <2>1. Parent(purged) \in Path /\ IsUnder(purged, Parent(purged))
    BY ParentContains DEF WatcherTypeOK
  <2>2. Covers(scope, p) \/ p = purged => Covers(scope', p)
    BY <2>1, WidenedCovers DEF WatcherTypeOK
  <2> QED
    BY <2>2
<1>5. CASE TakeScope
  <2>1. Covers(scope, p) => IsUnder(p, taken')
    BY <1>5, RescanRootCovers DEF WatcherTypeOK, TakeScope
  <2> QED
    BY <1>5, <2>1 DEF TakeScope
<1>6. CASE LowerFlag
  BY <1>6 DEF LowerFlag
<1>7. CASE Drop
  BY <1>7 DEF Drop
<1> QED
  BY <1>1, <1>2, <1>3, <1>4, <1>5, <1>6, <1>7 DEF Answer

\* A change is tracked from the moment it is reported ...
LEMMA ReportTracks ==
  ASSUME WatcherTypeOK, NEW r \in Reports, Report(r), NEW p \in Watched,
         p \notin unheard \/ Tracked(p)
  PROVE  p \in unheard' \/ Tracked(p) => Tracked(p)'
<1> USE DEF Report, signalVars, streamVars, Tracked, EventComing, WalkOwed
<1>1. PICK changed \in Changed(r) : unheard' = unheard \cup changed
  OBVIOUS
<1>2. CASE p \in changed
  BY <1>2, ReportIsTracked
<1>3. CASE Tracked(p)
  BY <1>3, EmptySequence
<1> QED
  BY <1>1, <1>2, <1>3

\* ... which makes NothingLost an invariant.
LEMMA NothingLostKept ==
  ASSUME WatcherTypeOK, StepInv, NothingLost, WatcherNext
  PROVE  NothingLost'
<1> SUFFICES ASSUME stream' # "gone", NEW p \in unheard'
             PROVE  Tracked(p)'
  BY DEF NothingLost, Tracked
<1>1. ASSUME NEW r \in Reports, Report(r)
      PROVE  Tracked(p)'
  <2>1. PICK changed \in Changed(r) : unheard' = unheard \cup changed
    BY <1>1 DEF Report
  <2>2. p \in Watched
    BY <2>1, ReportIsTracked DEF WatcherTypeOK
  <2>3. p \notin unheard \/ Tracked(p)
    BY <1>1 DEF Report, streamVars, NothingLost, Tracked
  <2> QED
    BY <1>1, <2>2, <2>3, ReportTracks
<1>2. CASE Dispatch
  <2>1. unheard' = unheard /\ stream' = stream
    BY <1>2 DEF Dispatch, LostEverything, RaiseFlag, LostUnder, TrySendAccepted, TrySendFull,
                TrySendClosed, LostRefused, streamVars
  <2>2. p \in Watched /\ Tracked(p)
    BY <2>1 DEF WatcherTypeOK, NothingLost, Tracked
  <2> QED
    BY <1>2, <2>1, <2>2, DispatchTracks
<1>3. CASE Call \/ Answer \/ GiveUp \/ Drop
  <2>1. /\ unheard' \subseteq unheard /\ stream # "gone"
        /\ Receive => unheard' = unheard \ {Head(channel)}
        /\ LowerFlag => unheard' = unheard \ Beneath(Watched, taken)
    BY <1>3 DEF Call, Answer, GiveUp, Drop, Receive, Purge, LostPurged, TakeScope, LowerFlag
  <2>2. p \in Watched /\ Tracked(p)
    BY <2>1 DEF WatcherTypeOK, NothingLost, Tracked
  <2>3. ~(Receive /\ p = Head(channel)) /\ ~(LowerFlag /\ IsUnder(p, taken))
    BY <2>1, <2>2 DEF Beneath
  <2> QED
    BY <1>3, <2>2, <2>3, ConsumerTracks
<1> QED
  BY <1>1, <1>2, <1>3 DEF WatcherNext

\* The rest of the invariant, under the backend's thread and the consumer's task.
WatcherRest == WatcherTypeOK /\ StepInv /\ LossFlagged /\ TakenInTree

LEMMA BackendKeeps ==
  ASSUME WatcherInv, Dispatch \/ \E r \in Reports : Report(r)
  PROVE  WatcherRest'
<1> USE DEF signalVars, backendVars, streamVars, WatcherRest
<1>1. ASSUME NEW r \in Reports, Report(r)
      PROVE  WatcherRest'
  <2>1. PICK changed \in Changed(r) : unheard' = unheard \cup changed
    BY <1>1 DEF Report
  <2>2. WatcherTypeOK'
    BY <1>1, <2>1, ReportIsTracked, EmptySequence DEF WatcherInv, WatcherTypeOK, Report
  <2>3. StepInv' /\ LossFlagged' /\ TakenInTree'
    BY <1>1 DEF WatcherInv, StepInv, LossFlagged, TakenInTree, Report
  <2> QED
    BY <2>2, <2>3
<1>2. CASE LostEverything
  BY <1>2, ScopesAreScopes
     DEF LostEverything, WatcherInv, WatcherTypeOK, StepInv, LossFlagged, TakenInTree, MutexFree
<1>3. CASE RaiseFlag
  BY <1>3 DEF RaiseFlag, WatcherInv, WatcherTypeOK, StepInv, LossFlagged, TakenInTree
<1>4. CASE LostUnder
  <2>1. Head(folders) \in Path /\ Tail(folders) \in Seq(Watched)
    BY <1>4, HeadAndTail DEF WatcherInv, WatcherTypeOK, LostUnder
  <2> QED
    BY <1>4, <2>1, WidenedCovers DEF LostUnder, Widen, WatcherInv, WatcherTypeOK, StepInv,
       LossFlagged, TakenInTree, MutexFree
<1>5. CASE TrySendAccepted
  <2>1. Head(outbox) \in Watched /\ Tail(outbox) \in Seq(Watched)
    BY <1>5, HeadAndTail DEF WatcherInv, WatcherTypeOK, TrySendAccepted, Sending
  <2> QED
    BY <1>5, <2>1, Appended, CapacityAssumption DEF TrySendAccepted, Sending, WatcherInv,
       WatcherTypeOK, StepInv, LossFlagged, TakenInTree
<1>6. CASE TrySendFull
  BY <1>6 DEF TrySendFull, Sending, WatcherInv, WatcherTypeOK, StepInv, LossFlagged, TakenInTree
<1>7. CASE TrySendClosed
  BY <1>7, EmptySequence
     DEF TrySendClosed, Sending, WatcherInv, WatcherTypeOK, StepInv, LossFlagged, TakenInTree
<1>8. CASE LostRefused
  <2>1. Head(outbox) \in Path /\ Tail(outbox) \in Seq(Watched)
    BY <1>8, HeadAndTail DEF WatcherInv, WatcherTypeOK, StepInv, LostRefused
  <2>2. Parent(Head(outbox)) \in Path
    BY <2>1, ParentContains
  <2> QED
    BY <1>8, <2>1, <2>2, WidenedCovers DEF LostRefused, Widen, WatcherInv, WatcherTypeOK, StepInv,
       LossFlagged, TakenInTree, MutexFree
<1> QED
  BY <1>1, <1>2, <1>3, <1>4, <1>5, <1>6, <1>7, <1>8 DEF Dispatch

LEMMA ConsumerKeeps ==
  ASSUME WatcherInv, Call \/ Answer \/ GiveUp \/ Drop
  PROVE  WatcherRest'
<1> USE DEF signalVars, backendVars, streamVars, WatcherRest
<1>1. CASE Call \/ GiveUp
  BY <1>1 DEF Call, GiveUp, WatcherInv, WatcherTypeOK, StepInv, LossFlagged, TakenInTree
<1>2. CASE Receive \/ Purge
  <2>1. channel \in Seq(Watched) /\ channel # <<>> /\ channel' = Tail(channel)
    BY <1>2 DEF Receive, Purge, WatcherInv, WatcherTypeOK
  <2>2. /\ Head(channel) \in Path /\ channel' \in Seq(Watched)
        /\ Len(channel') = Len(channel) - 1
    BY <2>1, HeadAndTail
  <2>3. Len(channel') <= Capacity
    BY <2>1, <2>2, CapacityAssumption DEF WatcherInv, WatcherTypeOK
  <2> QED
    BY <1>2, <2>2, <2>3 DEF Receive, Purge, WatcherInv, WatcherTypeOK, StepInv, LossFlagged,
       TakenInTree
<1>3. CASE LostPurged
  <2>1. Parent(purged) \in Path
    BY ParentContains DEF WatcherInv, WatcherTypeOK
  <2> QED
    BY <1>3, <2>1, WidenedCovers, RootAssumption DEF LostPurged, Widen, WatcherInv, WatcherTypeOK,
       StepInv, LossFlagged, TakenInTree
<1>4. CASE TakeScope
  BY <1>4, RescanRootCovers, ScopesAreScopes DEF TakeScope, WatcherInv, WatcherTypeOK, StepInv,
     LossFlagged, TakenInTree, Clean
<1>5. CASE LowerFlag
  BY <1>5, RootAssumption DEF LowerFlag, WatcherInv, WatcherTypeOK, StepInv, LossFlagged,
     TakenInTree
<1>6. CASE Drop
  BY <1>6, EmptySequence, CapacityAssumption DEF Drop, WatcherInv, WatcherTypeOK, StepInv,
     LossFlagged, TakenInTree
<1> QED
  BY <1>1, <1>2, <1>3, <1>4, <1>5, <1>6 DEF Answer

LEMMA WatcherInductive == WatcherInv /\ [WatcherNext]_watcherVars => WatcherInv'
<1> SUFFICES ASSUME WatcherInv, [WatcherNext]_watcherVars
             PROVE  WatcherInv'
  OBVIOUS
<1>1. CASE UNCHANGED watcherVars
  BY <1>1 DEF watcherVars, WatcherInv, WatcherTypeOK, StepInv, LossFlagged, NothingLost,
              TakenInTree, EventComing, WalkOwed
<1>2. CASE WatcherNext
  <2>1. WatcherRest'
    BY <1>2, BackendKeeps, ConsumerKeeps DEF WatcherNext
  <2>2. NothingLost'
    BY <1>2, NothingLostKept DEF WatcherInv
  <2> QED
    BY <2>1, <2>2 DEF WatcherInv, WatcherRest
<1> QED
  BY <1>1, <1>2

\* The watcher's state is always of the declared shape.
THEOREM WatcherTypes == WatcherSpec => []WatcherTypeOK
<1>1. WatcherInv => WatcherTypeOK
  BY DEF WatcherInv
<1> QED
  BY <1>1, WatcherInitially, WatcherInductive, PTL DEF WatcherSpec

\* Every change is announced by an event on its way or lies under a directory
\* that a re-walk is going to visit, whatever the two threads' interleaving.
THEOREM WatcherLosesNothing == WatcherSpec => []NothingLost
<1>1. WatcherInv => NothingLost
  BY DEF WatcherInv
<1> QED
  BY <1>1, WatcherInitially, WatcherInductive, PTL DEF WatcherSpec

\* A recorded loss is never behind a lowered flag.
THEOREM WatcherFlagsLosses == WatcherSpec => []LossFlagged
<1>1. WatcherInv => LossFlagged
  BY DEF WatcherInv
<1> QED
  BY <1>1, WatcherInitially, WatcherInductive, PTL DEF WatcherSpec

\* A part of the invariant that the queue relies on: the directory a re-walk is
\* given lies in the tree, also when the scope was widened past its root.
LEMMA WatcherTakesInTree == WatcherSpec => []TakenInTree
<1>1. WatcherInv => TakenInTree
  BY DEF WatcherInv
<1> QED
  BY <1>1, WatcherInitially, WatcherInductive, PTL DEF WatcherSpec

-----------------------------------------------------------------------------
(* The queue, with rescans of any directories. *)

\* Both halves of what the window has seen of renames are waiting in it.
WindowInv ==
  /\ \A h \in halfMoves : h.path \in pending
  /\ \A move \in renames : {move.from, move.to} \subseteq pending

\* Between calls nothing waits, and a call stops at the cap.
SizeInv ==
  /\ IsFiniteSet(pending)
  /\ call \in {"returned", "idle", "drained"} => pending = {}
  /\ call = "window" => pending # {} /\ Cardinality(pending) <= MaxPending

QueueInv == QueueTypeOK /\ WindowInv /\ SizeInv /\ WindowDated /\ RenamesAreSuspect /\ BatchSized

LEMMA EventFields ==
  ASSUME NEW e \in Events
  PROVE  e.path \in Path /\ e.kind \in {"change", "from", "to"}
BY EventsAssumption

LEMMA QueueInitially == QueueInit => QueueInv
<1> SUFFICES ASSUME QueueInit
             PROVE  QueueInv
  OBVIOUS
<1>1. QueueTypeOK
  <2>1. 0..Delay # {} /\ Delay \in 0..Delay
    BY ConfigAssumption
  <2> QED
    BY <2>1 DEF QueueInit, QueueTypeOK
<1>2. SizeInv
  BY FS_EmptySet DEF QueueInit, SizeInv
<1>3. WindowInv /\ WindowDated /\ RenamesAreSuspect /\ BatchSized
  BY DEF QueueInit, WindowInv, WindowDated, RenamesAreSuspect, BatchSized, NoBatch
<1> QED
  BY <1>1, <1>2, <1>3 DEF QueueInv

\* What merge does to the window, whoever called it.
LEMMA MergeKeeps ==
  ASSUME QueueTypeOK, WindowInv, IsFiniteSet(pending), NEW e \in Events, Merge(e)
  PROVE  /\ pending' \subseteq Path /\ halfMoves' \subseteq Events
         /\ \A h, k \in halfMoves' : h.cookie = k.cookie => h = k
         /\ renames' \subseteq [from : Path, to : Path]
         /\ windowOpened' = TRUE /\ owed' \subseteq Path
         /\ WindowInv'
         /\ IsFiniteSet(pending') /\ pending' # {}
         /\ Cardinality(pending') <= Cardinality(pending) + 1
<1> USE DEF Merge
<1>1. pending' = pending \cup {e.path} /\ owed' = owed \cup {e.path} /\ e.path \in Path
  BY EventFields
<1>2. /\ IsFiniteSet(pending') /\ Cardinality(pending') <= Cardinality(pending) + 1
  <2>1. Cardinality(pending) \in Nat
    BY FS_CardinalityType
  <2>2. /\ IsFiniteSet(pending \cup {e.path})
        /\ \/ Cardinality(pending \cup {e.path}) = Cardinality(pending)
           \/ Cardinality(pending \cup {e.path}) = Cardinality(pending) + 1
    BY FS_AddElement
  <2> QED
    BY <1>1, <2>1, <2>2
<1> DEFINE same    == {h \in halfMoves : h.cookie = e.cookie}
           partner == {h \in same : h.kind # e.kind}
<1>3. \A h \in halfMoves : h.path \in pending /\ h.path \in Path
  BY EventFields DEF QueueTypeOK, WindowInv
<1>4. /\ halfMoves' \subseteq halfMoves \cup {e}
      /\ \A move \in renames' :
           move \in renames \/ \E h \in halfMoves : move = Rename(e, h)
  <2>1. CASE e.cookie = NoCookie \/ e.kind = "change"
    BY <2>1
  <2>2. CASE ~(e.cookie = NoCookie \/ e.kind = "change")
    <3>1. /\ renames' = renames \cup {Rename(e, h) : h \in partner}
          /\ halfMoves' = (halfMoves \ same) \cup (IF partner = {} THEN {e} ELSE {})
      BY <2>2
    <3> QED
      BY <3>1
  <2> QED
    BY <2>1, <2>2
<1>5. \A h \in halfMoves :
        /\ Rename(e, h) \in [from : Path, to : Path]
        /\ {Rename(e, h).from, Rename(e, h).to} = {e.path, h.path}
  BY <1>1, <1>3 DEF Rename
<1>6. halfMoves' \subseteq Events /\ \A h \in halfMoves' : h.path \in pending'
  BY <1>1, <1>3, <1>4 DEF QueueTypeOK
<1>7. \A move \in renames' : move \in [from : Path, to : Path]
  BY <1>4, <1>5 DEF QueueTypeOK
<1>8. \A move \in renames' : {move.from, move.to} \subseteq pending'
  <2> SUFFICES ASSUME NEW move \in renames'
               PROVE  {move.from, move.to} \subseteq pending'
    OBVIOUS
  <2>1. CASE move \in renames
    BY <1>1, <2>1 DEF WindowInv
  <2>2. CASE \E h \in halfMoves : move = Rename(e, h)
    <3>1. PICK h \in halfMoves : move = Rename(e, h)
      BY <2>2
    <3> QED
      BY <1>1, <1>3, <1>5, <3>1
  <2> QED
    BY <1>4, <2>1, <2>2
<1>9. \A h, k \in halfMoves' : h.cookie = k.cookie => h = k
  <2>1. CASE e.cookie = NoCookie \/ e.kind = "change"
    BY <2>1 DEF QueueTypeOK
  <2>2. CASE ~(e.cookie = NoCookie \/ e.kind = "change")
    <3>1. halfMoves' \subseteq (halfMoves \ same) \cup {e}
      BY <2>2
    <3>2. \A h \in halfMoves \ same : h.cookie # e.cookie
      OBVIOUS
    <3> QED
      BY <3>1, <3>2 DEF QueueTypeOK
  <2> QED
    BY <2>1, <2>2
<1> QED
  BY <1>1, <1>2, <1>6, <1>7, <1>8, <1>9 DEF QueueTypeOK, WindowInv

\* What flush and take_rescan do to it.
LEMMA EmptiedKeeps ==
  ASSUME Emptied
  PROVE  /\ pending' = {} /\ halfMoves' = {} /\ renames' = {} /\ windowOpened' = FALSE
         /\ WindowInv' /\ WindowDated' /\ IsFiniteSet(pending')
BY FS_EmptySet DEF Emptied, WindowInv, WindowDated

LEMMA FlushKeeps ==
  ASSUME QueueTypeOK, WindowInv, pending # {}, Flush
  PROVE  /\ RenamesAreSuspect'
         /\ batch'.kind = "changes" /\ batch'.paths = pending
         /\ batch' \in [kind : {"changes"}, paths : SUBSET Path, renames : SUBSET [from : Path, to : Path]]
         /\ owed' \subseteq Path
BY DEF QueueTypeOK, WindowInv, Flush, Changes, RenamesAreSuspect

LEMMA RescanKeeps ==
  ASSUME QueueTypeOK, NEW root \in Rescans, TakeRescan(root)
  PROVE  /\ RenamesAreSuspect' /\ BatchSized'
         /\ batch' \in {Rescan(r) : r \in Rescans}
         /\ owed' \subseteq Path
BY DEF QueueTypeOK, TakeRescan, Rescan, RenamesAreSuspect, BatchSized, Beneath

LEMMA MergingPreserves ==
  ASSUME QueueInv, NEW e \in Events, RecvFirst(e) \/ RecvNext(e) \/ DrainRecv(e)
  PROVE  QueueInv'
<1>1. Merge(e) /\ batch' = batch /\ closed' = closed
  BY DEF RecvFirst, RecvNext, DrainRecv
<1>2. QueueTypeOK /\ WindowInv /\ IsFiniteSet(pending)
  BY DEF QueueInv, SizeInv
<1>3. /\ pending' \subseteq Path /\ halfMoves' \subseteq Events
      /\ \A h, k \in halfMoves' : h.cookie = k.cookie => h = k
      /\ renames' \subseteq [from : Path, to : Path]
      /\ windowOpened' = TRUE /\ owed' \subseteq Path
      /\ WindowInv'
      /\ IsFiniteSet(pending') /\ pending' # {}
      /\ Cardinality(pending') <= Cardinality(pending) + 1
  BY <1>1, <1>2, MergeKeeps
<1>4. call' \in {"window", "ended"} /\ remaining' \in 0..Delay
  BY <1>2, ConfigAssumption DEF QueueTypeOK, RecvFirst, RecvNext, DrainRecv
<1>5. QueueTypeOK'
  BY <1>1, <1>2, <1>3, <1>4 DEF QueueTypeOK
<1>6. SizeInv'
  <2>1. CASE RecvFirst(e)
    <3>1. Cardinality(pending) = 0
      BY <2>1, FS_EmptySet DEF QueueInv, SizeInv, RecvFirst
    <3> QED
      BY <1>3, <2>1, <3>1, FS_CardinalityType, ConfigAssumption DEF SizeInv, RecvFirst
  <2>2. CASE RecvNext(e)
    BY <1>2, <1>3, <2>2, FS_CardinalityType, ConfigAssumption DEF SizeInv, RecvNext, RoomInWindow
  <2>3. CASE DrainRecv(e)
    BY <1>3, <2>3 DEF SizeInv, DrainRecv
  <2> QED
    BY <2>1, <2>2, <2>3
<1>7. WindowDated' /\ RenamesAreSuspect' /\ BatchSized'
  BY <1>1, <1>3, <1>4 DEF QueueInv, WindowDated, RenamesAreSuspect, BatchSized
<1> QED
  BY <1>3, <1>5, <1>6, <1>7 DEF QueueInv

LEMMA EmittingPreserves ==
  ASSUME QueueInv,
         WindowCloses \/ DrainFlush \/ \E root \in Rescans : RecvRescan(root) \/ DrainRescan(root)
  PROVE  QueueInv'
<1>1. CASE WindowCloses \/ DrainFlush
  <2>1. Flush /\ Emptied /\ pending # {} /\ UNCHANGED <<remaining, closed>>
    BY <1>1 DEF WindowCloses, DrainFlush, Flush, QueueInv, SizeInv
  <2>2. /\ pending' = {} /\ halfMoves' = {} /\ renames' = {} /\ windowOpened' = FALSE
        /\ WindowInv' /\ WindowDated' /\ IsFiniteSet(pending')
    BY <2>1, EmptiedKeeps
  <2>3. /\ RenamesAreSuspect'
        /\ batch'.kind = "changes" /\ batch'.paths = pending
        /\ batch' \in [kind : {"changes"}, paths : SUBSET Path, renames : SUBSET [from : Path, to : Path]]
        /\ owed' \subseteq Path
    BY <2>1, FlushKeeps DEF QueueInv
  <2>4. call' \in {"returned", "ended"} /\ (call' = "returned" => call = "window")
    BY <1>1 DEF WindowCloses, DrainFlush
  <2>5. QueueTypeOK'
    BY <2>1, <2>2, <2>3, <2>4 DEF QueueInv, QueueTypeOK
  <2>6. SizeInv' /\ BatchSized'
    BY <2>1, <2>2, <2>3, <2>4 DEF QueueInv, SizeInv, BatchSized
  <2> QED
    BY <2>2, <2>3, <2>5, <2>6 DEF QueueInv
<1>2. ASSUME NEW root \in Rescans, RecvRescan(root) \/ DrainRescan(root)
      PROVE  QueueInv'
  <2>1. TakeRescan(root) /\ Emptied /\ UNCHANGED <<remaining, closed>>
    BY <1>2 DEF RecvRescan, DrainRescan, TakeRescan
  <2>2. /\ pending' = {} /\ halfMoves' = {} /\ renames' = {} /\ windowOpened' = FALSE
        /\ WindowInv' /\ WindowDated' /\ IsFiniteSet(pending')
    BY <2>1, EmptiedKeeps
  <2>3. /\ RenamesAreSuspect' /\ BatchSized'
        /\ batch' \in {Rescan(r) : r \in Rescans}
        /\ owed' \subseteq Path
    BY <2>1, RescanKeeps DEF QueueInv
  <2>4. call' \in {"returned", "ended"}
    BY <1>2 DEF RecvRescan, DrainRescan
  <2>5. QueueTypeOK'
    BY <2>1, <2>2, <2>3, <2>4 DEF QueueInv, QueueTypeOK
  <2>6. SizeInv'
    BY <2>2, <2>4 DEF SizeInv
  <2> QED
    BY <2>2, <2>3, <2>5, <2>6 DEF QueueInv
<1> QED
  BY <1>1, <1>2

LEMMA QueueInductive == QueueInv /\ [QueueNext]_queueVars => QueueInv'
<1> SUFFICES ASSUME QueueInv, [QueueNext]_queueVars
             PROVE  QueueInv'
  OBVIOUS
<1>1. CASE NextBatch \/ StreamEnds \/ Cancel \/ DrainNone \/ Tick \/ WatcherStops
  <2>1. UNCHANGED window /\ owed' = owed /\ batch' \in {batch, NoBatch}
    BY <1>1 DEF NextBatch, StreamEnds, Cancel, DrainNone, Tick, WatcherStops, window
  <2>2. QueueTypeOK'
    <3>1. remaining' \in 0..Delay
      BY <1>1, ConfigAssumption
         DEF QueueInv, QueueTypeOK, NextBatch, StreamEnds, Cancel, DrainNone, Tick, WatcherStops
    <3>2. /\ call' \in {"returned", "idle", "window", "ended", "drained"}
          /\ closed' \in BOOLEAN
      BY <1>1 DEF QueueInv, QueueTypeOK, NextBatch, StreamEnds, Cancel, DrainNone, Tick, WatcherStops
    <3> QED
      BY <2>1, <3>1, <3>2 DEF QueueInv, QueueTypeOK, window
  <2>3. SizeInv'
    BY <1>1, <2>1
       DEF QueueInv, SizeInv, NextBatch, StreamEnds, Cancel, DrainNone, Tick, WatcherStops, window
  <2>4. WindowInv' /\ WindowDated' /\ RenamesAreSuspect'
    BY <2>1 DEF QueueInv, WindowInv, WindowDated, RenamesAreSuspect, window, NoBatch
  <2>5. BatchSized'
    BY <1>1, <2>1
       DEF QueueInv, BatchSized, NoBatch, NextBatch, StreamEnds, Cancel, DrainNone, Tick, WatcherStops
  <2> QED
    BY <2>2, <2>3, <2>4, <2>5 DEF QueueInv
<1>2. CASE \E e \in Events : RecvFirst(e) \/ RecvNext(e) \/ DrainRecv(e)
  BY <1>2, MergingPreserves
<1>3. CASE WindowCloses \/ DrainFlush \/ \E root \in Rescans : RecvRescan(root) \/ DrainRescan(root)
  BY <1>3, EmittingPreserves
<1>4. CASE UNCHANGED queueVars
  BY <1>4 DEF queueVars, QueueInv, QueueTypeOK, WindowInv, SizeInv, WindowDated, RenamesAreSuspect, BatchSized
<1> QED
  BY <1>1, <1>2, <1>3, <1>4 DEF QueueNext

\* Every variable keeps its type, and no two halves in a window share a cookie.
THEOREM QueueTypes == QueueSpec => []QueueTypeOK
<1>1. QueueInv => QueueTypeOK
  BY DEF QueueInv
<1> QED
  BY <1>1, QueueInitially, QueueInductive, PTL DEF QueueSpec

\* Both endpoints of every rename a batch carries are among its paths.
THEOREM QueueRenamesAreSuspect == QueueSpec => []RenamesAreSuspect
<1>1. QueueInv => RenamesAreSuspect
  BY DEF QueueInv
<1> QED
  BY <1>1, QueueInitially, QueueInductive, PTL DEF QueueSpec

\* No batch is empty, and next_batch holds every batch to the cap.
THEOREM QueueBatchesAreSized == QueueSpec => []BatchSized
<1>1. QueueInv => BatchSized
  BY DEF QueueInv
<1> QED
  BY <1>1, QueueInitially, QueueInductive, PTL DEF QueueSpec

-----------------------------------------------------------------------------
\* A path the queue took from the stream waits in it until a batch names it or a
\* re-walk covers it, whatever is cancelled and drained, but for a rescan of a
\* directory the path is not in.
THEOREM QueueForgetsOnlyByRescan == QueueSpec => ForgottenOnlyByRescan
<1> DEFINE Step == /\ \A p \in Forgotten' : p \in Forgotten \/ ForgottenByRescan(p)
                   /\ call' = "drained" => pending' = {}
<1>1. ASSUME QueueInv, QueueNext
      PROVE  Step
  <2>1. ASSUME NEW e \in Events, RecvFirst(e) \/ RecvNext(e) \/ DrainRecv(e)
        PROVE  Step
    <3>1. pending' = pending \cup {e.path} /\ owed' = owed \cup {e.path} /\ call' # "drained"
      BY <2>1 DEF RecvFirst, RecvNext, DrainRecv, Merge
    <3> QED
      BY <3>1 DEF Forgotten
  <2>2. ASSUME NEW root \in Rescans, RecvRescan(root) \/ DrainRescan(root)
        PROVE  Step
    <3>1. pending' = {} /\ owed' = owed \ Beneath(owed, root)
      BY <2>2 DEF RecvRescan, DrainRescan, TakeRescan, Emptied
    <3>2. \A p \in Forgotten' : ForgottenByRescan(p)
      BY <2>2, <3>1 DEF Forgotten, Beneath, ForgottenByRescan
    <3> QED
      BY <3>1, <3>2
  <2>3. CASE WindowCloses \/ DrainFlush
    <3>1. pending' = {} /\ owed' = owed \ pending
      BY <2>3 DEF WindowCloses, DrainFlush, Flush, Emptied
    <3> QED
      BY <3>1 DEF Forgotten
  <2>4. CASE NextBatch \/ StreamEnds \/ Cancel \/ DrainNone \/ Tick \/ WatcherStops
    <3>1. pending' = pending /\ owed' = owed
      BY <2>4 DEF NextBatch, StreamEnds, Cancel, DrainNone, Tick, WatcherStops, window
    <3>2. call' = "drained" => pending = {}
      BY <1>1, <2>4
         DEF QueueInv, SizeInv, NextBatch, StreamEnds, Cancel, DrainNone, Tick, WatcherStops
    <3> QED
      BY <3>1, <3>2 DEF Forgotten
  <2> QED
    BY <1>1, <2>1, <2>2, <2>3, <2>4 DEF QueueNext
<1>2. QueueInv /\ [QueueNext]_queueVars => [Step]_queueVars
  BY <1>1
<1> QED
  BY <1>2, QueueInitially, QueueInductive, PTL DEF QueueSpec, ForgottenOnlyByRescan

-----------------------------------------------------------------------------
(* The two joined *)

LEMMA StepsOfBoth ==
  /\ Next => [WatcherNext]_watcherVars
  /\ (stream = "clearing" => taken \in Rescans) /\ Next => [QueueNext]_queueVars
<1>1. ASSUME Next
      PROVE  [WatcherNext]_watcherVars
  BY <1>1 DEF Next, Reported, Dispatching, Stopped, Asked, Purging, Merged, Rescanned, Unanswered,
     Between, Ticked, Dropped, WatcherNext, Answer
<1>2. ASSUME stream = "clearing" => taken \in Rescans, Next
      PROVE  [QueueNext]_queueVars
  BY <1>2 DEF Next, Reported, Dispatching, Stopped, Asked, Purging, Merged, Rescanned, Unanswered,
     Between, Ticked, Dropped, QueueNext, LowerFlag
<1> QED
  BY <1>1, <1>2

\* What the joined program does to the watcher is what the watcher does on its own,
\* so that whatever holds of it there holds here.
THEOREM PipelineIsWatcher == Spec => WatcherSpec
<1>1. Init => WatcherInit
  BY DEF Init
<1>2. [Next]_vars => [WatcherNext]_watcherVars
  BY StepsOfBoth DEF vars
<1> QED
  BY <1>1, <1>2, PTL DEF Spec, WatcherSpec

\* The queue takes from the watcher what its own module says a stream may yield,
\* where that includes a rescan of any directory in the tree.
THEOREM PipelineIsQueue ==
  ASSUME \A d \in Path : IsUnder(d, Root) => d \in Rescans
  PROVE  Spec => QueueSpec
<1>1. Init => QueueInit
  BY DEF Init
<1>2. WatcherTypeOK /\ TakenInTree /\ [Next]_vars => [QueueNext]_queueVars
  BY StepsOfBoth DEF vars, WatcherTypeOK, TakenInTree
<1> QED
  BY <1>1, <1>2, PipelineIsWatcher, WatcherTypes, WatcherTakesInTree, PTL DEF Spec, QueueSpec

\* Only what may change is owed.
PipelineInv == WatcherInv /\ owed \subseteq Watched

\* What a step of the two does to what the queue holds and still owes.
LEMMA QueueSide ==
  ASSUME Next
  PROVE  \/ pending' = pending /\ owed' = owed
         \/ owed' = owed \ pending
         \/ /\ Merged
            /\ pending' = pending \cup {Head(channel)}
            /\ owed' = owed \cup {Head(channel)}
         \/ Rescanned /\ owed' = owed \ Beneath(owed, taken)
<1>1. CASE Reported \/ Dispatching \/ Asked \/ Purging \/ Dropped
  BY <1>1 DEF Reported, Dispatching, Asked, Purging, Dropped, queueVars
<1>2. CASE Merged
  BY <1>2 DEF Merged, RecvFirst, RecvNext, DrainRecv, Merge
<1>3. CASE Rescanned
  BY <1>3 DEF Rescanned, RecvRescan, DrainRescan, TakeRescan
<1>4. CASE WindowCloses \/ DrainFlush
  BY <1>4 DEF WindowCloses, DrainFlush, Flush
<1>5. CASE NextBatch \/ Cancel \/ StreamEnds \/ DrainNone \/ Tick \/ WatcherStops
  BY <1>5 DEF NextBatch, Cancel, StreamEnds, DrainNone, Tick, WatcherStops, window
<1> QED
  BY <1>1, <1>2, <1>3, <1>4, <1>5 DEF Next, Stopped, Unanswered, Between, Ticked

LEMMA PipelineInductive == PipelineInv /\ [Next]_vars => PipelineInv'
<1> SUFFICES ASSUME PipelineInv, [Next]_vars
             PROVE  PipelineInv'
  OBVIOUS
<1>1. WatcherInv'
  BY StepsOfBoth, WatcherInductive DEF PipelineInv, vars
<1>2. owed' \subseteq Watched
  <2>1. Merged => Head(channel) \in Watched
    BY HeadAndTail DEF Merged, Receive, PipelineInv, WatcherInv, WatcherTypeOK
  <2>2. CASE Next
    BY <2>1, <2>2, QueueSide DEF PipelineInv
  <2>3. CASE UNCHANGED vars
    BY <2>3 DEF vars, queueVars, PipelineInv
  <2> QED
    BY <2>2, <2>3
<1> QED
  BY <1>1, <1>2 DEF PipelineInv

\* A path the watcher keeps track of, under a step of the two.
LEMMA PipelineTracks ==
  ASSUME PipelineInv, Next, stream' # "gone", NEW p \in Watched, Tracked(p),
         p \notin unheard'
  PROVE  \/ Tracked(p)'
         \/ Merged /\ p = Head(channel)
         \/ Rescanned /\ IsUnder(p, taken)
<1> USE DEF PipelineInv, WatcherInv
<1>1. CASE Reported
  BY <1>1, ReportTracks DEF Reported
<1>2. CASE Dispatching
  <2>1. stream' = stream
    BY <1>2 DEF Dispatching, Dispatch, LostEverything, RaiseFlag, LostUnder, TrySendAccepted,
                TrySendFull, TrySendClosed, LostRefused, streamVars
  <2> QED
    BY <1>2, <2>1, DispatchTracks DEF Dispatching
<1>3. CASE Stopped \/ Between \/ Ticked
  BY <1>3 DEF Stopped, Between, Ticked, watcherVars, Tracked, EventComing, WalkOwed
<1>4. CASE Asked \/ Unanswered
  BY <1>4 DEF Asked, Unanswered, Call, GiveUp, signalVars, backendVars, Tracked, EventComing,
     WalkOwed
<1>5. CASE Purging
  <2>1. Answer /\ ~Receive /\ ~LowerFlag
    BY <1>5 DEF Purging, Answer, Purge, LostPurged, TakeScope, Receive, LowerFlag
  <2> QED
    BY <2>1, ConsumerTracks
<1>6. CASE Merged
  <2>1. Answer /\ ~LowerFlag
    BY <1>6 DEF Merged, Answer, Receive, LowerFlag
  <2> QED
    BY <1>6, <2>1, ConsumerTracks
<1>7. CASE Rescanned
  <2>1. Answer /\ ~Receive
    BY <1>7 DEF Rescanned, Answer, Receive, LowerFlag
  <2> QED
    BY <1>7, <2>1, ConsumerTracks
<1>8. CASE Dropped
  BY <1>8 DEF Dropped, Drop
<1> QED
  BY <1>1, <1>2, <1>3, <1>4, <1>5, <1>6, <1>7, <1>8 DEF Next

\* From the kernel's report to the batch that announces it, a change is on its way
\* in the watcher or in the queue, and only a rescan of another directory ends that.
THEOREM PipelineMissesOnlyByRescan == Spec => MissedOnlyByRescan
<1> DEFINE Kept(p) ==
             (p \in Unannounced => OnItsWay(p)) /\ stream' # "gone" =>
                \/ OnItsWay(p)'
                \/ Rescanned /\ p \in pending /\ ~IsUnder(p, taken)
<1>1. Init => PipelineInv
  BY WatcherInitially DEF Init, QueueInit, PipelineInv
<1>2. PipelineInv /\ PipelineInv' /\ [Next]_vars => [\A p \in Unannounced' : Kept(p)]_vars
  <2> SUFFICES ASSUME PipelineInv, PipelineInv', Next, NEW p \in Unannounced',
                      p \in Unannounced => OnItsWay(p), stream' # "gone"
               PROVE  \/ OnItsWay(p)'
                      \/ Rescanned /\ p \in pending /\ ~IsUnder(p, taken)
    OBVIOUS
  <2>1. CASE p \in unheard'
    <3>1. (EventComing(p) \/ WalkOwed(p))'
      BY <2>1 DEF PipelineInv, WatcherInv, NothingLost
    <3> QED
      BY <3>1 DEF OnItsWay
  <2>2. CASE p \in owed' /\ p \notin unheard'
    <3>1. p \in Watched
      BY <2>2 DEF PipelineInv
    <3>2. CASE Merged /\ p = Head(channel)
      <4>1. p \in pending'
        BY <3>2 DEF Merged, RecvFirst, RecvNext, DrainRecv, Merge
      <4> QED
        BY <4>1 DEF OnItsWay
    <3>3. CASE ~(Merged /\ p = Head(channel))
      <4>1. p \in owed
        BY <2>2, <3>3, QueueSide
      <4>2. Tracked(p) \/ p \in pending
        BY <4>1 DEF Unannounced, OnItsWay, Tracked
      <4>3. ~(Rescanned /\ IsUnder(p, taken))
        BY <2>2, <4>1 DEF Rescanned, RecvRescan, DrainRescan, TakeRescan, Beneath
      <4>4. CASE Tracked(p)
        <5>1. Tracked(p)'
          BY <2>2, <3>1, <3>3, <4>3, <4>4, PipelineTracks
        <5> QED
          BY <5>1 DEF Tracked, OnItsWay
      <4>5. CASE p \in pending
        <5>1. p \in pending' \/ Rescanned
          BY <2>2, <4>5, QueueSide
        <5> QED
          BY <4>3, <4>5, <5>1 DEF OnItsWay
      <4> QED
        BY <4>2, <4>4, <4>5
    <3> QED
      BY <3>2, <3>3
  <2> QED
    BY <2>1, <2>2 DEF Unannounced
<1>3. Spec => [][\A p \in Unannounced' : Kept(p)]_vars
  BY <1>1, <1>2, PipelineInductive, PTL DEF Spec
<1> QED
  BY <1>3 DEF MissedOnlyByRescan
=============================================================================
