----------------------------- MODULE PassProofs -----------------------------
(***************************************************************************)
(* What a pass takes from the target, what it leaves undone and what it    *)
(* says of that, for trees of any size, scopes of any kind, and however    *)
(* often the source changes and actions fail.  First what is removed: the  *)
(* invariant IInv.  Then what an index sees, what a plan has in it and     *)
(* what an action makes of a tree, as lemmas about the operators; with     *)
(* those the types (TInv), the differences a pass reports (AInv) and the   *)
(* order of its plan (OInv), each from the one before.                     *)
(***************************************************************************)
EXTENDS Pass, FiniteSetTheorems, SequenceTheorems, WellFoundedInduction, TLAPS

-----------------------------------------------------------------------------
(* Numbers and paths *)

\* A set of natural numbers has a least one, which is what an induction over data needs.
LEMMA LeastNumber ==
  ASSUME NEW S \in SUBSET Nat, S # {}
  PROVE  \E n \in S : \A m \in S : n <= m
<1> DEFINE Less == {pair \in Nat \X Nat : pair[1] < pair[2]}
<1>1. Less = OpToRel(<, Nat)
  BY Zenon DEF OpToRel
<1>2. IsWellFoundedOn(Less, Nat)
  BY <1>1, NatLessThanWellFounded, Zenon
<1> HIDE DEF Less
<1>3. \E n \in S : \A m \in S : ~(<<m, n>> \in Less)
  BY <1>2, WFMin, Zenon
<1>4. \A m, n \in S : ~(<<m, n>> \in Less) => n <= m
  BY DEF Less
<1> QED
  BY <1>3, <1>4

\* Every path is under itself, and "under" composes: a walk of a directory
\* visits whatever a walk of one of its subdirectories visits.
LEMMA UnderIsPreorder ==
  /\ \A p \in Path : IsUnder(p, p)
  /\ \A p, q, r \in Path : IsUnder(p, q) /\ IsUnder(q, r) => IsUnder(p, r)
BY DEF IsUnder, Path

\* What taking the first n components of a path yields.
PrefixOf(p, n) ==
  /\ SubSeq(p, 1, n) \in Path
  /\ Len(SubSeq(p, 1, n)) = n
  /\ \A i \in 1..n : SubSeq(p, 1, n)[i] = p[i]

LEMMA PrefixProperties ==
  ASSUME NEW p \in Path, NEW n \in 0..Len(p)
  PROVE  PrefixOf(p, n)
BY DEF PrefixOf, Path

\* A path lies under its parent, which is why RescanSignal::lost may fold the
\* parent in and still promise to cover the path.
LEMMA ParentContains ==
  ASSUME NEW p \in Path
  PROVE  Parent(p) \in Path /\ IsUnder(p, Parent(p))
<1>1. CASE p = <<>>
  BY <1>1 DEF Parent, IsUnder, Path
<1>2. CASE p # <<>>
  <2>1. Len(p) \in Nat /\ Len(p) >= 1
    BY <1>2 DEF Path
  <2>2. PrefixOf(p, Len(p) - 1)
    BY <2>1, PrefixProperties
  <2> QED
    BY <1>2, <2>1, <2>2 DEF Parent, IsUnder, Path, PrefixOf
<1> QED
  BY <1>1, <1>2

-----------------------------------------------------------------------------
(* What the invariants speak of *)

IsEntry(e) == e.kind \in {"dir", "file", "link"} /\ DOMAIN e = {"kind", "data", "mode"}

HasKinds(tree) == \A p \in DOMAIN tree : IsEntry(tree[p])

Sound(tree) == IsTree(tree) /\ DOMAIN tree \subseteq Path /\ HasKinds(tree)

WriteOps == {"create_dir", "copy_file", "create_symlink"}
Ops == WriteOps \cup {"remove", "set_metadata"}

-----------------------------------------------------------------------------
(* Indexes *)

Above(p, j) == SubSeq(p, 1, Len(p) - j)

LEMMA AboveProperties ==
  ASSUME NEW p \in Path, NEW j \in 0..Len(p)
  PROVE  /\ Above(p, j) \in Path
         /\ Len(Above(p, j)) = Len(p) - j
         /\ \A i \in 1..(Len(p) - j) : Above(p, j)[i] = p[i]
<1>1. Len(p) \in Nat
  BY DEF Path
<1>2. Len(p) - j \in 0..Len(p)
  BY <1>1
<1> QED
  BY <1>2, PrefixProperties DEF PrefixOf, Above

LEMMA SamePath ==
  ASSUME NEW p \in Path, NEW q \in Path, Len(p) = Len(q), \A i \in 1..Len(p) : p[i] = q[i]
  PROVE  p = q
BY DEF Path

LEMMA ParentOfAbove ==
  ASSUME NEW p \in Path, NEW j \in Nat, j < Len(p)
  PROVE  Above(p, j) # <<>> /\ Parent(Above(p, j)) = Above(p, j + 1)
<1>1. Len(p) \in Nat /\ j \in 0..Len(p) /\ j + 1 \in 0..Len(p)
  BY DEF Path
<1> DEFINE q == Above(p, j)
           r == Above(p, j + 1)
<1>2. /\ q \in Path /\ Len(q) = Len(p) - j
      /\ \A i \in 1..(Len(p) - j) : q[i] = p[i]
  BY <1>1, AboveProperties
<1>3. /\ r \in Path /\ Len(r) = Len(p) - (j + 1)
      /\ \A i \in 1..(Len(p) - (j + 1)) : r[i] = p[i]
  BY <1>1, AboveProperties
<1> HIDE DEF q, r
<1>4. q # <<>>
  <2>1. Len(q) # 0
    BY <1>1, <1>2
  <2> QED
    BY <2>1
<1>5. Parent(q) = Above(q, 1)
  BY <1>4 DEF Parent, Above
<1>6. 1 \in 0..Len(q)
  BY <1>1, <1>2
<1>7. /\ Above(q, 1) \in Path /\ Len(Above(q, 1)) = Len(q) - 1
      /\ \A i \in 1..(Len(q) - 1) : Above(q, 1)[i] = q[i]
  BY <1>2, <1>6, AboveProperties
<1>8. Above(q, 1) = r
  <2> DEFINE n == Len(p)
  <2>1. Len(Above(q, 1)) = Len(r)
    <3>1. Len(Above(q, 1)) = (n - j) - 1
      BY <1>2, <1>7
    <3>2. n \in Nat
      BY <1>1
    <3> HIDE DEF n
    <3>3. (n - j) - 1 = n - (j + 1)
      BY <3>2
    <3>4. Len(r) = n - (j + 1)
      BY <1>3 DEF n
    <3> QED
      BY <3>1, <3>3, <3>4
  <2> HIDE DEF n
  <2>2. \A i \in 1..Len(r) : i \in 1..(Len(q) - 1) /\ i \in 1..(Len(p) - j)
    BY <1>1, <1>2, <1>3
  <2>3. \A i \in 1..Len(r) : Above(q, 1)[i] = r[i]
    BY <1>2, <1>3, <1>7, <2>2
  <2> QED
    BY <1>3, <1>7, <2>1, <2>3, SamePath
<1> QED
  BY <1>4, <1>5, <1>8 DEF q, r

\* Every proper ancestor of a path in a tree is a directory of the tree.
LEMMA AncestorsAreDirs ==
  ASSUME NEW tree, Sound(tree), NEW p \in DOMAIN tree, NEW r \in Path,
         IsUnder(p, r), p # r, r # <<>>
  PROVE  r \in DOMAIN tree /\ IsDir(tree[r])
<1> DEFINE m == Len(p) - 1
           Held(j) == Above(p, j) \in DOMAIN tree /\ IsDir(tree[Above(p, j)])
           Missed == {i \in 1..m : ~Held(i)}
<1>1. p \in Path /\ Len(p) \in Nat /\ Len(p) > 0 /\ m \in Nat
  BY DEF Sound, IsTree, Path
<1>2. \A j \in 0..(m - 1) : j = 0 \/ Held(j) => Held(j + 1)
  <2> SUFFICES ASSUME NEW j \in 0..(m - 1), j = 0 \/ Held(j)
               PROVE  Held(j + 1)
    OBVIOUS
  <2>1. Above(p, 0) = p
    BY <1>1 DEF Above, Path
  <2>2. Above(p, j) \in DOMAIN tree
    BY <2>1
  <2>3. Parent(Above(p, j)) = Above(p, j + 1)
    BY <1>1, ParentOfAbove
  <2>4. j + 1 \in Nat /\ j + 1 < Len(p)
    BY <1>1
  <2>5. Above(p, j + 1) # <<>>
    BY <1>1, <2>4, ParentOfAbove
  <2> QED
    BY <2>2, <2>3, <2>5 DEF Sound, IsTree
<1> HIDE DEF Held
<1>3. \A i \in 1..m : Held(i)
  <2> SUFFICES ASSUME Missed # {}
               PROVE  FALSE
    OBVIOUS
  <2>1. Missed \in SUBSET Nat
    BY <1>1
  <2>2. PICK n \in Missed : \A i \in Missed : n <= i
    BY <2>1, LeastNumber
  <2>3. n - 1 \in 0..(m - 1) /\ n - 1 \notin Missed /\ (n - 1) + 1 = n
    BY <1>1, <2>2
  <2>4. n - 1 = 0 \/ Held(n - 1)
    BY <1>1, <2>3
  <2> QED
    BY <1>2, <2>2, <2>3, <2>4
<1>6. Len(r) \in 1..m
  <2>1. Len(r) \in Nat /\ Len(r) # 0
    BY DEF Path
  <2>2. Len(r) # Len(p)
    BY <1>1, SamePath DEF IsUnder
  <2> QED
    BY <1>1, <2>1, <2>2 DEF IsUnder
<1>7. Held(Len(p) - Len(r))
  BY <1>1, <1>3, <1>6
<1>8. Above(p, Len(p) - Len(r)) = r
  <2>1. PrefixOf(p, Len(r))
    BY <1>1, <1>6, PrefixProperties
  <2>2. Above(p, Len(p) - Len(r)) = SubSeq(p, 1, Len(r))
    BY <1>1, <1>6 DEF Above
  <2> QED
    BY <2>1, <2>2 DEF PrefixOf, IsUnder, Path
<1> QED
  BY <1>7, <1>8 DEF Held

\* The excluded directory that a rescan starts at.
StartsExcluded(s, p) == s.kind = "subtree" /\ p \in s.roots /\ Excludes(p)

\* What a scope shows of one tree, it shows of any other that has it; but an excluded directory
\* that is named is shown, and a file is not.
LEMMA IndexCovers ==
  ASSUME NEW s \in Scopes, NEW tree, Sound(tree), NEW other,
         NEW p \in DOMAIN tree, p \in Indexed(other, s), ~StartsExcluded(s, p)
  PROVE  p \in Indexed(tree, s)
<1>1. PICK root \in s.roots :
        p \in (IF s.kind = "paths" THEN StatPath(other, root) ELSE WalkScope(other, root))
  BY DEF Indexed
<1>2. root \in Path /\ s.kind \in {"paths", "subtree"}
  BY ScopesAssumption
<1>3. s.kind = "paths" => ~Excludes(root)
  BY <1>1, <1>2 DEF StatPath
<1>4. p = root \/ p \in Walk(other, root)
  BY <1>1 DEF StatPath, WalkScope, WalkSubtree
<1>5. p \in IF s.kind = "paths" THEN StatPath(tree, root) ELSE WalkScope(tree, root)
  <2>1. CASE p = root
    <3>1. ~Excludes(root)
      BY <1>2, <1>3, <2>1 DEF StartsExcluded
    <3> QED
      BY <2>1, <3>1 DEF StatPath, WalkScope, WalkSubtree
  <2>2. CASE p # root
    <3>1. p \in Walk(tree, root) /\ IsUnder(p, root)
      BY <1>4, <2>2 DEF Walk
    <3>2. root = <<>> \/ (root \in DOMAIN tree /\ IsDir(tree[root]))
      BY <1>2, <2>2, <3>1, AncestorsAreDirs
    <3>3. p \in WalkSubtree(tree, root)
      BY <3>1 DEF WalkSubtree
    <3>4. root \notin DOMAIN tree \/ IsDir(tree[root])
      BY <3>2 DEF Sound, IsTree
    <3> QED
      BY <1>3, <3>2, <3>3, <3>4 DEF StatPath, WalkScope
  <2> QED
    BY <2>1, <2>2
<1> QED
  BY <1>5 DEF Indexed

-----------------------------------------------------------------------------
(* Plans and their actions *)

\* A plan removes only with deletions on, and then what the source's index lacks or
\* what it has a replacement for.
Shaped(actions, s, t, d) ==
  \A a \in actions :
    /\ a.op \in Ops
    /\ a.op = "remove" =>
         /\ d
         /\ \/ a.path \in DOMAIN t \ DOMAIN s
            \/ \E b \in actions : b.op \in WriteOps /\ b.path = a.path

LEMMA PlanShape ==
  ASSUME NEW s, NEW t, NEW d \in BOOLEAN, NEW sc, HasKinds(s)
  PROVE  Shaped(Plan(s, t, d, sc), s, t, d)
<1> SUFFICES ASSUME NEW a \in Plan(s, t, d, sc)
             PROVE  /\ a.op \in Ops
                    /\ a.op = "remove" =>
                         /\ d
                         /\ \/ a.path \in DOMAIN t \ DOMAIN s
                            \/ \E b \in Plan(s, t, d, sc) : b.op \in WriteOps /\ b.path = a.path
  BY DEF Shaped
<1> DEFINE candidates == UNION {Beneath(DOMAIN s, r) : r \in sc.roots}
<1>1. candidates \subseteq DOMAIN s
  BY DEF Beneath
<1>2. \A x : x \in Plan(s, t, d, sc) <=>
        \/ \E p \in candidates : x \in Comparison(s, t, d, p)
        \/ \E p \in candidates : x \in MetadataChange(s, t, p)
        \/ d /\ \E p \in Extraneous(s, t, sc) : x = Remove(p)
  BY DEF Plan
<1> HIDE DEF candidates
<1>3. CASE \E p \in candidates : a \in Comparison(s, t, d, p)
  <2>1. PICK p \in candidates : a \in Comparison(s, t, d, p)
    BY <1>3
  <2>2. Write(p, s[p]).op \in WriteOps /\ Write(p, s[p]).path = p
    <3>1. s[p].kind \in {"dir", "file", "link"}
      BY <1>1 DEF HasKinds, IsEntry
    <3>2. CASE s[p].kind = "dir"
      BY <3>2 DEF Write, IsDir, IsFile, IsLink, CreateDir, WriteOps
    <3>3. CASE s[p].kind = "file"
      BY <3>3 DEF Write, IsDir, IsFile, IsLink, CopyFile, WriteOps
    <3>4. CASE s[p].kind = "link"
      BY <3>4 DEF Write, IsDir, IsFile, IsLink, CreateSymlink, WriteOps
    <3> QED
      BY <3>1, <3>2, <3>3, <3>4
  <2>3. Write(p, s[p]) \in Comparison(s, t, d, p)
    BY <2>1 DEF Comparison
  <2>4. Write(p, s[p]) \in Plan(s, t, d, sc)
    BY <1>2, <2>3
  <2>5. a = Write(p, s[p]) \/ (d /\ a = Remove(p))
    BY <2>1 DEF Comparison
  <2>6. "remove" \notin WriteOps
    BY DEF WriteOps
  <2> QED
    BY <2>2, <2>4, <2>5, <2>6 DEF Ops, Remove
<1>4. CASE \E p \in candidates : a \in MetadataChange(s, t, p)
  <2>1. PICK p \in candidates : a = SetMetadata(p, s[p].mode)
    BY <1>4, Zenon DEF MetadataChange
  <2>2. a.op = "set_metadata"
    BY <2>1 DEF SetMetadata
  <2> QED
    BY <2>2 DEF Ops
<1>5. CASE d /\ \E p \in Extraneous(s, t, sc) : a = Remove(p)
  <2>1. PICK p \in Extraneous(s, t, sc) : a = Remove(p)
    BY <1>5
  <2>2. p \in DOMAIN t \ DOMAIN s
    BY DEF Extraneous, Beneath
  <2>3. a.op = "remove" /\ a.path = p
    BY <2>1 DEF Remove
  <2> QED
    BY <1>5, <2>2, <2>3 DEF Ops
<1> QED
  BY <1>2, <1>3, <1>4, <1>5

\* What an action that succeeds makes of the paths there are.
LEMMA AppliedDomain ==
  ASSUME NEW a, a.op \in Ops, Possible(a)
  PROVE  /\ a.op # "remove" => DOMAIN target \subseteq DOMAIN Applied(a) /\ a.path \in DOMAIN Applied(a)
         /\ a.op = "remove" => DOMAIN Applied(a) = DOMAIN target \ {a.path}
<1>1. CASE a.op = "create_dir"
  BY <1>1 DEF Applied, Put, WithParents
<1>2. CASE a.op = "copy_file"
  BY <1>2 DEF Applied, Put, WithParents
<1>3. CASE a.op = "create_symlink"
  BY <1>3 DEF Applied, Put, WithParents
<1>4. CASE a.op = "remove"
  BY <1>4 DEF Applied, Drop
<1>5. CASE a.op = "set_metadata"
  BY <1>5 DEF Applied, Possible
<1> QED
  BY <1>1, <1>2, <1>3, <1>4, <1>5 DEF Ops, WriteOps

\* And one that fails takes at most its own path away.
LEMMA LeftDomain ==
  ASSUME NEW a, NEW tree \in Left(a)
  PROVE  DOMAIN target \ {a.path} \subseteq DOMAIN tree
<1>1. CASE tree = target
  BY <1>1
<1>2. CASE \E q : tree = WithParents(target, q)
  BY <1>2 DEF WithParents
<1>3. CASE tree = Drop(WithParents(target, a.path), a.path)
  BY <1>3 DEF WithParents, Drop
<1> QED
  BY <1>1, <1>2, <1>3 DEF Left

\* Whatever makes room is applied before what it makes room for.
LEMMA RemovalsFirst ==
  ASSUME NEW a \in plan, a.op = "remove", NEW b, b.op \in WriteOps \cup {"set_metadata"}
  PROVE  ~Turn(b)
BY DEF Turn, Precedes, Group, WriteOps

-----------------------------------------------------------------------------
(* The invariant *)

\* A source that is there lacks of what the target held only what has been noted.
Noted == mounted => DOMAIN before \ DOMAIN source \subseteq missing

TreesOK == source \in Trees \cup {NoEntries} /\ Sound(source) /\ Sound(before) /\ scope \in Scopes /\ delete \in BOOLEAN

\* The target is not written before there is a plan.
Untouched == stage \in {"index source", "walk source", "index target"} => target = before /\ plan = {}

\* Nor does what its walk may come by, unless its root has gone away.
Walking ==
  /\ stage = "walk source" <=> met # {}
  /\ stage = "walk source" => source \in met
  /\ met \subseteq Trees \cup {NoEntries}
  /\ \A tree \in met : vanished \/ DOMAIN before \ DOMAIN tree \subseteq missing

\* What is taken for missing that is not.
Mistaken(p) == vanished \/ StartsExcluded(scope, p)

\* What of the target's paths the source's index lacks has been missing.
Seen ==
  stage = "index target" =>
    /\ HasKinds(sourceIndex)
    /\ \A p \in DOMAIN before \cap Indexed(before, scope) :
         p \in DOMAIN sourceIndex \cup missing \/ Mistaken(p)

\* With deletions off there is no removal; and one is of something that was missing, or has
\* its replacement still to come.
Justified ==
  \A a \in plan :
    /\ a.op \in Ops
    /\ a.op = "remove" =>
         /\ delete
         /\ \/ a.path \in missing \/ a.path \notin DOMAIN before \/ Mistaken(a.path)
            \/ \E b \in plan : b.op \in WriteOps /\ b.path = a.path

Accountable ==
  \A p \in DOMAIN before \ DOMAIN target :
    p \in missing \cup failed \cup {action.path : action \in plan} \/ Mistaken(p)

IInv == TreesOK /\ Noted /\ Walking /\ Untouched /\ Seen /\ Justified /\ Accountable

LEMMA TreesAreSound == \A tree \in Trees \cup {NoEntries} : Sound(tree)
BY TreesAssumption, EntriesAssumption DEF Sound, HasKinds, IsEntry, NoEntries, IsTree

LEMMA Initially == Init => IInv
BY TreesAreSound, DeletesAssumption
   DEF Init, IInv, TreesOK, Noted, Walking, Untouched, Seen, Justified, Accountable

\* The plan is made of what the index of the source lacked.
LEMMA PlanJustified == IInv /\ IndexTarget => Justified'
<1> SUFFICES ASSUME IInv, IndexTarget
             PROVE  Justified'
  OBVIOUS
<1>1. /\ plan' = Plan(sourceIndex, targetIndex', delete, scope)
      /\ targetIndex' = IndexScope(target, scope)
      /\ UNCHANGED <<delete, scope, before, missing, vanished>>
  BY DEF IndexTarget, ghosts
<1>2. /\ HasKinds(sourceIndex)
      /\ \A p \in DOMAIN before \cap Indexed(before, scope) :
           p \in DOMAIN sourceIndex \cup missing \/ Mistaken(p)
  BY DEF IInv, Seen, IndexTarget
<1>3. target = before /\ delete \in BOOLEAN
  BY DEF IInv, Untouched, TreesOK, IndexTarget
<1>4. DOMAIN targetIndex' = Indexed(before, scope)
  BY <1>1, <1>3 DEF IndexScope
<1>5. Shaped(plan', sourceIndex, targetIndex', delete)
  BY <1>1, <1>2, <1>3, PlanShape
<1> QED
  BY <1>1, <1>2, <1>4, <1>5 DEF Justified, Shaped, Mistaken

\* What is walked has each of its entries from a tree that there was, and lacks what one of
\* those does.
LEMMA WalkFinds ==
  ASSUME IInv, IndexSource
  PROVE  /\ \A p \in DOMAIN sourceIndex' :
              \E tree \in met : p \in Indexed(tree, scope) /\ sourceIndex'[p] = tree[p]
         /\ \A p : p \notin DOMAIN sourceIndex' => \E tree \in met : p \notin Indexed(tree, scope)
         /\ met = {source} => sourceIndex' = IndexScope(source, scope)
<1> DEFINE somewhere == UNION {Indexed(tree, scope) : tree \in met}
<1>1. PICK seen \in [somewhere -> met] :
        sourceIndex' = [p \in {q \in DOMAIN seen : q \in Indexed(seen[q], scope)} |-> seen[p][p]]
  BY DEF IndexSource
<1>2. source \in met
  BY DEF IndexSource, IInv, Walking
<1>3. \A p : p \in somewhere <=> \E tree \in met : p \in Indexed(tree, scope)
  OBVIOUS
<1> HIDE DEF somewhere
<1>4. DOMAIN seen = somewhere /\ \A p \in somewhere : seen[p] \in met
  OBVIOUS
<1>5. /\ DOMAIN sourceIndex' = {q \in somewhere : q \in Indexed(seen[q], scope)}
      /\ \A p \in DOMAIN sourceIndex' : sourceIndex'[p] = seen[p][p]
  BY <1>1, <1>4
<1>6. \A p \in DOMAIN sourceIndex' :
        \E tree \in met : p \in Indexed(tree, scope) /\ sourceIndex'[p] = tree[p]
  BY <1>4, <1>5
<1>7. \A p : p \notin DOMAIN sourceIndex' => \E tree \in met : p \notin Indexed(tree, scope)
  BY <1>2, <1>3, <1>4, <1>5
<1>8. ASSUME met = {source}
      PROVE  sourceIndex' = IndexScope(source, scope)
  <2>1. somewhere = Indexed(source, scope) /\ \A p \in somewhere : seen[p] = source
    BY <1>3, <1>4, <1>8
  <2>2. {q \in DOMAIN seen : q \in Indexed(seen[q], scope)} = Indexed(source, scope)
    BY <1>4, <2>1
  <2>3. \A p \in Indexed(source, scope) : seen[p][p] = source[p]
    BY <2>1
  <2> QED
    BY <1>1, <2>2, <2>3 DEF IndexScope
<1> QED
  BY <1>6, <1>7, <1>8

LEMMA IndexedHeld ==
  ASSUME NEW tree, NEW s
  PROVE  Indexed(tree, s) \subseteq DOMAIN tree
BY DEF Indexed, StatPath, WalkScope, WalkSubtree, Walk

LEMMA MetAreSound == ASSUME IInv, NEW tree \in met PROVE Sound(tree)
BY TreesAreSound DEF IInv, Walking

LEMMA IndexingPreserves ==
  ASSUME IInv, CheckRoot \/ IndexSource \/ IndexTarget \/ IndexFails \/ Finish
  PROVE  IInv'
<1> USE DEF IInv
<1>1. UNCHANGED <<source, target, mounted, delete, scope, before, missing, vanished, failed>>
  BY DEF CheckRoot, IndexSource, IndexTarget, IndexFails, Finish, disk, ghosts
<1>2. TreesOK' /\ Noted'
  BY <1>1 DEF TreesOK, Noted
<1>7. Walking'
  <2>1. CASE CheckRoot
    <3>1. stage' = "walk source" /\ met' = {source} /\ mounted
      BY <2>1 DEF CheckRoot
    <3> QED
      BY <1>1, <3>1 DEF Walking, Noted, TreesOK
  <2>2. CASE IndexSource \/ IndexFails
    <3>1. stage' # "walk source" /\ met' = {}
      BY <2>2 DEF IndexSource, IndexFails
    <3> QED
      BY <3>1 DEF Walking
  <2>3. CASE IndexTarget \/ Finish
    <3>1. stage # "walk source" /\ stage' # "walk source" /\ met' = met
      BY <2>3 DEF IndexTarget, Finish
    <3> QED
      BY <3>1 DEF Walking
  <2> QED
    BY <2>1, <2>2, <2>3
<1>3. Untouched'
  <2>1. CASE IndexSource \/ CheckRoot
    BY <1>1, <2>1 DEF IndexSource, CheckRoot, Untouched
  <2>2. CASE IndexTarget \/ IndexFails \/ Finish
    BY <2>2 DEF IndexTarget, IndexFails, Finish, Untouched
  <2> QED
    BY <2>1, <2>2
<1>4. Seen'
  <2>1. CASE IndexSource
    <3>1. \A p \in DOMAIN sourceIndex' :
            \E tree \in met : p \in Indexed(tree, scope) /\ sourceIndex'[p] = tree[p]
      BY <2>1, WalkFinds
    <3>2. \A tree \in met : HasKinds(tree) /\ Indexed(tree, scope) \subseteq DOMAIN tree
      BY MetAreSound, IndexedHeld DEF Sound
    <3>3. HasKinds(sourceIndex')
      BY <3>1, <3>2 DEF HasKinds
    <3>4. ASSUME NEW p \in DOMAIN before \cap Indexed(before, scope), p \notin DOMAIN sourceIndex'
          PROVE  p \in missing \/ Mistaken(p)
      <4>1. PICK tree \in met : p \notin Indexed(tree, scope)
        BY <2>1, <3>4, WalkFinds
      <4>2. Sound(tree) /\ scope \in Scopes
        BY MetAreSound DEF TreesOK
      <4>3. p \notin DOMAIN tree \/ StartsExcluded(scope, p)
        BY <3>4, <4>1, <4>2, IndexCovers
      <4>4. vanished \/ DOMAIN before \ DOMAIN tree \subseteq missing
        BY DEF Walking
      <4> QED
        BY <3>4, <4>3, <4>4 DEF Mistaken
    <3> QED
      BY <1>1, <3>3, <3>4 DEF Seen, Mistaken
  <2>2. CASE CheckRoot \/ IndexTarget \/ IndexFails \/ Finish
    BY <2>2 DEF CheckRoot, IndexTarget, IndexFails, Finish, Seen
  <2> QED
    BY <2>1, <2>2
<1>5. Justified'
  <2>1. CASE IndexTarget
    BY <2>1, PlanJustified
  <2>2. CASE CheckRoot \/ IndexSource \/ IndexFails \/ Finish
    BY <1>1, <2>2 DEF CheckRoot, IndexSource, IndexFails, Finish, Justified, Mistaken
  <2> QED
    BY <2>1, <2>2
<1>6. Accountable'
  <2>1. plan \subseteq plan'
    BY DEF CheckRoot, IndexSource, IndexTarget, IndexFails, Finish, Untouched
  <2> QED
    BY <1>1, <2>1 DEF Accountable, Mistaken
<1> QED
  BY <1>2, <1>3, <1>4, <1>5, <1>6, <1>7

LEMMA SourceChangePreserves == IInv /\ SourceChanges => IInv'
<1> SUFFICES ASSUME IInv, SourceChanges
             PROVE  IInv'
  OBVIOUS
<1> USE DEF IInv
<1>7. source' \in Trees \cup {NoEntries} /\ missing \subseteq missing'
  BY DEF SourceChanges
<1>8. vanished => vanished'
  BY Zenon DEF SourceChanges
<1>1. source' \in Trees \cup {NoEntries} /\ missing \subseteq missing' /\ (vanished => vanished')
  BY <1>7, <1>8
<1>2. UNCHANGED <<target, delete, scope, stage, indexes, plan, failed, before>>
  BY DEF SourceChanges
<1>6. Walking'
  <2>1. CASE stage = "walk source"
    <3>1. met' = met \cup {source'} /\ met # {}
      BY <2>1 DEF SourceChanges, Walking
    <3>2. vanished' \/ DOMAIN before \ DOMAIN source' \subseteq missing'
      BY <2>1 DEF SourceChanges
    <3> QED
      BY <1>1, <1>2, <2>1, <3>1, <3>2 DEF Walking
  <2>2. CASE stage # "walk source"
    BY <1>2, <2>2 DEF SourceChanges, Walking
  <2> QED
    BY <2>1, <2>2
<1>3. TreesOK' /\ Untouched'
  BY <1>1, <1>2, TreesAreSound DEF TreesOK, Untouched
<1>4. Noted'
  BY DEF SourceChanges, Noted
<1>5. Seen' /\ Justified' /\ Accountable'
  BY <1>1, <1>2 DEF Seen, Justified, Accountable, Mistaken, indexes
<1> QED
  BY <1>3, <1>4, <1>5, <1>6

LEMMA SuccessPreserves ==
  ASSUME IInv, NEW action \in plan, ApplySucceeds(action)
  PROVE  IInv'
<1> USE DEF IInv
<1>1. /\ UNCHANGED <<source, mounted, delete, scope, stage, met, sourceIndex, failed, before, missing, vanished>>
      /\ plan' = plan \ {action} /\ target' = Applied(action) /\ stage = "apply"
  BY DEF ApplySucceeds, Turn, indexes, ghosts
<1>2. TreesOK' /\ Noted' /\ Walking' /\ Untouched' /\ Seen'
  BY <1>1 DEF TreesOK, Noted, Walking, Untouched, Seen
<1>3. action.op \in Ops /\ Possible(action) /\ Turn(action)
  BY DEF Justified, ApplySucceeds
<1>4. Justified'
  <2>1. \A a \in plan' : a.op = "remove" => action.op \notin WriteOps
    BY <1>1, <1>3, RemovalsFirst
  <2> QED
    BY <1>1, <2>1 DEF Justified, Mistaken
<1>5. Accountable'
  <2>1. CASE action.op = "remove"
    <3>1. DOMAIN target' = DOMAIN target \ {action.path}
      BY <1>1, <1>3, <2>1, AppliedDomain
    <3>2. \/ action.path \in missing \/ action.path \notin DOMAIN before \/ Mistaken(action.path)
          \/ \E b \in plan' : b.path = action.path
      BY <1>1, <2>1 DEF Justified, WriteOps
    <3> QED
      BY <1>1, <3>1, <3>2 DEF Accountable, Mistaken
  <2>2. CASE action.op # "remove"
    <3>1. DOMAIN target \subseteq DOMAIN target' /\ action.path \in DOMAIN target'
      BY <1>1, <1>3, <2>2, AppliedDomain
    <3> QED
      BY <1>1, <3>1 DEF Accountable, Mistaken
  <2> QED
    BY <2>1, <2>2
<1> QED
  BY <1>2, <1>4, <1>5

LEMMA RepetitionPreserves ==
  ASSUME IInv, NEW action \in plan, Unanswered(action)
  PROVE  IInv'
<1> USE DEF IInv
<1>1. /\ UNCHANGED <<source, mounted, delete, scope, stage, met, sourceIndex, plan, failed, before, missing, vanished>>
      /\ target' = Applied(action) /\ stage = "apply"
  BY DEF Unanswered, Turn, indexes, ghosts
<1>2. TreesOK' /\ Noted' /\ Walking' /\ Untouched' /\ Seen' /\ Justified'
  BY <1>1 DEF TreesOK, Noted, Walking, Untouched, Seen, Justified, Mistaken
<1>3. DOMAIN target \ {action.path} \subseteq DOMAIN target'
  BY <1>1, AppliedDomain DEF Justified, Unanswered
<1>4. Accountable'
  BY <1>1, <1>3 DEF Accountable, Mistaken
<1> QED
  BY <1>2, <1>4

LEMMA FailurePreserves ==
  ASSUME IInv, NEW action \in plan, ApplyFails(action)
  PROVE  IInv'
<1> USE DEF IInv
<1>1. /\ UNCHANGED <<source, mounted, delete, scope, stage, met, sourceIndex, before, missing, vanished>>
      /\ plan' = plan \ {action} /\ failed' = failed \cup {action.path}
      /\ target' \in Left(action) /\ Turn(action) /\ stage = "apply"
  BY DEF ApplyFails, Turn, indexes, ghosts
<1>2. TreesOK' /\ Noted' /\ Walking' /\ Untouched' /\ Seen'
  BY <1>1 DEF TreesOK, Noted, Walking, Untouched, Seen
<1>3. Justified'
  <2>1. \A a \in plan' : a.op = "remove" => action.op \notin WriteOps
    BY <1>1, RemovalsFirst
  <2> QED
    BY <1>1, <2>1 DEF Justified, Mistaken
<1>4. Accountable'
  BY <1>1, LeftDomain DEF Accountable, Mistaken
<1> QED
  BY <1>2, <1>3, <1>4

LEMMA Inductive == IInv /\ [Next]_vars => IInv'
<1> SUFFICES ASSUME IInv, [Next]_vars
             PROVE  IInv'
  OBVIOUS
<1>1. CASE UNCHANGED vars
  BY <1>1 DEF vars, IInv, TreesOK, Noted, Walking, Untouched, Seen, Justified, Accountable, Mistaken
<1>2. CASE Next
  BY <1>2, IndexingPreserves, SourceChangePreserves, SuccessPreserves, FailurePreserves,
     RepetitionPreserves DEF Next
<1> QED
  BY <1>1, <1>2

\* What a pass takes from the target was not in the source, while that was there, at some
\* moment of the pass; or its replacement is still to come or is reported failed.  A source
\* that changes while it is walked removes nothing else, and nor does a root that goes away, except in
\* the middle of the walk; an excluded directory that a rescan starts at is the other exception.
THEOREM OnlyTheMissingIsRemoved == Spec => []RemovedWasMissing
<1>1. IInv => RemovedWasMissing
  BY DEF IInv, Accountable, RemovedWasMissing, Removed, Explained, Mistaken, StartsExcluded
<1> QED
  BY <1>1, Initially, Inductive, PTL DEF Spec

-----------------------------------------------------------------------------
(* Deletions off *)

\* Nothing a pass does takes a path away unless deletions are on, or it fails at it.
LEMMA StepRemovesNothing ==
  ASSUME IInv, Next, ~delete
  PROVE  DOMAIN target \ DOMAIN target' \subseteq failed'
<1>1. CASE CheckRoot \/ IndexSource \/ IndexTarget \/ IndexFails \/ Finish \/ SourceChanges
  BY <1>1 DEF CheckRoot, IndexSource, IndexTarget, IndexFails, Finish, SourceChanges, disk
<1>2. ASSUME NEW action \in plan, ApplySucceeds(action)
      PROVE  DOMAIN target \subseteq DOMAIN target'
  <2>1. action.op \in Ops /\ action.op # "remove"
    BY DEF IInv, Justified
  <2> QED
    BY <1>2, <2>1, AppliedDomain DEF ApplySucceeds
<1>4. ASSUME NEW action \in plan, Unanswered(action)
      PROVE  DOMAIN target \subseteq DOMAIN target'
  <2>1. action.op \in Ops /\ action.op # "remove"
    BY DEF IInv, Justified
  <2> QED
    BY <1>4, <2>1, AppliedDomain DEF Unanswered
<1>3. ASSUME NEW action \in plan, ApplyFails(action)
      PROVE  DOMAIN target \ DOMAIN target' \subseteq failed'
  BY <1>3, LeftDomain DEF ApplyFails
<1> QED
  BY <1>1, <1>2, <1>3, <1>4 DEF Next

\* With deletions off no pass takes anything from the target, but where it was making room
\* for the source's own link and reports that it could not make that.
THEOREM DeletionsOffRemoveNothing == Spec => NothingRemoved
<1>1. IInv /\ [Next]_vars => [~delete => DOMAIN target \ DOMAIN target' \subseteq failed']_vars
  BY StepRemovesNothing
<1> QED
  BY <1>1, Initially, Inductive, PTL DEF Spec, NothingRemoved

-----------------------------------------------------------------------------
(* What the filter sees *)

\* What is beneath an excluded directory is excluded.
LEMMA ExcludesBelow ==
  ASSUME NEW p \in Path, NEW r \in Path, IsUnder(p, r), Excludes(r)
  PROVE  Excludes(p)
<1>1. PICK pattern \in Patterns :
        \/ IsUnder(r, pattern.path)
        \/ /\ ~pattern.anchored
           /\ \E i \in 1..Len(r) : IsUnder(SubSeq(r, i, Len(r)), pattern.path)
  BY DEF Excludes
<1>2. pattern.path \in Path
  BY PatternsAssumption
<1>3. CASE IsUnder(r, pattern.path)
  <2>1. IsUnder(p, pattern.path)
    BY <1>2, <1>3, UnderIsPreorder
  <2> QED
    BY <2>1 DEF Excludes
<1>4. CASE /\ ~pattern.anchored
           /\ \E i \in 1..Len(r) : IsUnder(SubSeq(r, i, Len(r)), pattern.path)
  <2>1. PICK i \in 1..Len(r) : IsUnder(SubSeq(r, i, Len(r)), pattern.path)
    BY <1>4
  <2>2. Len(r) \in Nat /\ Len(p) \in Nat /\ Len(r) <= Len(p) /\ i \in 1..Len(p)
    BY DEF IsUnder, Path
  <2>3. Len(pattern.path) = 1
    BY <1>4, PatternsAssumption
  <2>4. r[i] = pattern.path[1]
    BY <2>1, <2>2, <2>3 DEF IsUnder, Path
  <2>5. p[i] = pattern.path[1]
    BY <2>2, <2>4 DEF IsUnder
  <2>6. IsUnder(SubSeq(p, i, Len(p)), pattern.path)
    BY <2>2, <2>3, <2>5 DEF IsUnder, Path
  <2> QED
    BY <1>4, <2>2, <2>6 DEF Excludes
<1> QED
  BY <1>1, <1>3, <1>4

\* What lies beyond the root of a walk, component by component.
LEMMA BeyondComponents ==
  ASSUME NEW p \in Path, NEW root \in Path, IsUnder(p, root)
  PROVE  /\ Beyond(p, root) \in Path
         /\ Len(Beyond(p, root)) = Len(p) - Len(root)
         /\ \A i \in 1..(Len(p) - Len(root)) : Beyond(p, root)[i] = p[Len(root) + i]
         /\ root = <<>> => Beyond(p, root) = p
<1>1. Len(p) \in Nat /\ Len(root) \in Nat /\ Len(root) <= Len(p)
  BY DEF IsUnder, Path
<1>2. /\ Beyond(p, root) \in Path
      /\ Len(Beyond(p, root)) = Len(p) - Len(root)
      /\ \A i \in 1..(Len(p) - Len(root)) : Beyond(p, root)[i] = p[Len(root) + i]
  BY <1>1 DEF Beyond, Path
<1>3. root = <<>> => Beyond(p, root) = p
  BY <1>1, <1>2, SamePath
<1> QED
  BY <1>2, <1>3

\* A directory above a mirrored path is mirrored.
LEMMA MirroredAbove ==
  ASSUME NEW p \in Path, NEW r \in Path, IsUnder(p, r), Mirrored(p)
  PROVE  Mirrored(r)
<1>1. ~Excludes(r)
  BY ExcludesBelow DEF Mirrored
<1>2. \A i \in DOMAIN r : i \in DOMAIN p /\ r[i] = p[i]
  BY DEF IsUnder, Path
<1>3. \A i \in DOMAIN p : p[i] \notin Temporary
  BY DEF Mirrored
<1> QED
  BY <1>1, <1>2, <1>3 DEF Mirrored

\* From the sync root itself an index has nothing but mirrored paths.
LEMMA WholeIsMirrored ==
  ASSUME NEW tree, Sound(tree), NEW p \in Indexed(tree, SubtreeScope(<<>>))
  PROVE  Mirrored(p)
<1>1. <<>> \in Path /\ <<>> \notin DOMAIN tree
  <2>1. <<>> \in Path
    BY DEF Path
  <2>2. <<>> \notin DOMAIN tree
    BY DEF Sound, IsTree
  <2> QED
    BY <2>1, <2>2
<1>2. p \in Walk(tree, <<>>)
  <2>1. Indexed(tree, SubtreeScope(<<>>)) = WalkScope(tree, <<>>)
    BY DEF Indexed, SubtreeScope
  <2> QED
    BY <1>1, <2>1 DEF WalkScope, WalkSubtree
<1>3. p \in Path /\ IsUnder(p, <<>>)
  BY <1>2 DEF Walk, Sound
<1>4. ~Excludes(p)
  BY <1>1, <1>2, <1>3, BeyondComponents DEF Walk
<1>5. \A i \in DOMAIN p : i \in (Len(<<>>) + 1)..Len(p)
  BY <1>3 DEF Path
<1>6. \A i \in DOMAIN p : p[i] \notin Temporary
  BY <1>2, <1>5 DEF Walk, IsTransferTemporary
<1> QED
  BY <1>4, <1>6 DEF Mirrored

-----------------------------------------------------------------------------
(* What a plan is made of *)

\* Each action, by what it is done at.
PlannedFor(a, s, t, d) ==
  /\ a.op \in Ops
  /\ a.op \in WriteOps =>
       /\ a.path \in DOMAIN s /\ a = Write(a.path, s[a.path])
       /\ a.path \in DOMAIN t => DiffersFrom(s[a.path], t[a.path])
  /\ a.op = "create_dir" => IsDir(s[a.path])
  /\ a.op = "copy_file" => IsFile(s[a.path])
  /\ a.op = "create_symlink" => IsLink(s[a.path]) /\ a.target = s[a.path].data
  /\ a.op = "remove" =>
       /\ d /\ a = Remove(a.path) /\ a.path \in DOMAIN t
       /\ a.path \in DOMAIN s => IsDir(s[a.path]) # IsDir(t[a.path])
  /\ a.op = "set_metadata" =>
       /\ a.path \in DOMAIN s /\ a = SetMetadata(a.path, s[a.path].mode)
       /\ HasMetadata(s[a.path])

\* What Write makes of an entry.
LEMMA WriteForms ==
  ASSUME NEW p, NEW e, e.kind \in {"dir", "file", "link"}
  PROVE  /\ Write(p, e).op \in WriteOps /\ Write(p, e).path = p
         /\ Write(p, e).op = "create_dir" => IsDir(e)
         /\ Write(p, e).op = "copy_file" => IsFile(e)
         /\ Write(p, e).op = "create_symlink" => IsLink(e) /\ Write(p, e).target = e.data
<1>1. CASE e.kind = "dir"
  BY <1>1 DEF Write, IsDir, IsFile, IsLink, CreateDir, WriteOps
<1>2. CASE e.kind = "file"
  BY <1>2 DEF Write, IsDir, IsFile, IsLink, CopyFile, WriteOps
<1>3. CASE e.kind = "link"
  BY <1>3 DEF Write, IsDir, IsFile, IsLink, CreateSymlink, WriteOps
<1> QED
  BY <1>1, <1>2, <1>3

LEMMA PlanMade ==
  ASSUME NEW s, NEW t, NEW d \in BOOLEAN, NEW sc, HasKinds(s), NEW a \in Plan(s, t, d, sc)
  PROVE  PlannedFor(a, s, t, d) /\ a.path \in DOMAIN s \cup DOMAIN t
<1> DEFINE candidates == UNION {Beneath(DOMAIN s, r) : r \in sc.roots}
<1>1. candidates \subseteq DOMAIN s
  BY DEF Beneath
<1>2. \/ \E p \in candidates : a \in Comparison(s, t, d, p)
      \/ \E p \in candidates : a \in MetadataChange(s, t, p)
      \/ d /\ \E p \in Extraneous(s, t, sc) : a = Remove(p)
  BY DEF Plan
<1> HIDE DEF candidates
<1>3. "remove" \notin WriteOps /\ "set_metadata" \notin WriteOps
  BY DEF WriteOps
<1>4. CASE \E p \in candidates : a \in Comparison(s, t, d, p)
  <2>1. PICK p \in candidates : a \in Comparison(s, t, d, p)
    BY <1>4
  <2>2. p \in DOMAIN s /\ (p \in DOMAIN t => DiffersFrom(s[p], t[p]))
    BY <1>1, <2>1 DEF Comparison, NeedsReplacing
  <2>3. CASE a = Write(p, s[p])
    <3>1. s[p].kind \in {"dir", "file", "link"}
      BY <2>2 DEF HasKinds, IsEntry
    <3>2. /\ a.op \in WriteOps /\ a.path = p
          /\ a.op = "create_dir" => IsDir(s[p])
          /\ a.op = "copy_file" => IsFile(s[p])
          /\ a.op = "create_symlink" => IsLink(s[p]) /\ a.target = s[p].data
      BY <2>3, <3>1, WriteForms
    <3>3. a.op \in Ops /\ a.op # "remove" /\ a.op # "set_metadata"
      BY <1>3, <3>2 DEF Ops
    <3> QED
      BY <2>2, <2>3, <3>2, <3>3 DEF PlannedFor
  <2>4. CASE a = Remove(p) /\ d /\ p \in DOMAIN t /\ IsDir(s[p]) # IsDir(t[p])
    <3>1. a.op = "remove" /\ a.path = p
      BY <2>4 DEF Remove
    <3> QED
      BY <1>3, <2>2, <2>4, <3>1 DEF PlannedFor, Ops
  <2> QED
    BY <2>1, <2>3, <2>4 DEF Comparison
<1>5. CASE \E p \in candidates : a \in MetadataChange(s, t, p)
  <2>1. PICK p \in candidates : a = SetMetadata(p, s[p].mode) /\ HasMetadata(s[p])
    BY <1>5, Zenon DEF MetadataChange
  <2>2. a.op = "set_metadata" /\ a.path = p /\ p \in DOMAIN s
    BY <1>1, <2>1 DEF SetMetadata
  <2> QED
    BY <1>3, <2>1, <2>2 DEF PlannedFor, Ops
<1>6. CASE d /\ \E p \in Extraneous(s, t, sc) : a = Remove(p)
  <2>1. PICK p \in Extraneous(s, t, sc) : a = Remove(p)
    BY <1>6
  <2>2. p \in DOMAIN t \ DOMAIN s
    BY DEF Extraneous, Beneath
  <2>3. a.op = "remove" /\ a.path = p
    BY <2>1 DEF Remove
  <2> QED
    BY <1>3, <1>6, <2>1, <2>2, <2>3 DEF PlannedFor, Ops
<1> QED
  BY <1>2, <1>4, <1>5, <1>6

\* And the other way around: what a difference has planned for it.
LEMMA PlanHas ==
  ASSUME NEW s, NEW t, NEW d \in BOOLEAN, NEW sc, NEW root \in sc.roots, NEW p, IsUnder(p, root)
  PROVE  /\ p \in DOMAIN s /\ (p \in DOMAIN t => DiffersFrom(s[p], t[p])) =>
              Write(p, s[p]) \in Plan(s, t, d, sc)
         /\ /\ p \in DOMAIN s /\ Preserve /\ HasMetadata(s[p])
            /\ p \in DOMAIN t /\ HasMetadata(t[p]) => MetadataDiffers(s[p], t[p])
            => SetMetadata(p, s[p].mode) \in Plan(s, t, d, sc)
         /\ d /\ p \in DOMAIN t \ DOMAIN s => Remove(p) \in Plan(s, t, d, sc)
         /\ d /\ p \in DOMAIN s \cap DOMAIN t /\ IsDir(s[p]) # IsDir(t[p]) =>
              Remove(p) \in Plan(s, t, d, sc)
<1> DEFINE candidates == UNION {Beneath(DOMAIN s, r) : r \in sc.roots}
<1>1. p \in DOMAIN s => p \in candidates
  BY DEF Beneath
<1>2. \A x :
        \/ \E q \in candidates : x \in Comparison(s, t, d, q)
        \/ \E q \in candidates : x \in MetadataChange(s, t, q)
        \/ d /\ \E q \in Extraneous(s, t, sc) : x = Remove(q)
        => x \in Plan(s, t, d, sc)
  BY DEF Plan
<1> HIDE DEF candidates
<1>3. ASSUME p \in DOMAIN s /\ (p \in DOMAIN t => DiffersFrom(s[p], t[p]))
      PROVE  Write(p, s[p]) \in Plan(s, t, d, sc)
  <2>1. Write(p, s[p]) \in Comparison(s, t, d, p)
    BY <1>3 DEF Comparison, NeedsReplacing
  <2> QED
    BY <1>1, <1>2, <1>3, <2>1
<1>4. ASSUME p \in DOMAIN s, Preserve, HasMetadata(s[p]),
             p \in DOMAIN t /\ HasMetadata(t[p]) => MetadataDiffers(s[p], t[p])
      PROVE  SetMetadata(p, s[p].mode) \in Plan(s, t, d, sc)
  <2>1. SetMetadata(p, s[p].mode) \in MetadataChange(s, t, p)
    BY <1>4, Zenon DEF MetadataChange
  <2> QED
    BY <1>1, <1>2, <1>4, <2>1
<1>5. ASSUME d /\ p \in DOMAIN t \ DOMAIN s
      PROVE  Remove(p) \in Plan(s, t, d, sc)
  <2>1. p \in Extraneous(s, t, sc)
    BY <1>5 DEF Extraneous, Beneath
  <2> QED
    BY <1>2, <1>5, <2>1
<1>6. ASSUME d /\ p \in DOMAIN s \cap DOMAIN t /\ IsDir(s[p]) # IsDir(t[p])
      PROVE  Remove(p) \in Plan(s, t, d, sc)
  <2>1. DiffersFrom(s[p], t[p])
    BY <1>6 DEF DiffersFrom, IsDir
  <2>2. Remove(p) \in Comparison(s, t, d, p)
    BY <1>6, <2>1 DEF Comparison, NeedsReplacing
  <2> QED
    BY <1>1, <1>2, <1>6, <2>2
<1> QED
  BY <1>3, <1>4, <1>5, <1>6

-----------------------------------------------------------------------------
(* What an action makes of a tree *)

\* A prefix of a path, by its length.
LEMMA Prefixes ==
  ASSUME NEW p \in Path, NEW i \in 1..Len(p)
  PROVE  /\ SubSeq(p, 1, i) \in Path /\ Len(SubSeq(p, 1, i)) = i /\ SubSeq(p, 1, i) # <<>>
         /\ IsUnder(p, SubSeq(p, 1, i))
         /\ i = 1 => Parent(SubSeq(p, 1, i)) = <<>>
         /\ i # 1 => i - 1 \in 1..(Len(p) - 1) /\ Parent(SubSeq(p, 1, i)) = SubSeq(p, 1, i - 1)
<1>1. Len(p) \in Nat /\ i \in 0..Len(p)
  BY DEF Path
<1> DEFINE q == SubSeq(p, 1, i)
<1>2. q \in Path /\ Len(q) = i /\ \A k \in 1..i : q[k] = p[k]
  BY <1>1, PrefixProperties DEF PrefixOf
<1>3. q # <<>>
  <2>1. Len(q) # 0
    BY <1>2
  <2> QED
    BY <2>1
<1>4. IsUnder(p, q)
  BY <1>1, <1>2 DEF IsUnder
<1> DEFINE r == SubSeq(q, 1, i - 1)
<1>5. Parent(q) = r
  BY <1>2, <1>3 DEF Parent
<1>6. i - 1 \in 0..Len(q)
  BY <1>1, <1>2
<1>7. r \in Path /\ Len(r) = i - 1 /\ \A k \in 1..(i - 1) : r[k] = q[k]
  BY <1>2, <1>6, PrefixProperties DEF PrefixOf
<1>8. ASSUME i # 1
      PROVE  i - 1 \in 1..(Len(p) - 1) /\ r = SubSeq(p, 1, i - 1)
  <2>1. i - 1 \in 1..(Len(p) - 1) /\ i - 1 \in 0..Len(p)
    BY <1>1, <1>8
  <2> DEFINE b == SubSeq(p, 1, i - 1)
  <2>2. b \in Path /\ Len(b) = i - 1 /\ \A k \in 1..(i - 1) : b[k] = p[k]
    BY <2>1, PrefixProperties DEF PrefixOf
  <2> HIDE DEF b, r, q
  <2>3. \A k \in 1..(i - 1) : r[k] = b[k]
    BY <1>1, <1>2, <1>7, <2>2
  <2>4. r = b
    BY <1>7, <2>2, <2>3, SamePath
  <2> QED
    BY <2>1, <2>4 DEF b
<1>9. i = 1 => r = <<>>
  BY <1>7 DEF Path
<1> QED
  BY <1>2, <1>3, <1>4, <1>5, <1>8, <1>9

\* create_dir_all adds directories on the way to a path and nothing else.
AddsParents(t, u, p) ==
  /\ \A q \in DOMAIN t : q \in DOMAIN u /\ u[q] = t[q]
  /\ \A q \in DOMAIN u \ DOMAIN t : q \in Path /\ q # p /\ IsUnder(p, q) /\ u[q] = NewDir

LEMMA NewDirIsDir == IsDir(NewDir) /\ IsEntry(NewDir)
BY DEF NewDir, Fresh, IsDir, IsEntry

LEMMA MissingAreAbove ==
  ASSUME NEW tree, NEW p \in Path, NEW q \in MissingAncestors(tree, p)
  PROVE  \E i \in 1..Len(p) : i # Len(p) /\ q = SubSeq(p, 1, i) /\ q \in Path /\ q # p /\ IsUnder(p, q)
<1>1. PICK i \in 1..(Len(p) - 1) : q = SubSeq(p, 1, i)
  BY DEF MissingAncestors
<1>2. Len(p) \in Nat /\ i \in 1..Len(p) /\ i # Len(p)
  BY DEF Path
<1>3. q \in Path /\ Len(q) = i /\ IsUnder(p, q)
  BY <1>1, <1>2, Prefixes
<1> QED
  BY <1>1, <1>2, <1>3

LEMMA ParentsMade ==
  ASSUME NEW tree, Sound(tree), NEW p \in Path, p # <<>>, Reachable(tree, p)
  PROVE  LET u == WithParents(tree, p)
         IN /\ Sound(u) /\ AddsParents(tree, u, p)
            /\ DOMAIN u = DOMAIN tree \cup MissingAncestors(tree, p)
            /\ Parent(p) = <<>> \/ (Parent(p) \in DOMAIN u /\ IsDir(u[Parent(p)]))
<1> DEFINE u == WithParents(tree, p)
<1>1. /\ DOMAIN u = DOMAIN tree \cup MissingAncestors(tree, p)
      /\ \A q \in DOMAIN tree : u[q] = tree[q]
      /\ \A q \in DOMAIN u \ DOMAIN tree : q \in MissingAncestors(tree, p) /\ u[q] = NewDir
  BY DEF WithParents
<1> HIDE DEF u
<1>2. AddsParents(tree, u, p)
  <2>1. \A q \in DOMAIN u \ DOMAIN tree : q \in Path /\ q # p /\ IsUnder(p, q)
    BY <1>1, MissingAreAbove
  <2> QED
    BY <1>1, <2>1 DEF AddsParents
<1>3. Len(p) \in Nat /\ Len(p) \in 1..Len(p)
  BY DEF Path
<1>4. \A i \in 1..Len(p) :
        i # Len(p) => SubSeq(p, 1, i) \in DOMAIN u /\ IsDir(u[SubSeq(p, 1, i)])
  <2> SUFFICES ASSUME NEW i \in 1..Len(p), i # Len(p)
               PROVE  SubSeq(p, 1, i) \in DOMAIN u /\ IsDir(u[SubSeq(p, 1, i)])
    OBVIOUS
  <2> DEFINE q == SubSeq(p, 1, i)
  <2>1. q \in Path /\ Len(q) = i /\ IsUnder(p, q)
    BY Prefixes
  <2>2. q # p
    BY <2>1
  <2>3. i \in 1..(Len(p) - 1)
    BY <1>3
  <2>4. q \in DOMAIN tree \/ q \in MissingAncestors(tree, p)
    BY <2>3 DEF MissingAncestors
  <2> HIDE DEF q
  <2>5. CASE q \in DOMAIN tree
    <3>1. IsDir(tree[q])
      BY <2>1, <2>2, <2>5 DEF Reachable, Ancestors
    <3> QED
      BY <1>1, <2>5, <3>1 DEF q
  <2>6. CASE q \notin DOMAIN tree
    BY <1>1, <2>4, <2>6, NewDirIsDir DEF q
  <2> QED
    BY <2>5, <2>6
<1>5. \A i \in 1..Len(p) :
        LET q == SubSeq(p, 1, i)
        IN Parent(q) = <<>> \/ (Parent(q) \in DOMAIN u /\ IsDir(u[Parent(q)]))
  <2> SUFFICES ASSUME NEW i \in 1..Len(p), i # 1
               PROVE  LET q == SubSeq(p, 1, i) IN Parent(q) \in DOMAIN u /\ IsDir(u[Parent(q)])
    BY Prefixes
  <2>1. i - 1 \in 1..(Len(p) - 1) /\ Parent(SubSeq(p, 1, i)) = SubSeq(p, 1, i - 1)
    BY Prefixes
  <2>2. i - 1 \in 1..Len(p) /\ i - 1 # Len(p)
    BY <1>3, <2>1
  <2> QED
    BY <1>4, <2>1, <2>2
<1>6. SubSeq(p, 1, Len(p)) = p
  BY <1>3 DEF Path
<1>7. Parent(p) = <<>> \/ (Parent(p) \in DOMAIN u /\ IsDir(u[Parent(p)]))
  BY <1>3, <1>5, <1>6
<1>8. Sound(u)
  <2>1. \A q \in DOMAIN tree :
          q # <<>> /\ (Parent(q) = <<>> \/ (Parent(q) \in DOMAIN u /\ IsDir(u[Parent(q)])))
    BY <1>1 DEF Sound, IsTree
  <2>2. \A q \in DOMAIN u \ DOMAIN tree :
          q # <<>> /\ (Parent(q) = <<>> \/ (Parent(q) \in DOMAIN u /\ IsDir(u[Parent(q)])))
    <3> TAKE q \in DOMAIN u \ DOMAIN tree
    <3>1. PICK i \in 1..Len(p) : q = SubSeq(p, 1, i)
      BY <1>1, MissingAreAbove
    <3> QED
      BY <1>5, <3>1, Prefixes
  <2>3. DOMAIN u \subseteq Path
    BY <1>2 DEF AddsParents, Sound
  <2>4. HasKinds(u)
    BY <1>1, NewDirIsDir DEF Sound, HasKinds, IsEntry
  <2> QED
    BY <2>1, <2>2, <2>3, <2>4 DEF Sound, IsTree
<1> QED
  BY <1>1, <1>2, <1>7, <1>8 DEF u

\* Nothing is beneath a path that may be cleared.
LEMMA NothingBeneath ==
  ASSUME NEW tree, Sound(tree), NEW p \in Path, p # <<>>, Clearable(tree, p),
         NEW q \in DOMAIN tree, q # p
  PROVE  Parent(q) # p
<1> SUFFICES ASSUME Parent(q) = p
             PROVE  FALSE
  OBVIOUS
<1>1. q \in Path /\ q # <<>> /\ p \in DOMAIN tree /\ IsDir(tree[p])
  BY DEF Sound, IsTree
<1>2. IsUnder(q, p)
  BY <1>1, ParentContains
<1> QED
  BY <1>1, <1>2 DEF Clearable, Empty

LEMMA PutSound ==
  ASSUME NEW tree, Sound(tree), NEW p \in Path, p # <<>>, NEW e, IsEntry(e),
         Parent(p) = <<>> \/ (Parent(p) \in DOMAIN tree /\ IsDir(tree[Parent(p)])),
         IsDir(e) \/ \A q \in DOMAIN tree : q # p => Parent(q) # p
  PROVE  /\ Sound(Put(tree, p, e))
         /\ DOMAIN Put(tree, p, e) = DOMAIN tree \cup {p} /\ Put(tree, p, e)[p] = e
         /\ \A q \in DOMAIN tree : q # p => Put(tree, p, e)[q] = tree[q]
<1> DEFINE u == Put(tree, p, e)
<1>1. /\ DOMAIN u = DOMAIN tree \cup {p} /\ u[p] = e
      /\ \A q \in DOMAIN tree : q # p => u[q] = tree[q]
  BY DEF Put
<1> HIDE DEF u
<1>2. Parent(p) # p
  <2>1. Len(p) \in Nat /\ Len(p) \in 1..Len(p) /\ SubSeq(p, 1, Len(p)) = p
    BY DEF Path
  <2>2. Len(p) # 1 => Parent(p) = SubSeq(p, 1, Len(p) - 1) /\ Len(p) - 1 \in 1..Len(p)
    <3>1. Len(p) # 1 =>
            Len(p) - 1 \in 1..(Len(p) - 1) /\ Parent(SubSeq(p, 1, Len(p))) = SubSeq(p, 1, Len(p) - 1)
      BY <2>1, Prefixes
    <3>2. \A n \in Nat : n - 1 \in 1..(n - 1) => n - 1 \in 1..n
      OBVIOUS
    <3>3. Parent(SubSeq(p, 1, Len(p))) = Parent(p)
      BY <2>1
    <3> QED
      BY <2>1, <3>1, <3>2, <3>3
  <2>3. Len(p) # 1 => Len(Parent(p)) = Len(p) - 1
    BY <2>2, Prefixes
  <2>4. Len(p) = 1 => Parent(p) = <<>>
    BY <2>1, Prefixes
  <2> QED
    BY <2>3, <2>4 DEF Path
<1>3. \A q \in DOMAIN u :
        q # <<>> /\ (Parent(q) = <<>> \/ (Parent(q) \in DOMAIN u /\ IsDir(u[Parent(q)])))
  <2> TAKE q \in DOMAIN u
  <2>1. CASE q = p
    BY <1>1, <1>2, <2>1
  <2>2. CASE q # p
    <3>1. q \in DOMAIN tree
      BY <1>1, <2>2
    <3>2. q # <<>> /\ (Parent(q) = <<>> \/ (Parent(q) \in DOMAIN tree /\ IsDir(tree[Parent(q)])))
      BY <3>1 DEF Sound, IsTree
    <3>3. CASE Parent(q) = p
      BY <1>1, <2>2, <3>1, <3>2, <3>3
    <3>4. CASE Parent(q) # p
      BY <1>1, <3>2, <3>4
    <3> QED
      BY <3>3, <3>4
  <2> QED
    BY <2>1, <2>2
<1>4. DOMAIN u \subseteq Path /\ HasKinds(u)
  BY <1>1 DEF Sound, HasKinds, IsEntry
<1>5. Sound(u)
  BY <1>3, <1>4 DEF Sound, IsTree
<1> QED
  BY <1>1, <1>5 DEF u

LEMMA DropSound ==
  ASSUME NEW tree, Sound(tree), NEW p \in Path, \A q \in DOMAIN tree : q # p => Parent(q) # p
  PROVE  /\ Sound(Drop(tree, p)) /\ DOMAIN Drop(tree, p) = DOMAIN tree \ {p}
         /\ \A q \in DOMAIN tree : q # p => Drop(tree, p)[q] = tree[q]
<1> DEFINE u == Drop(tree, p)
<1>1. DOMAIN u = DOMAIN tree \ {p} /\ \A q \in DOMAIN tree : q # p => u[q] = tree[q]
  BY DEF Drop
<1> HIDE DEF u
<1>2. IsTree(u)
  BY <1>1 DEF Sound, IsTree
<1>3. DOMAIN u \subseteq Path /\ HasKinds(u)
  BY <1>1 DEF Sound, HasKinds, IsEntry
<1> QED
  BY <1>1, <1>2, <1>3 DEF Sound, u

\* What has come, at its own path, of an action that succeeded.
Outcome(a, s, t, u) ==
  /\ a.op = "create_dir" => a.path \in DOMAIN u /\ IsDir(u[a.path])
  /\ a.op = "copy_file" =>
       /\ a.path \in DOMAIN s /\ a.path \in DOMAIN u
       /\ IsFile(u[a.path]) /\ u[a.path].data = s[a.path].data
  /\ a.op = "create_symlink" =>
       a.path \in DOMAIN u /\ IsLink(u[a.path]) /\ u[a.path].data = a.target
  /\ a.op = "remove" => a.path \notin DOMAIN u
  /\ a.op = "set_metadata" =>
       /\ a.path \in DOMAIN t /\ a.path \in DOMAIN u
       /\ u[a.path].kind = t[a.path].kind /\ u[a.path].data = t[a.path].data
       /\ u[a.path].mode = a.mode

\* And elsewhere: what was there is as it was, and what is new is a directory made on the way.
Elsewhere(a, t, u) ==
  /\ \A q \in DOMAIN t : q # a.path => q \in DOMAIN u /\ u[q] = t[q]
  /\ \A q \in DOMAIN u \ DOMAIN t :
       /\ a.op \in WriteOps
       /\ q # a.path => q \in Path /\ IsUnder(a.path, q) /\ u[q] = NewDir

\* What an action that failed has left at its own path.
Residue(a, t, u) ==
  /\ a.path \in DOMAIN u => a.path \in DOMAIN t /\ u[a.path] = t[a.path]
  /\ a.path \in DOMAIN t \ DOMAIN u => a.op = "create_symlink"

\* The parents of a path made, and an entry put there.
LEMMA MadeAndPut ==
  ASSUME NEW a, a.op \in WriteOps, a.path \in Path, a.path # <<>>,
         NEW t, Sound(t), Reachable(t, a.path), NEW e, IsEntry(e),
         a.path \in DOMAIN t => Clearable(t, a.path)
  PROVE  LET u == Put(WithParents(t, a.path), a.path, e)
         IN Sound(u) /\ Elsewhere(a, t, u) /\ a.path \in DOMAIN u /\ u[a.path] = e
<1> DEFINE p == a.path
           m == WithParents(t, p)
           u == Put(m, p, e)
<1>1. /\ Sound(m) /\ AddsParents(t, m, p)
      /\ Parent(p) = <<>> \/ (Parent(p) \in DOMAIN m /\ IsDir(m[Parent(p)]))
  BY ParentsMade
<1> HIDE DEF m
<1>2. \A q \in DOMAIN m : q # p => Parent(q) # p
  <2> TAKE q \in DOMAIN m
  <2>1. CASE q \in DOMAIN t
    BY <2>1, NothingBeneath DEF Clearable, Sound, IsTree
  <2>2. CASE q \notin DOMAIN t
    <3>1. q \in Path /\ q # p /\ IsUnder(p, q)
      BY <1>1, <2>2 DEF AddsParents
    <3>2. IsUnder(q, Parent(q)) /\ Parent(q) \in Path
      BY <3>1, ParentContains
    <3>3. Parent(q) = p => q = p
      <4> SUFFICES ASSUME Parent(q) = p
                   PROVE  q = p
        OBVIOUS
      <4>1. IsUnder(q, p)
        BY <3>2
      <4>2. Len(p) = Len(q) /\ \A i \in 1..Len(p) : p[i] = q[i]
        BY <3>1, <4>1 DEF IsUnder, Path
      <4> QED
        BY <3>1, <4>2, SamePath
    <3> QED
      BY <3>1, <3>3
  <2> QED
    BY <2>1, <2>2
<1>3. /\ Sound(u) /\ DOMAIN u = DOMAIN m \cup {p} /\ u[p] = e
      /\ \A q \in DOMAIN m : q # p => u[q] = m[q]
  <2>1. Sound(m) /\ p \in Path /\ p # <<>> /\ IsEntry(e)
    BY <1>1
  <2> HIDE DEF p, u
  <2>2. Sound(Put(m, p, e))
    BY <1>1, <1>2, <2>1, PutSound
  <2>3. DOMAIN Put(m, p, e) = DOMAIN m \cup {p} /\ Put(m, p, e)[p] = e
    BY DEF Put
  <2>4. \A q \in DOMAIN m : q # p => Put(m, p, e)[q] = m[q]
    BY DEF Put
  <2> QED
    BY <2>2, <2>3, <2>4 DEF u
<1> HIDE DEF u
<1>4. Elsewhere(a, t, u)
  BY <1>1, <1>3 DEF Elsewhere, AddsParents
<1> QED
  BY <1>3, <1>4 DEF u, m

LEMMA ActionsDo ==
  ASSUME Sound(target), NEW a, a.op \in Ops, a.path \in Path, a.path # <<>>, Possible(a)
  PROVE  /\ Sound(Applied(a)) /\ Elsewhere(a, target, Applied(a))
         /\ Outcome(a, source, target, Applied(a))
<1> DEFINE p == a.path
           u == Applied(a)
<1>1. Reachable(target, p)
  BY DEF Possible
<1>2. CASE a.op = "create_dir"
  <2>1. CASE p \in DOMAIN target
    <3>1. u = target /\ IsDir(target[p])
      BY <1>2, <2>1 DEF Applied, Possible
    <3> QED
      BY <1>2, <2>1, <3>1 DEF Elsewhere, Outcome
  <2>2. CASE p \notin DOMAIN target
    <3>1. u = Put(WithParents(target, p), p, NewDir)
      BY <1>2, <2>2 DEF Applied
    <3>2. Sound(u) /\ Elsewhere(a, target, u) /\ p \in DOMAIN u /\ u[p] = NewDir
      BY <1>1, <1>2, <2>2, <3>1, MadeAndPut, NewDirIsDir DEF WriteOps
    <3> HIDE DEF u
    <3>3. Outcome(a, source, target, u)
      BY <1>2, <3>2, NewDirIsDir DEF Outcome
    <3> QED
      BY <3>2, <3>3 DEF u
  <2> QED
    BY <2>1, <2>2
<1>3. CASE a.op = "copy_file"
  <2> DEFINE e == Fresh("file", source[p].data)
  <2>1. u = Put(WithParents(target, p), p, e)
    BY <1>3 DEF Applied
  <2>2. p \in DOMAIN source /\ (p \in DOMAIN target => ~IsDir(target[p]))
    BY <1>3 DEF Possible
  <2>3. IsEntry(e) /\ IsFile(e) /\ e.data = source[p].data
    BY DEF IsEntry, Fresh, IsFile
  <2>4. p \in DOMAIN target => Clearable(target, p)
    BY <2>2 DEF Clearable
  <2> HIDE DEF e
  <2>5. Sound(u) /\ Elsewhere(a, target, u) /\ p \in DOMAIN u /\ u[p] = e
    BY <1>1, <1>3, <2>1, <2>3, <2>4, MadeAndPut DEF WriteOps
  <2> HIDE DEF u
  <2>6. Outcome(a, source, target, u)
    BY <1>3, <2>2, <2>3, <2>5 DEF Outcome
  <2> QED
    BY <2>5, <2>6 DEF u
<1>4. CASE a.op = "create_symlink"
  <2> DEFINE e == [kind |-> "link", data |-> a.target, mode |-> 0]
  <2>1. u = Put(WithParents(target, p), p, e)
    BY <1>4 DEF Applied
  <2>2. IsEntry(e) /\ IsLink(e) /\ e.data = a.target
    BY DEF IsEntry, IsLink
  <2>3. Clearable(target, p)
    BY <1>4 DEF Possible
  <2> HIDE DEF e
  <2>4. Sound(u) /\ Elsewhere(a, target, u) /\ p \in DOMAIN u /\ u[p] = e
    BY <1>1, <1>4, <2>1, <2>2, <2>3, MadeAndPut DEF WriteOps
  <2> HIDE DEF u
  <2>5. Outcome(a, source, target, u)
    BY <1>4, <2>2, <2>4 DEF Outcome
  <2> QED
    BY <2>4, <2>5 DEF u
<1>5. CASE a.op = "remove"
  <2>1. u = Drop(target, p) /\ Clearable(target, p)
    BY <1>5 DEF Applied, Possible
  <2>2. \A q \in DOMAIN target : q # p => Parent(q) # p
    BY <2>1, NothingBeneath
  <2>3. /\ Sound(u) /\ DOMAIN u = DOMAIN target \ {p}
        /\ \A q \in DOMAIN target : q # p => u[q] = target[q]
    <3>1. p \in Path
      OBVIOUS
    <3> HIDE DEF p
    <3>2. Sound(Drop(target, p))
      BY <2>2, <3>1, DropSound
    <3>3. DOMAIN Drop(target, p) = DOMAIN target \ {p}
      BY <2>2, <3>1, DropSound
    <3>4. \A q \in DOMAIN target : q # p => Drop(target, p)[q] = target[q]
      BY <2>2, <3>1, DropSound
    <3> QED
      BY <2>1, <3>2, <3>3, <3>4
  <2> HIDE DEF u
  <2>4. Elsewhere(a, target, u) /\ Outcome(a, source, target, u)
    BY <1>5, <2>3 DEF Elsewhere, Outcome
  <2> QED
    BY <2>3, <2>4 DEF u
<1>6. CASE a.op = "set_metadata"
  <2>1. u = [target EXCEPT ![p].mode = a.mode] /\ p \in DOMAIN target
    BY <1>6 DEF Applied, Possible
  <2>2. DOMAIN target[p] = {"kind", "data", "mode"} /\ target[p].kind \in {"dir", "file", "link"}
    BY <2>1 DEF Sound, HasKinds, IsEntry
  <2>3. DOMAIN u = DOMAIN target /\ \A q \in DOMAIN target : q # p => u[q] = target[q]
    BY <2>1
  <2>4. u[p] = [target[p] EXCEPT !.mode = a.mode]
    BY <2>1
  <2> HIDE DEF u
  <2>5. /\ DOMAIN u[p] = {"kind", "data", "mode"} /\ u[p].mode = a.mode
        /\ u[p].kind = target[p].kind /\ u[p].data = target[p].data
    BY <2>2, <2>4
  <2>6. \A q \in DOMAIN u : q \in DOMAIN target /\ u[q].kind = target[q].kind
    BY <2>3, <2>5
  <2>7. \A q \in DOMAIN u : IsDir(u[q]) <=> IsDir(target[q])
    BY <2>6 DEF IsDir
  <2>8. IsTree(u)
    BY <2>3, <2>7 DEF Sound, IsTree
  <2>9. HasKinds(u) /\ DOMAIN u \subseteq Path
    BY <2>3, <2>5, <2>6 DEF Sound, HasKinds, IsEntry
  <2>10. Elsewhere(a, target, u) /\ Outcome(a, source, target, u)
    BY <1>6, <2>1, <2>3, <2>5 DEF Elsewhere, Outcome
  <2> QED
    BY <2>8, <2>9, <2>10 DEF Sound, u
<1> QED
  BY <1>2, <1>3, <1>4, <1>5, <1>6 DEF Ops, WriteOps

LEMMA FailuresLeave ==
  ASSUME Sound(target), NEW a, a.op \in Ops, a.path \in Path, a.path # <<>>, NEW u \in Left(a)
  PROVE  Sound(u) /\ Elsewhere(a, target, u) /\ Residue(a, target, u)
<1> DEFINE p == a.path
<1>1. \/ u = target
      \/ /\ Reachable(target, p) /\ a.op \in WriteOps
         /\ \E i \in 1..Len(p) : u = WithParents(target, SubSeq(p, 1, i))
      \/ /\ Reachable(target, p) /\ a.op = "create_symlink" /\ Clearable(target, p)
         /\ u = Drop(WithParents(target, p), p)
  BY DEF Left, WriteOps
<1>2. CASE u = target
  BY <1>2 DEF Elsewhere, Residue
<1>3. CASE /\ Reachable(target, p) /\ a.op \in WriteOps
           /\ \E i \in 1..Len(p) : u = WithParents(target, SubSeq(p, 1, i))
  <2>1. PICK i \in 1..Len(p) : u = WithParents(target, SubSeq(p, 1, i))
    BY <1>3
  <2> DEFINE r == SubSeq(p, 1, i)
  <2>2. r \in Path /\ r # <<>> /\ IsUnder(p, r)
    BY Prefixes
  <2>3. \A q \in Path : IsUnder(r, q) /\ q # r => IsUnder(p, q) /\ q # p
    <3> TAKE q \in Path
    <3> HAVE IsUnder(r, q) /\ q # r
    <3>1. IsUnder(p, q)
      BY <2>2, UnderIsPreorder
    <3>2. q = p => Len(p) = Len(r)
      BY <2>2 DEF IsUnder, Path
    <3>3. q = p => q = r
      BY <2>2, <3>2, SamePath DEF IsUnder
    <3> QED
      BY <3>1, <3>3
  <2> HIDE DEF r
  <2>4. Reachable(target, r)
    BY <1>3, <2>3 DEF Reachable, Ancestors, Sound
  <2>5. Sound(u) /\ AddsParents(target, u, r)
    BY <2>1, <2>2, <2>4, ParentsMade DEF r
  <2>6. Elsewhere(a, target, u)
    BY <1>3, <2>3, <2>5 DEF AddsParents, Elsewhere
  <2>7. Residue(a, target, u)
    BY <2>3, <2>5 DEF AddsParents, Residue
  <2> QED
    BY <2>5, <2>6, <2>7
<1>4. CASE /\ Reachable(target, p) /\ a.op = "create_symlink" /\ Clearable(target, p)
           /\ u = Drop(WithParents(target, p), p)
  <2> DEFINE m == WithParents(target, p)
  <2>1. Sound(m) /\ AddsParents(target, m, p)
    BY <1>4, ParentsMade
  <2>2. u = Drop(m, p)
    BY <1>4
  <2> HIDE DEF m
  <2>3. \A q \in DOMAIN m : q # p => Parent(q) # p
    <3> TAKE q \in DOMAIN m
    <3>1. CASE q \in DOMAIN target
      BY <1>4, <3>1, NothingBeneath
    <3>2. CASE q \notin DOMAIN target
      <4>1. q \in Path /\ q # p /\ IsUnder(p, q)
        BY <2>1, <3>2 DEF AddsParents
      <4>2. IsUnder(q, Parent(q)) /\ Parent(q) \in Path
        BY <4>1, ParentContains
      <4>3. ASSUME Parent(q) = p
            PROVE  q = p
        <5>1. IsUnder(q, p)
          BY <4>2, <4>3
        <5>2. Len(p) = Len(q) /\ \A i \in 1..Len(p) : p[i] = q[i]
          BY <4>1, <5>1 DEF IsUnder, Path
        <5> QED
          BY <4>1, <5>2, SamePath
      <4> QED
        BY <4>1, <4>3
    <3> QED
      BY <3>1, <3>2
  <2>4. /\ Sound(u) /\ DOMAIN u = DOMAIN m \ {p}
        /\ \A q \in DOMAIN m : q # p => u[q] = m[q]
    BY <2>1, <2>2, <2>3, DropSound
  <2>5. "create_symlink" \in WriteOps
    BY DEF WriteOps
  <2>6. Elsewhere(a, target, u)
    BY <1>4, <2>1, <2>4, <2>5 DEF Elsewhere, AddsParents
  <2>7. Residue(a, target, u)
    BY <1>4, <2>4 DEF Residue
  <2> QED
    BY <2>4, <2>6, <2>7
<1> QED
  BY <1>1, <1>2, <1>3, <1>4

-----------------------------------------------------------------------------
(* Types, and what every step of the plan does *)

Formed ==
  /\ Sound(target) /\ missing \subseteq DOMAIN before /\ vanished \in BOOLEAN
  /\ delete \in Deletes
  /\ stage \in {"index source", "walk source", "index target", "apply", "done", "error"}
  /\ \A a \in plan : a.op \in Ops /\ a.path \in Path /\ a.path # <<>>
  /\ failed \subseteq Path
  /\ mounted \in BOOLEAN /\ steady \in BOOLEAN /\ changes \in 0..MaxChanges
  /\ faults \in 0..MaxFaults /\ lost \in 0..MaxFaults
  /\ stage = "index target" => DOMAIN sourceIndex \subseteq Path \ {<<>>}

TInv == IInv /\ Formed

Step(a) == ApplySucceeds(a) \/ ApplyFails(a) \/ Unanswered(a)

\* What is common to an action that succeeds, one that fails and one whose reply is lost.
Stepped(a) ==
  /\ stage = "apply" /\ Turn(a)
  /\ UNCHANGED <<source, mounted, delete, scope, stage, sourceIndex, steady, before, missing, vanished, changes>>
  /\ plan' \subseteq plan /\ plan \subseteq plan' \cup {a}
  /\ failed \subseteq failed' /\ failed' \subseteq failed \cup {a.path}
  /\ Sound(target') /\ Elsewhere(a, target, target')
  /\ \/ Outcome(a, source, target, target') /\ failed' = failed
     \/ a.path \in failed' /\ Residue(a, target, target')
  /\ faults' = 0 => faults = 0 /\ (failed' # failed => ~Possible(a))

LEMMA EachStep ==
  ASSUME TInv, NEW a \in plan, Step(a)
  PROVE  Stepped(a) /\ faults' \in 0..MaxFaults /\ lost' \in 0..MaxFaults
<1>1. Sound(target) /\ a.op \in Ops /\ a.path \in Path /\ a.path # <<>>
  BY DEF TInv, Formed
<1>2. /\ faults \in 0..MaxFaults /\ lost \in 0..MaxFaults /\ MaxFaults \in Nat
  BY BoundsAssumption DEF TInv, Formed
<1>3. CASE ApplySucceeds(a)
  <2>1. /\ stage = "apply" /\ Turn(a) /\ Possible(a) /\ target' = Applied(a) /\ plan' = plan \ {a}
        /\ failed' = failed /\ UNCHANGED <<faults, lost>>
        /\ UNCHANGED <<source, mounted, delete, scope, stage, sourceIndex, steady, before, missing, vanished, changes>>
    BY <1>3 DEF ApplySucceeds, Turn, indexes, ghosts, counters
  <2>2. /\ Sound(target') /\ Elsewhere(a, target, target')
        /\ Outcome(a, source, target, target')
    BY <1>1, <2>1, ActionsDo
  <2> QED
    BY <1>2, <2>1, <2>2 DEF Stepped
<1>4. CASE Unanswered(a)
  <2>1. /\ stage = "apply" /\ Turn(a) /\ Possible(a) /\ target' = Applied(a) /\ plan' = plan
        /\ failed' = failed /\ UNCHANGED faults /\ faults + lost < MaxFaults /\ lost' = lost + 1
        /\ UNCHANGED <<source, mounted, delete, scope, stage, sourceIndex, steady, before, missing, vanished, changes>>
    BY <1>4 DEF Unanswered, Turn, indexes, ghosts
  <2>2. /\ Sound(target') /\ Elsewhere(a, target, target')
        /\ Outcome(a, source, target, target')
    BY <1>1, <2>1, ActionsDo
  <2>3. lost' \in 0..MaxFaults
    BY <1>2, <2>1
  <2> QED
    BY <1>2, <2>1, <2>2, <2>3 DEF Stepped
<1>5. CASE ApplyFails(a)
  <2>1. /\ stage = "apply" /\ Turn(a) /\ target' \in Left(a) /\ plan' = plan \ {a}
        /\ failed' = failed \cup {a.path} /\ UNCHANGED lost
        /\ UNCHANGED <<source, mounted, delete, scope, stage, sourceIndex, steady, before, missing, vanished, changes>>
    BY <1>5 DEF ApplyFails, Turn, indexes, ghosts
  <2>2. Sound(target') /\ Elsewhere(a, target, target') /\ Residue(a, target, target')
    BY <1>1, <2>1, FailuresLeave
  <2>3. CASE Possible(a)
    <3>1. faults + lost < MaxFaults /\ faults' = faults + 1
      BY <1>5, <2>3 DEF ApplyFails, Fault
    <3>2. faults' \in 0..MaxFaults /\ faults' # 0
      BY <1>2, <3>1
    <3> QED
      BY <1>2, <2>1, <2>2, <3>2 DEF Stepped
  <2>4. CASE ~Possible(a)
    <3>1. faults' = faults
      BY <1>5, <2>4 DEF ApplyFails
    <3> QED
      BY <1>2, <2>1, <2>2, <2>4, <3>1 DEF Stepped
  <2> QED
    BY <2>3, <2>4
<1> QED
  BY <1>3, <1>4, <1>5 DEF Step

LEMMA FormedInitially == Init => Formed
<1> SUFFICES ASSUME Init
             PROVE  Formed
  OBVIOUS
<1>1. target \in Trees /\ source \in Trees /\ before = target /\ missing = DOMAIN target \ DOMAIN source
  BY DEF Init
<1>2. Sound(target)
  BY <1>1, TreesAreSound
<1>3. 0 \in 0..MaxChanges /\ 0 \in 0..MaxFaults
  BY BoundsAssumption
<1>4. missing \subseteq DOMAIN before
  BY <1>1
<1>5. /\ delete \in Deletes /\ stage = "index source" /\ plan = {} /\ failed = {}
      /\ mounted = TRUE /\ steady = TRUE /\ vanished = FALSE /\ changes = 0 /\ faults = 0 /\ lost = 0
  BY DEF Init
<1> QED
  BY <1>2, <1>3, <1>4, <1>5 DEF Formed

LEMMA FormedKept ==
  ASSUME TInv, Next
  PROVE  Formed'
<1>1. IInv /\ Formed
  BY DEF TInv
<1>2. CASE IndexSource
  <2>1. /\ stage' = "index target"
        /\ UNCHANGED <<target, mounted, delete, plan, failed, steady, before, missing, vanished, changes, faults, lost>>
    BY <1>2 DEF IndexSource, disk, ghosts, counters
  <2>2. \A p \in DOMAIN sourceIndex' : \E tree \in met : p \in Indexed(tree, scope)
    BY <1>1, <1>2, WalkFinds
  <2>3. \A tree \in met : DOMAIN tree \subseteq Path \ {<<>>}
    BY <1>1, MetAreSound DEF Sound, IsTree
  <2>4. DOMAIN sourceIndex' \subseteq Path \ {<<>>}
    BY <2>2, <2>3, IndexedHeld
  <2> QED
    BY <1>1, <2>1, <2>4 DEF Formed
<1>8. CASE CheckRoot
  <2>1. /\ stage' = "walk source"
        /\ UNCHANGED <<target, mounted, delete, plan, failed, steady, before, missing, vanished, changes, faults, lost>>
    BY <1>8 DEF CheckRoot, disk, ghosts, counters
  <2> QED
    BY <1>1, <2>1 DEF Formed
<1>3. CASE IndexTarget
  <2>1. /\ stage = "index target" /\ stage' = "apply"
        /\ targetIndex' = IndexScope(target, scope)
        /\ plan' = Plan(sourceIndex, targetIndex', delete, scope)
        /\ UNCHANGED <<target, mounted, delete, failed, steady, before, missing, vanished, changes, faults, lost>>
    BY <1>3 DEF IndexTarget, disk, ghosts, counters
  <2>2. DOMAIN targetIndex' = Indexed(target, scope)
    BY <2>1 DEF IndexScope
  <2>3. DOMAIN target \subseteq Path \ {<<>>} /\ DOMAIN sourceIndex \subseteq Path \ {<<>>}
    BY <1>1, <2>1 DEF Formed, Sound, IsTree
  <2>4. HasKinds(sourceIndex) /\ delete \in BOOLEAN
    BY <1>1, <2>1 DEF IInv, Seen, TreesOK
  <2>5. \A a \in plan' : a.op \in Ops /\ a.path \in DOMAIN sourceIndex \cup DOMAIN targetIndex'
    BY <2>1, <2>4, PlanMade DEF PlannedFor
  <2>6. \A a \in plan' : a.op \in Ops /\ a.path \in Path /\ a.path # <<>>
    BY <2>2, <2>3, <2>5, IndexedHeld
  <2> QED
    BY <1>1, <2>1, <2>6 DEF Formed
<1>4. CASE IndexFails
  <2>1. /\ stage' = "error"
        /\ UNCHANGED <<target, mounted, delete, plan, failed, steady, before, missing, vanished, changes, lost>>
    BY <1>4 DEF IndexFails, disk, ghosts
  <2>2. faults' \in 0..MaxFaults
    <3>1. faults \in 0..MaxFaults /\ lost \in 0..MaxFaults /\ MaxFaults \in Nat
      BY <1>1, BoundsAssumption DEF Formed
    <3>2. faults' = faults \/ (faults + lost < MaxFaults /\ faults' = faults + 1)
      BY <1>4 DEF IndexFails, Fault
    <3> QED
      BY <3>1, <3>2
  <2> QED
    BY <1>1, <2>1, <2>2 DEF Formed
<1>5. CASE Finish
  <2>1. /\ stage' = "done"
        /\ UNCHANGED <<target, mounted, delete, plan, failed, steady, before, missing, vanished, changes, faults, lost>>
    BY <1>5 DEF Finish, disk, ghosts, counters
  <2> QED
    BY <1>1, <2>1 DEF Formed
<1>6. CASE SourceChanges
  <2>1. /\ changes < MaxChanges /\ changes' = changes + 1 /\ steady' = FALSE
        /\ mounted' \in {mounted, FALSE}
        /\ missing' \subseteq missing \cup DOMAIN before
        /\ UNCHANGED <<target, delete, stage, sourceIndex, plan, failed, before, faults, lost>>
    BY <1>6 DEF SourceChanges, indexes
  <2>3. vanished' \in BOOLEAN
    BY <1>1, <1>6 DEF SourceChanges, Formed
  <2>2. changes' \in 0..MaxChanges
    <3>1. changes \in 0..MaxChanges /\ MaxChanges \in Nat
      BY <1>1, BoundsAssumption DEF Formed
    <3>2. changes < MaxChanges /\ changes' = changes + 1
      BY <2>1
    <3> QED
      BY <3>1, <3>2
  <2> QED
    BY <1>1, <2>1, <2>2, <2>3 DEF Formed
<1>7. ASSUME NEW a \in plan, Step(a)
      PROVE  Formed'
  <2>1. Stepped(a) /\ faults' \in 0..MaxFaults /\ lost' \in 0..MaxFaults
    BY <1>7, EachStep
  <2>2. a.path \in Path
    BY <1>1 DEF Formed
  <2> QED
    BY <1>1, <2>1, <2>2 DEF Stepped, Formed
<1> QED
  BY <1>2, <1>3, <1>4, <1>5, <1>6, <1>7, <1>8 DEF Next, Step

LEMMA TInvInvariant == Spec => []TInv
<1>1. Init => TInv
  BY Initially, FormedInitially DEF TInv
<1>2. TInv /\ [Next]_vars => TInv'
  <2> SUFFICES ASSUME TInv, [Next]_vars
               PROVE  TInv'
    OBVIOUS
  <2>1. IInv'
    BY Inductive DEF TInv
  <2>2. CASE Next
    BY <2>1, <2>2, FormedKept DEF TInv
  <2>3. CASE UNCHANGED vars
    BY <2>1, <2>3 DEF vars, TInv, Formed
  <2> QED
    BY <2>2, <2>3
<1> QED
  BY <1>1, <1>2, PTL DEF Spec

\* In every state of a pass both trees are trees, whatever has failed part of the way and
\* however often a request was issued again; and what is planned or reported is a path.
THEOREM PassTypes == Spec => []TypeOK
<1>1. TInv => TypeOK
  BY DEF TInv, IInv, Formed, TreesOK, Walking, Sound, TypeOK, Ops, WriteOps
<1> QED
  BY <1>1, TInvInvariant, PTL

-----------------------------------------------------------------------------
(* What is excluded is left alone *)

\* An index lists nothing that is excluded, but what the filter overlooks.
LEMMA NothingExcludedIndexed ==
  ASSUME scope \in Scopes, NEW tree, Sound(tree), NEW p \in Indexed(tree, scope), Excludes(p)
  PROVE  Overlooked(p)
<1>1. PICK root \in scope.roots :
        p \in (IF scope.kind = "paths" THEN StatPath(tree, root) ELSE WalkScope(tree, root))
  BY DEF Indexed
<1>2. root \in Path /\ scope.kind \in {"paths", "subtree"}
  BY ScopesAssumption
<1>3. scope.kind = "paths" => ~Excludes(root)
  BY <1>1 DEF StatPath
<1>4. p = root \/ p \in Walk(tree, root)
  BY <1>1 DEF StatPath, WalkScope, WalkSubtree
<1>5. CASE p = root
  BY <1>2, <1>3, <1>5, UnderIsPreorder DEF Overlooked
<1>6. CASE p \in Walk(tree, root)
  BY <1>3, <1>6 DEF Walk, Overlooked
<1> QED
  BY <1>4, <1>5, <1>6

\* And it overlooks what is above what it overlooks.
LEMMA OverlookedAbove ==
  ASSUME scope \in Scopes, NEW q \in Path, NEW p \in Path, IsUnder(q, p), Excludes(p), Overlooked(q)
  PROVE  Overlooked(p)
<1>1. PICK root \in scope.roots :
        \/ scope.kind = "subtree" /\ IsUnder(root, q)
        \/ /\ IsUnder(q, root) /\ q # root /\ ~Excludes(Beyond(q, root))
           /\ scope.kind = "paths" => ~Excludes(root)
  BY DEF Overlooked
<1>2. root \in Path /\ scope.kind \in {"paths", "subtree"}
  BY ScopesAssumption
<1>3. CASE scope.kind = "subtree" /\ IsUnder(root, q)
  <2>1. IsUnder(root, p)
    BY <1>2, <1>3, UnderIsPreorder
  <2> QED
    BY <1>3, <2>1 DEF Overlooked
<1>4. CASE /\ IsUnder(q, root) /\ ~Excludes(Beyond(q, root))
           /\ scope.kind = "paths" => ~Excludes(root)
  <2>1. CASE IsUnder(root, p)
    <3>1. scope.kind = "subtree"
      BY <1>2, <1>4, <2>1, ExcludesBelow
    <3> QED
      BY <2>1, <3>1 DEF Overlooked
  <2>2. CASE ~IsUnder(root, p)
    <3>1. IsUnder(p, root) /\ p # root
      BY <1>2, <1>4, <2>2, UnderIsPreorder DEF IsUnder, Path
    <3>2. Beyond(p, root) \in Path /\ Beyond(q, root) \in Path
      BY <1>2, <1>4, <3>1, BeyondComponents
    <3>3. IsUnder(Beyond(q, root), Beyond(p, root))
      <4>1. /\ Len(Beyond(p, root)) = Len(p) - Len(root) /\ Len(Beyond(q, root)) = Len(q) - Len(root)
            /\ \A i \in 1..(Len(p) - Len(root)) : Beyond(p, root)[i] = p[Len(root) + i]
            /\ \A i \in 1..(Len(q) - Len(root)) : Beyond(q, root)[i] = q[Len(root) + i]
        BY <1>2, <1>4, <3>1, BeyondComponents
      <4>2. Len(p) \in Nat /\ Len(q) \in Nat /\ Len(root) \in Nat /\ Len(p) <= Len(q) /\ Len(root) <= Len(p)
        BY <1>2, <3>1 DEF IsUnder, Path
      <4>3. \A i \in 1..Len(p) : p[i] = q[i]
        BY DEF IsUnder
      <4> HIDE DEF Beyond
      <4>4. \A i \in 1..(Len(p) - Len(root)) : Len(root) + i \in 1..Len(p) /\ i \in 1..(Len(q) - Len(root))
        BY <4>2
      <4>5. \A i \in 1..(Len(p) - Len(root)) : Beyond(q, root)[i] = Beyond(p, root)[i]
        BY <4>1, <4>3, <4>4
      <4> QED
        BY <4>1, <4>2, <4>5 DEF IsUnder
    <3>4. ~Excludes(Beyond(p, root))
      BY <1>4, <3>2, <3>3, ExcludesBelow
    <3> QED
      BY <1>4, <3>1, <3>4 DEF Overlooked
  <2> QED
    BY <2>1, <2>2
<1> QED
  BY <1>1, <1>3, <1>4

Spared(p) == Excludes(p) => Overlooked(p)

\* So nothing else that is excluded is indexed, or planned.
Unnamed ==
  /\ stage = "index target" => \A p \in DOMAIN sourceIndex : Spared(p)
  /\ \A a \in plan : Spared(a.path)

LEMMA UnnamedKept ==
  ASSUME TInv, Unnamed, Next
  PROVE  Unnamed'
<1>1. IInv /\ Sound(target) /\ scope \in Scopes /\ delete \in BOOLEAN
  BY DEF TInv, IInv, TreesOK, Formed
<1>7. scope' = scope
  BY <1>1 DEF Next, CheckRoot, IndexSource, IndexTarget, IndexFails, Finish, SourceChanges,
              ApplySucceeds, ApplyFails, Unanswered
<1>8. \A p : Spared(p)' <=> Spared(p)
  BY <1>7 DEF Spared, Overlooked
<1>9. \A tree : Sound(tree) => \A p \in Indexed(tree, scope) : Spared(p)
  BY <1>1, NothingExcludedIndexed DEF Spared
<1>2. CASE IndexSource
  <2>1. plan' = plan
    BY <1>2 DEF IndexSource
  <2>2. \A p \in DOMAIN sourceIndex' : \E tree \in met : p \in Indexed(tree, scope)
    BY <1>1, <1>2, WalkFinds
  <2>3. \A p \in DOMAIN sourceIndex' : Spared(p)
    BY <1>1, <1>9, <2>2, MetAreSound
  <2> QED
    BY <1>8, <2>1, <2>3 DEF Unnamed
<1>3. CASE IndexTarget
  <2>1. /\ stage = "index target" /\ stage' = "apply"
        /\ targetIndex' = IndexScope(target, scope)
        /\ plan' = Plan(sourceIndex, targetIndex', delete, scope)
    BY <1>3 DEF IndexTarget
  <2>2. DOMAIN targetIndex' = Indexed(target, scope)
    BY <2>1 DEF IndexScope
  <2>3. HasKinds(sourceIndex)
    BY <2>1 DEF TInv, IInv, Seen
  <2>4. \A a \in plan' : a.path \in DOMAIN sourceIndex \cup DOMAIN targetIndex'
    BY <1>1, <2>1, <2>3, PlanMade
  <2>5. \A p \in DOMAIN targetIndex' : Spared(p)
    BY <1>1, <1>9, <2>2
  <2>6. \A a \in plan' : Spared(a.path)
    BY <2>1, <2>4, <2>5 DEF Unnamed
  <2> QED
    BY <1>8, <2>1, <2>6 DEF Unnamed
<1>4. CASE CheckRoot \/ IndexFails \/ Finish
  BY <1>4, <1>8 DEF CheckRoot, IndexFails, Finish, Unnamed
<1>5. CASE SourceChanges
  BY <1>5, <1>8 DEF SourceChanges, Unnamed, indexes
<1>6. ASSUME NEW a \in plan, Step(a)
      PROVE  Unnamed'
  BY <1>6, <1>8, EachStep DEF Stepped, Unnamed
<1> QED
  BY <1>2, <1>3, <1>4, <1>5, <1>6 DEF Next, Step

LEMMA StepLeavesExcluded ==
  ASSUME TInv, Unnamed, Next
  PROVE  \A p \in DOMAIN target \cup DOMAIN target' :
           Excludes(p) /\ Touched(p) => Overlooked(p)
<1>1. CASE target' = target
  BY <1>1 DEF Touched
<1>2. ASSUME NEW a \in plan, Step(a), NEW p \in DOMAIN target \cup DOMAIN target', Excludes(p),
             ~Overlooked(p)
      PROVE  ~Touched(p)
  <2>1. Elsewhere(a, target, target')
    BY <1>2, EachStep DEF Stepped
  <2>2. a.path \in Path /\ Spared(a.path) /\ scope \in Scopes
    BY DEF TInv, IInv, TreesOK, Formed, Unnamed
  <2>3. p # a.path
    BY <1>2, <2>2 DEF Spared
  <2>4. p \in DOMAIN target
    <3> SUFFICES ASSUME p \notin DOMAIN target
                 PROVE  FALSE
      OBVIOUS
    <3>1. p \in Path /\ IsUnder(a.path, p)
      BY <1>2, <2>1, <2>3 DEF Elsewhere
    <3> QED
      BY <1>2, <2>2, <3>1, ExcludesBelow, OverlookedAbove DEF Spared
  <2> QED
    BY <2>1, <2>3, <2>4 DEF Elsewhere, Touched
<1>3. CASE CheckRoot \/ IndexSource \/ IndexTarget \/ IndexFails \/ Finish \/ SourceChanges
  <2>1. target' = target
    BY <1>3 DEF CheckRoot, IndexSource, IndexTarget, IndexFails, Finish, SourceChanges, disk
  <2> QED
    BY <1>1, <2>1
<1> QED
  BY <1>2, <1>3 DEF Next, Step

\* No step of a pass creates, changes or removes what an exclude pattern names, nor a
\* directory on the way to a path it writes; but what the filter overlooks: an excluded
\* directory that a rescan starts at, and what a pattern names from the sync root only, where a walk
\* begins below it.
THEOREM ExcludedAreUntouched == Spec => ExcludedUntouched
<1>1. Init => Unnamed
  BY DEF Init, Unnamed
<1>2. TInv /\ Unnamed /\ [Next]_vars => Unnamed'
  <2>1. CASE Next
    BY <2>1, UnnamedKept
  <2>2. CASE UNCHANGED vars
    BY <2>2 DEF vars, Unnamed, Spared, Overlooked
  <2> QED
    BY <2>1, <2>2
<1>3. TInv /\ Unnamed /\ [Next]_vars =>
        [\A p \in DOMAIN target \cup DOMAIN target' :
           Excludes(p) /\ Touched(p) => Overlooked(p)]_vars
  BY StepLeavesExcluded
<1> QED
  BY <1>1, <1>2, <1>3, TInvInvariant, PTL DEF Spec, ExcludedUntouched

-----------------------------------------------------------------------------
(* A pass over a source that keeps still *)

\* The plan as it was made, for a source that has kept still since.
Planned == Plan(IndexScope(source, scope), IndexScope(before, scope), delete, scope)

Steadily == steady /\ stage \in {"apply", "done"}

\* What the scope takes.
Covered == {p \in Path : Taken(p)}

\* The plan is carried out in its order: whatever comes after an action that is left is left.
Following ==
  /\ steady => mounted
  /\ steady /\ stage = "walk source" => met = {source}
  /\ steady /\ stage = "index target" => sourceIndex = IndexScope(source, scope)
  /\ stage = "done" => plan = {}
  /\ Steadily => plan \subseteq Planned
  /\ Steadily => \A b \in plan : \A a \in Planned : Precedes(b, a) => a \in plan

Matching(s, t, p) == p \in DOMAIN t /\ ~DiffersFrom(s[p], t[p])

OffMode(s, t, p) == HasMetadata(s[p]) /\ HasMetadata(t[p]) /\ MetadataDiffers(s[p], t[p])

\* The target had the same there when the pass began, or nothing.
Kept(s, b, p) == p \in DOMAIN b => ~DiffersFrom(s[p], b[p])

\* Each difference is still to be dealt with, or has been, or is reported.
Contents ==
  Steadily =>
    \A p \in DOMAIN source \cap Covered :
      Matching(source, target, p) \/ p \in failed \/ Write(p, source[p]) \in plan

Removals ==
  Steadily /\ delete =>
    \A p \in (DOMAIN target \ DOMAIN source) \cap Covered : p \in failed \/ Remove(p) \in plan

Modes ==
  Steadily =>
    \A p \in DOMAIN source \cap DOMAIN target \cap Covered :
      OffMode(source, target, p) /\ Kept(source, before, p) =>
        p \in failed \/ SetMetadata(p, source[p].mode) \in plan

\* What needs no replacing is never out of the way.
Undisturbed ==
  Steadily =>
    \A p \in DOMAIN source \cap DOMAIN before \cap Covered :
      Kept(source, before, p) => p \in DOMAIN target

AInv == Following /\ Contents /\ Removals /\ Modes /\ Undisturbed

\* What an action of that plan is for, in terms of the trees.
Meant(a) ==
  /\ a.op \in Ops
  /\ a.op \in WriteOps => a.path \in DOMAIN source /\ a = Write(a.path, source[a.path])
  /\ a.op \in WriteOps /\ a.path \in Covered \cap DOMAIN before =>
       DiffersFrom(source[a.path], before[a.path])
  /\ a.op = "create_dir" => IsDir(source[a.path])
  /\ a.op = "copy_file" => IsFile(source[a.path])
  /\ a.op = "create_symlink" => IsLink(source[a.path]) /\ a.target = source[a.path].data
  /\ a.op = "remove" => delete /\ a = Remove(a.path) /\ a.path \in DOMAIN before
  /\ a.op = "remove" /\ a.path \in Covered \cap DOMAIN source =>
       IsDir(source[a.path]) # IsDir(before[a.path])
  /\ a.op = "set_metadata" =>
       /\ a.path \in DOMAIN source /\ a = SetMetadata(a.path, source[a.path].mode)
       /\ HasMetadata(source[a.path])

LEMMA CoveredAreTaken ==
  ASSUME NEW p \in Path
  PROVE  p \in Covered <=> Taken(p)
BY DEF Covered

\* What the scope covers of a tree is indexed.
LEMMA CoveredIndexed ==
  ASSUME TInv, NEW tree, Sound(tree), NEW p \in DOMAIN tree \cap Covered
  PROVE  p \in Indexed(tree, scope)
<1>1. PICK root \in scope.roots :
        /\ IsUnder(p, root)
        /\ \/ p = root /\ ~Excludes(p)
           \/ p # root /\ ~Excludes(Beyond(p, root)) /\ ~IsTransferTemporary(p, root)
        /\ scope.kind = "paths" => ~Excludes(root)
  <2>1. p \in Path /\ p \in Covered
    BY DEF Sound
  <2> QED
    BY <2>1, CoveredAreTaken DEF Taken
<1>2. root \in Path /\ p \in Path /\ scope.kind \in {"paths", "subtree"}
  BY ScopesAssumption DEF TInv, IInv, TreesOK, Sound
<1>3. p \in IF scope.kind = "paths" THEN StatPath(tree, root) ELSE WalkScope(tree, root)
  <2>1. CASE p = root
    BY <1>1, <2>1 DEF StatPath, WalkScope, WalkSubtree
  <2>2. CASE p # root
    <3>1. root = <<>> \/ (root \in DOMAIN tree /\ IsDir(tree[root]))
      BY <1>1, <1>2, <2>2, AncestorsAreDirs
    <3>2. p \in WalkSubtree(tree, root)
      BY <1>1, <2>2 DEF WalkSubtree, Walk
    <3>3. root \notin DOMAIN tree \/ IsDir(tree[root])
      BY <3>1 DEF Sound, IsTree
    <3> QED
      BY <1>1, <3>1, <3>2, <3>3 DEF StatPath, WalkScope
  <2> QED
    BY <2>1, <2>2
<1> QED
  BY <1>1, <1>3 DEF Indexed

LEMMA PlannedMeans ==
  ASSUME TInv, NEW a \in Planned
  PROVE  Meant(a)
<1> DEFINE s == IndexScope(source, scope)
           t == IndexScope(before, scope)
<1>1. Sound(source) /\ Sound(before) /\ delete \in BOOLEAN
  BY DEF TInv, IInv, TreesOK
<1>2. /\ DOMAIN s = Indexed(source, scope) /\ \A p \in DOMAIN s : p \in DOMAIN source /\ s[p] = source[p]
      /\ DOMAIN t = Indexed(before, scope) /\ \A p \in DOMAIN t : p \in DOMAIN before /\ t[p] = before[p]
  BY IndexedHeld DEF IndexScope
<1>3. a \in Plan(s, t, delete, scope)
  BY DEF Planned
<1> HIDE DEF s, t
<1>4. HasKinds(s)
  BY <1>1, <1>2 DEF Sound, HasKinds, IsEntry
<1>5. PlannedFor(a, s, t, delete)
  BY <1>1, <1>3, <1>4, PlanMade
<1>6. /\ \A p \in DOMAIN source \cap Covered : p \in DOMAIN s
      /\ \A p \in DOMAIN before \cap Covered : p \in DOMAIN t
  BY <1>1, <1>2, CoveredIndexed
<1>7. CASE a.op \in WriteOps
  <2>1. a.op # "remove" /\ a.op # "set_metadata"
    BY <1>7 DEF WriteOps
  <2>2. /\ a.path \in DOMAIN source /\ s[a.path] = source[a.path] /\ a = Write(a.path, source[a.path])
        /\ a.path \in DOMAIN t => DiffersFrom(source[a.path], before[a.path])
    BY <1>2, <1>5, <1>7 DEF PlannedFor
  <2>3. /\ a.op = "create_dir" => IsDir(source[a.path])
        /\ a.op = "copy_file" => IsFile(source[a.path])
        /\ a.op = "create_symlink" => IsLink(source[a.path]) /\ a.target = source[a.path].data
    BY <1>5, <2>2 DEF PlannedFor
  <2> QED
    BY <1>6, <1>7, <2>1, <2>2, <2>3 DEF Meant, Ops
<1>8. CASE a.op = "remove"
  <2>1. a.op \notin WriteOps
    BY <1>8 DEF WriteOps
  <2>2. /\ delete /\ a = Remove(a.path) /\ a.path \in DOMAIN before /\ t[a.path] = before[a.path]
        /\ a.path \in DOMAIN s => IsDir(source[a.path]) # IsDir(before[a.path])
    BY <1>2, <1>5, <1>8 DEF PlannedFor
  <2> QED
    BY <1>6, <1>8, <2>1, <2>2 DEF Meant, Ops, WriteOps
<1>9. CASE a.op = "set_metadata"
  <2>1. a.op \notin WriteOps
    BY <1>9 DEF WriteOps
  <2>2. /\ a.path \in DOMAIN source /\ a = SetMetadata(a.path, source[a.path].mode)
        /\ HasMetadata(source[a.path])
    BY <1>2, <1>5, <1>9 DEF PlannedFor
  <2> QED
    BY <1>9, <2>1, <2>2 DEF Meant, Ops, WriteOps
<1> QED
  BY <1>5, <1>7, <1>8, <1>9 DEF PlannedFor, Ops

LEMMA PlannedHas ==
  ASSUME TInv, NEW p \in Covered
  PROVE  /\ p \in DOMAIN source /\ (p \in DOMAIN before => DiffersFrom(source[p], before[p])) =>
              Write(p, source[p]) \in Planned
         /\ /\ p \in DOMAIN source /\ Preserve /\ HasMetadata(source[p])
            /\ p \in DOMAIN before /\ HasMetadata(before[p]) => MetadataDiffers(source[p], before[p])
            => SetMetadata(p, source[p].mode) \in Planned
         /\ delete /\ p \in DOMAIN before \ DOMAIN source => Remove(p) \in Planned
         /\ delete /\ p \in DOMAIN source \cap DOMAIN before /\ IsDir(source[p]) # IsDir(before[p]) =>
              Remove(p) \in Planned
<1> DEFINE s == IndexScope(source, scope)
           t == IndexScope(before, scope)
<1>1. Sound(source) /\ Sound(before) /\ delete \in BOOLEAN
  BY DEF TInv, IInv, TreesOK
<1>2. /\ DOMAIN s = Indexed(source, scope) /\ \A q \in DOMAIN s : q \in DOMAIN source /\ s[q] = source[q]
      /\ DOMAIN t = Indexed(before, scope) /\ \A q \in DOMAIN t : q \in DOMAIN before /\ t[q] = before[q]
  BY IndexedHeld DEF IndexScope
<1>3. Planned = Plan(s, t, delete, scope)
  BY DEF Planned
<1> HIDE DEF s, t
<1>4. /\ p \in DOMAIN s <=> p \in DOMAIN source
      /\ p \in DOMAIN t <=> p \in DOMAIN before
  BY <1>1, <1>2, CoveredIndexed
<1>5. PICK root \in scope.roots : IsUnder(p, root)
  BY DEF Covered, Taken
<1>6. /\ p \in DOMAIN s /\ (p \in DOMAIN t => DiffersFrom(s[p], t[p])) =>
           Write(p, s[p]) \in Planned
      /\ /\ p \in DOMAIN s /\ Preserve /\ HasMetadata(s[p])
         /\ p \in DOMAIN t /\ HasMetadata(t[p]) => MetadataDiffers(s[p], t[p])
         => SetMetadata(p, s[p].mode) \in Planned
      /\ delete /\ p \in DOMAIN t \ DOMAIN s => Remove(p) \in Planned
      /\ delete /\ p \in DOMAIN s \cap DOMAIN t /\ IsDir(s[p]) # IsDir(t[p]) =>
           Remove(p) \in Planned
  BY <1>1, <1>3, <1>5, PlanHas
<1>7. /\ p \in DOMAIN source => s[p] = source[p]
      /\ p \in DOMAIN before => t[p] = before[p]
  BY <1>2, <1>4
<1> QED
  BY <1>4, <1>6, <1>7

\* What the order of a plan puts before what.
LEMMA Orders ==
  /\ \A a, b : a.op = "remove" /\ b.op \in WriteOps \cup {"set_metadata"} => Precedes(a, b)
  /\ \A a, b : a.op \in WriteOps /\ b.op = "set_metadata" => Precedes(a, b)
  /\ \A a, b : a.op = "remove" /\ b.op = "remove" /\ Len(a.path) > Len(b.path) => Precedes(a, b)
BY DEF Precedes, Group, WriteOps

LEMMA StepsFrame ==
  ASSUME NEW a, Stepped(a)
  PROVE  /\ Steadily' = Steadily /\ Covered' = Covered /\ Planned' = Planned
         /\ source' = source /\ before' = before /\ delete' = delete
<1>1. UNCHANGED <<source, delete, scope, stage, steady, before>>
  BY DEF Stepped
<1> QED
  BY <1>1 DEF Steadily, Covered, Taken, Planned

LEMMA FollowingKept ==
  ASSUME TInv, Following, NEW a \in plan, Stepped(a)
  PROVE  Following'
<1>1. /\ Steadily' = Steadily /\ Planned' = Planned
      /\ stage = "apply" /\ stage' = "apply" /\ steady' = steady /\ mounted' = mounted
      /\ plan' \subseteq plan /\ plan \subseteq plan' \cup {a} /\ Turn(a)
  BY StepsFrame DEF Stepped
<1>2. ASSUME Steadily
      PROVE  \A b \in plan' : \A c \in Planned : Precedes(b, c) => c \in plan'
  <2> SUFFICES ASSUME NEW b \in plan', NEW c \in Planned, Precedes(b, c)
               PROVE  c \in plan'
    OBVIOUS
  <2>1. c \in plan
    BY <1>1, <1>2 DEF Following
  <2>2. c # a
    BY <1>1 DEF Turn
  <2> QED
    BY <1>1, <2>1, <2>2
<1>3. steady' => mounted'
  BY <1>1 DEF Following
<1>4. Steadily' => plan' \subseteq Planned'
  BY <1>1 DEF Following
<1> QED
  BY <1>1, <1>2, <1>3, <1>4 DEF Following

\* What a step's action means.
LEMMA StepMeant ==
  ASSUME TInv, Following, Steadily, NEW a \in plan, Stepped(a)
  PROVE  /\ Meant(a) /\ a \in Planned
         /\ \A c \in Planned : Precedes(a, c) /\ c # a => c \in plan'
<1>1. a \in Planned
  BY DEF Following
<1>2. plan \subseteq plan' \cup {a}
  BY DEF Stepped
<1>3. \A c \in Planned : Precedes(a, c) /\ c # a => c \in plan'
  BY <1>2 DEF Following
<1> QED
  BY <1>1, <1>3, PlannedMeans

\* A write that succeeds leaves what the source has, but for the mode.
LEMMA WritesMatch ==
  ASSUME NEW a, Meant(a), NEW u, Outcome(a, source, target, u), a.op \in WriteOps
  PROVE  Matching(source, u, a.path)
<1>1. CASE a.op = "create_dir"
  BY <1>1 DEF Meant, Outcome, Matching, DiffersFrom, IsDir
<1>2. CASE a.op = "copy_file"
  BY <1>2 DEF Meant, Outcome, Matching, DiffersFrom, IsFile
<1>3. CASE a.op = "create_symlink"
  BY <1>3 DEF Meant, Outcome, Matching, DiffersFrom, IsLink
<1> QED
  BY <1>1, <1>2, <1>3 DEF WriteOps

LEMMA WriteOf ==
  ASSUME TInv, NEW p \in DOMAIN source
  PROVE  Write(p, source[p]).op \in WriteOps /\ Write(p, source[p]).path = p
<1>1. source[p].kind \in {"dir", "file", "link"}
  BY DEF TInv, IInv, TreesOK, Sound, HasKinds, IsEntry
<1> QED
  BY <1>1, WriteForms

LEMMA ContentsKept ==
  ASSUME TInv, Following, Contents, NEW a \in plan, Stepped(a)
  PROVE  Contents'
<1> SUFFICES ASSUME Steadily, NEW p \in DOMAIN source \cap Covered
             PROVE  Matching(source, target', p) \/ p \in failed' \/ Write(p, source[p]) \in plan'
  BY StepsFrame DEF Contents
<1> DEFINE w == Write(p, source[p])
<1>1. /\ Elsewhere(a, target, target')
      /\ failed \subseteq failed' /\ plan \subseteq plan' \cup {a}
      /\ Outcome(a, source, target, target') \/ a.path \in failed'
  BY DEF Stepped
<1>2. Meant(a) /\ \A c \in Planned : Precedes(a, c) /\ c # a => c \in plan'
  BY StepMeant
<1>3. w.op \in WriteOps /\ w.path = p
  BY WriteOf
<1> HIDE DEF w
<1>4. Matching(source, target, p) \/ p \in failed \/ w \in plan
  BY DEF Contents, w
<1>5. CASE Matching(source, target, p) /\ p # a.path
  BY <1>1, <1>5 DEF Elsewhere, Matching
<1>6. CASE Matching(source, target, p) /\ p = a.path /\ Outcome(a, source, target, target')
  <2>1. CASE a.op \in WriteOps
    BY <1>2, <1>6, <2>1, WritesMatch
  <2>2. CASE a.op = "remove"
    <3>1. p \in DOMAIN before /\ IsDir(source[p]) # IsDir(before[p])
      BY <1>2, <1>6, <2>2 DEF Meant
    <3>2. DiffersFrom(source[p], before[p])
      BY <3>1 DEF DiffersFrom, IsDir
    <3>3. w \in Planned
      BY <3>2, PlannedHas DEF w
    <3>4. Precedes(a, w)
      BY <1>3, <2>2, Orders
    <3>5. w # a
      BY <1>3, <2>2 DEF WriteOps
    <3> QED
      BY <1>2, <3>3, <3>4, <3>5 DEF w
  <2>3. CASE a.op = "set_metadata"
    BY <1>6, <2>3 DEF Outcome, Matching, DiffersFrom, IsDir
  <2> QED
    BY <1>2, <2>1, <2>2, <2>3 DEF Meant, Ops
<1>7. CASE w \in plan /\ w \notin plan'
  <2>1. a = w
    BY <1>1, <1>7
  <2>2. a.op \in WriteOps /\ a.path = p
    BY <1>3, <2>1
  <2> QED
    BY <1>1, <1>2, <2>2, WritesMatch
<1> QED
  BY <1>1, <1>4, <1>5, <1>6, <1>7 DEF w

LEMMA RemovalsKept ==
  ASSUME TInv, Following, Removals, NEW a \in plan, Stepped(a)
  PROVE  Removals'
<1> SUFFICES ASSUME Steadily, delete, NEW p \in (DOMAIN target' \ DOMAIN source) \cap Covered
             PROVE  p \in failed' \/ Remove(p) \in plan'
  BY StepsFrame DEF Removals
<1>1. /\ Elsewhere(a, target, target') /\ Sound(target')
      /\ failed \subseteq failed' /\ plan \subseteq plan' \cup {a}
      /\ Outcome(a, source, target, target') \/ a.path \in failed'
  BY DEF Stepped
<1>2. Meant(a)
  BY StepMeant
<1>3. CASE p \in DOMAIN target
  <2>1. p \in failed \/ Remove(p) \in plan
    BY <1>3 DEF Removals
  <2>2. CASE a = Remove(p)
    <3>1. a.op = "remove" /\ a.path = p
      BY <2>2 DEF Remove
    <3> QED
      BY <1>1, <3>1 DEF Outcome
  <2> QED
    BY <1>1, <2>1, <2>2
<1>4. CASE p \notin DOMAIN target
  <2>1. /\ a.op \in WriteOps
        /\ p # a.path => p \in Path /\ IsUnder(a.path, p)
    BY <1>1, <1>4 DEF Elsewhere
  <2>2. a.path \in DOMAIN source
    BY <1>2, <2>1 DEF Meant
  <2>3. p # a.path
    BY <2>2
  <2>4. p # <<>>
    BY <1>1 DEF Sound, IsTree
  <2>5. Sound(source)
    BY DEF TInv, IInv, TreesOK
  <2>6. p \in DOMAIN source
    BY <2>1, <2>2, <2>3, <2>4, <2>5, AncestorsAreDirs
  <2> QED
    BY <2>6
<1> QED
  BY <1>3, <1>4

LEMMA ModesKept ==
  ASSUME TInv, Following, Modes, Undisturbed, NEW a \in plan, Stepped(a)
  PROVE  Modes'
<1> SUFFICES ASSUME Steadily, NEW p \in DOMAIN source \cap DOMAIN target' \cap Covered,
                    OffMode(source, target', p), Kept(source, before, p)
             PROVE  p \in failed' \/ SetMetadata(p, source[p].mode) \in plan'
  BY StepsFrame DEF Modes
<1> DEFINE m == SetMetadata(p, source[p].mode)
<1>1. /\ Elsewhere(a, target, target')
      /\ failed \subseteq failed' /\ plan \subseteq plan' \cup {a}
      /\ Outcome(a, source, target, target') \/ a.path \in failed'
  BY DEF Stepped
<1>2. Meant(a) /\ \A c \in Planned : Precedes(a, c) /\ c # a => c \in plan'
  BY StepMeant
<1>3. m.op = "set_metadata" /\ m.path = p /\ m.mode = source[p].mode
  BY DEF SetMetadata
<1> HIDE DEF m
<1>4. Preserve /\ HasMetadata(source[p])
  BY DEF OffMode, MetadataDiffers
<1>5. ASSUME p \notin DOMAIN before, a.op \in WriteOps
      PROVE  m \in plan'
  <2>1. m \in Planned
    BY <1>4, <1>5, PlannedHas DEF m
  <2>2. Precedes(a, m) /\ a # m
    BY <1>3, <1>5, Orders DEF WriteOps
  <2> QED
    BY <1>2, <2>1, <2>2
<1>6. CASE p # a.path /\ p \in DOMAIN target
  <2>1. target'[p] = target[p]
    BY <1>1, <1>6 DEF Elsewhere
  <2>2. OffMode(source, target, p)
    BY <2>1 DEF OffMode
  <2>3. p \in failed \/ m \in plan
    BY <1>6, <2>2 DEF Modes, m
  <2>4. m # a
    BY <1>3, <1>6
  <2> QED
    BY <1>1, <2>3, <2>4 DEF m
<1>7. CASE p # a.path /\ p \notin DOMAIN target
  <2>1. a.op \in WriteOps
    BY <1>1, <1>7 DEF Elsewhere
  <2>2. p \notin DOMAIN before
    BY <1>7 DEF Undisturbed
  <2> QED
    BY <1>5, <2>1, <2>2 DEF m
<1>8. CASE p = a.path /\ Outcome(a, source, target, target')
  <2>1. CASE a.op \in WriteOps
    <3>1. p \notin DOMAIN before
      BY <1>2, <1>8, <2>1 DEF Meant, Kept
    <3> QED
      BY <1>5, <2>1, <3>1 DEF m
  <2>2. CASE a.op = "remove"
    BY <1>8, <2>2 DEF Outcome
  <2>3. CASE a.op = "set_metadata"
    <3>1. target'[p].mode = a.mode
      BY <1>8, <2>3 DEF Outcome
    <3>2. a = m
      BY <1>2, <1>8, <2>3 DEF Meant, m
    <3> QED
      BY <1>3, <3>1, <3>2 DEF OffMode, MetadataDiffers
  <2> QED
    BY <1>2, <2>1, <2>2, <2>3 DEF Meant, Ops
<1> QED
  BY <1>1, <1>6, <1>7, <1>8

LEMMA UndisturbedKept ==
  ASSUME TInv, Following, Undisturbed, NEW a \in plan, Stepped(a)
  PROVE  Undisturbed'
<1> SUFFICES ASSUME Steadily, NEW p \in DOMAIN source \cap DOMAIN before \cap Covered,
                    Kept(source, before, p)
             PROVE  p \in DOMAIN target'
  BY StepsFrame DEF Undisturbed
<1>1. /\ Elsewhere(a, target, target')
      /\ Outcome(a, source, target, target') \/ Residue(a, target, target')
  BY DEF Stepped
<1>2. Meant(a)
  BY StepMeant
<1>3. p \in DOMAIN target
  BY DEF Undisturbed
<1>4. CASE p # a.path
  BY <1>1, <1>3, <1>4 DEF Elsewhere
<1>5. CASE p = a.path
  <2>1. ~DiffersFrom(source[p], before[p]) /\ IsDir(source[p]) = IsDir(before[p])
    BY DEF Kept, DiffersFrom, IsDir
  <2>2. a.op \notin WriteOps /\ a.op # "remove"
    BY <1>2, <1>5, <2>1 DEF Meant
  <2>3. a.op = "set_metadata"
    BY <1>2, <2>2 DEF Meant, Ops
  <2> QED
    BY <1>1, <1>3, <1>5, <2>3 DEF Outcome, Residue
<1> QED
  BY <1>4, <1>5

\* The plan that is made of two trees that differ deals with each difference.
LEMMA PlanningSettles ==
  ASSUME TInv, Following, IndexTarget
  PROVE  AInv'
<1>1. /\ stage = "index target" /\ stage' = "apply"
      /\ targetIndex' = IndexScope(target, scope)
      /\ plan' = Plan(sourceIndex, targetIndex', delete, scope)
      /\ UNCHANGED <<source, target, mounted, delete, scope, failed, steady, before>>
  BY DEF IndexTarget, disk, ghosts
<1>2. target = before
  BY <1>1 DEF TInv, IInv, Untouched
<1>3. Planned' = Planned /\ Covered' = Covered /\ (Steadily' <=> steady)
  <2>1. Planned' = Planned /\ Covered' = Covered
    BY <1>1 DEF Planned, Covered, Taken
  <2>2. steady' <=> steady
    BY <1>1
  <2>3. Steadily' <=> steady
    BY <1>1, <2>2 DEF Steadily
  <2> QED
    BY <2>1, <2>3
<1>4. steady => plan' = Planned
  BY <1>1, <1>2 DEF Following, Planned
<1>5. Following'
  BY <1>1, <1>3, <1>4 DEF Following
<1>6. Contents'
  <2> SUFFICES ASSUME steady, NEW p \in DOMAIN source \cap Covered
               PROVE  Matching(source, target, p) \/ Write(p, source[p]) \in plan'
    BY <1>1, <1>3 DEF Contents
  <2>1. Matching(source, before, p) \/ Write(p, source[p]) \in Planned
    BY PlannedHas DEF Matching
  <2> QED
    BY <1>2, <1>4, <2>1
<1>7. Removals'
  <2> SUFFICES ASSUME steady, delete, NEW p \in (DOMAIN target \ DOMAIN source) \cap Covered
               PROVE  Remove(p) \in plan'
    BY <1>1, <1>3 DEF Removals
  <2>1. Remove(p) \in Planned
    BY <1>2, PlannedHas
  <2> QED
    BY <1>4, <2>1
<1>8. Modes'
  <2> SUFFICES ASSUME steady, NEW p \in DOMAIN source \cap DOMAIN target \cap Covered,
                      OffMode(source, target, p)
               PROVE  SetMetadata(p, source[p].mode) \in plan'
    BY <1>1, <1>3 DEF Modes
  <2>1. HasMetadata(source[p]) /\ MetadataDiffers(source[p], before[p]) /\ Preserve
    BY <1>2 DEF OffMode, MetadataDiffers
  <2>2. SetMetadata(p, source[p].mode) \in Planned
    BY <2>1, PlannedHas
  <2> QED
    BY <1>4, <2>2
<1>9. Undisturbed'
  BY <1>1, <1>2, <1>3 DEF Undisturbed
<1> QED
  BY <1>5, <1>6, <1>7, <1>8, <1>9 DEF AInv

LEMMA AInvKept ==
  ASSUME TInv, AInv, Next
  PROVE  AInv'
<1>7. CASE CheckRoot
  <2>1. /\ stage' = "walk source" /\ met' = {source}
        /\ UNCHANGED <<source, mounted, scope, steady>>
    BY <1>7 DEF CheckRoot, disk, ghosts
  <2>2. Following'
    BY <2>1 DEF AInv, Following, Steadily
  <2> QED
    BY <2>1, <2>2 DEF AInv, Contents, Removals, Modes, Undisturbed, Steadily
<1>1. CASE IndexSource
  <2>1. /\ stage = "walk source" /\ stage' = "index target" /\ met' = {}
        /\ UNCHANGED <<source, mounted, scope, steady>>
    BY <1>1 DEF IndexSource, disk, ghosts
  <2>3. steady => sourceIndex' = IndexScope(source, scope)
    BY <1>1, <2>1, WalkFinds DEF TInv, AInv, Following
  <2>2. Following'
    BY <2>1, <2>3 DEF AInv, Following, Steadily
  <2> QED
    BY <2>1, <2>2 DEF AInv, Contents, Removals, Modes, Undisturbed, Steadily
<1>2. CASE IndexTarget
  BY <1>2, PlanningSettles DEF AInv
<1>3. CASE IndexFails
  <2>1. stage' = "error" /\ UNCHANGED <<mounted, steady>>
    BY <1>3 DEF IndexFails, disk, ghosts
  <2>2. Following'
    BY <2>1 DEF AInv, Following, Steadily
  <2> QED
    BY <2>1, <2>2 DEF AInv, Contents, Removals, Modes, Undisturbed, Steadily
<1>4. CASE Finish
  <2>1. /\ stage = "apply" /\ stage' = "done" /\ plan = {}
        /\ UNCHANGED <<source, target, mounted, delete, scope, plan, failed, steady, before>>
    BY <1>4 DEF Finish, disk, ghosts
  <2>2. /\ Steadily' = Steadily /\ Covered' = Covered /\ Planned' = Planned
    BY <2>1 DEF Steadily, Covered, Taken, Planned
  <2>3. Following'
    BY <2>1, <2>2 DEF AInv, Following
  <2> QED
    BY <2>1, <2>2, <2>3 DEF AInv, Contents, Removals, Modes, Undisturbed
<1>5. CASE SourceChanges
  <2>1. steady' = FALSE /\ stage' = stage /\ stage # "done" /\ plan' = plan
    BY <1>5 DEF SourceChanges
  <2>2. Following'
    BY <2>1 DEF Following, Steadily
  <2> QED
    BY <2>1, <2>2 DEF AInv, Contents, Removals, Modes, Undisturbed, Steadily
<1>6. ASSUME NEW a \in plan, Step(a)
      PROVE  AInv'
  <2>1. Stepped(a)
    BY <1>6, EachStep
  <2> QED
    BY <2>1, FollowingKept, ContentsKept, RemovalsKept, ModesKept, UndisturbedKept DEF AInv
<1> QED
  BY <1>1, <1>2, <1>3, <1>4, <1>5, <1>6, <1>7 DEF Next, Step

LEMMA AInvInvariant == Spec => []AInv
<1>1. Init => AInv
  BY DEF Init, AInv, Following, Contents, Removals, Modes, Undisturbed, Steadily
<1>2. TInv /\ AInv /\ [Next]_vars => AInv'
  <2>1. CASE Next
    BY <2>1, AInvKept
  <2>2. CASE UNCHANGED vars
    BY <2>2 DEF vars, AInv, Following, Contents, Removals, Modes, Undisturbed, Steadily,
                Covered, Taken, Planned
  <2> QED
    BY <2>1, <2>2
<1> QED
  BY <1>1, <1>2, TInvInvariant, PTL DEF Spec

\* When a pass over a source that kept still is done, every difference left among what its
\* scope takes is at a path it reports, whichever actions failed, wherever they stopped, and however often
\* a request was carried out twice.
THEOREM DifferencesAreReported == Spec => []Accounted
<1>1. TInv /\ AInv => Accounted
  <2> SUFFICES ASSUME TInv, AInv, stage = "done", steady,
                      NEW p \in DOMAIN source \cup DOMAIN target, Taken(p),
                      Diverges(p) \/ (ModeDiverges(p) /\ ~Replaced(p))
               PROVE  p \in failed
    BY DEF Accounted
  <2>1. Sound(source) /\ Sound(target) /\ scope \in Scopes
    BY DEF TInv, IInv, TreesOK, Formed
  <2>2. Steadily /\ plan = {}
    BY <2>1 DEF AInv, Following, Steadily
  <2>3. p \in Covered
    <3>1. p \in Path
      BY <2>1 DEF Sound
    <3> QED
      BY <3>1, CoveredAreTaken
  <2>4. CASE p \in DOMAIN source /\ (p \in DOMAIN target => DiffersFrom(source[p], target[p]))
    BY <2>2, <2>3, <2>4 DEF AInv, Contents, Matching
  <2>5. CASE delete /\ p \in DOMAIN target \ DOMAIN source
    BY <2>2, <2>3, <2>5 DEF AInv, Removals
  <2>6. CASE ModeDiverges(p) /\ ~Replaced(p)
    <3>1. p \in DOMAIN source \cap DOMAIN target /\ OffMode(source, target, p)
      BY <2>6 DEF ModeDiverges, OffMode
    <3>2. Kept(source, before, p)
      BY <2>6, <3>1 DEF Replaced, Kept
    <3> QED
      BY <2>2, <2>3, <3>1, <3>2 DEF AInv, Modes
  <2> QED
    BY <2>4, <2>5, <2>6 DEF Diverges
<1> QED
  BY <1>1, TInvInvariant, AInvInvariant, PTL

-----------------------------------------------------------------------------
(* The order of the plan succeeds *)

\* A pass over the whole tree, deletions on, in which nothing has failed for reasons of its own.
AllIn == Steadily /\ faults = 0 /\ delete /\ scope = SubtreeScope(<<>>)

Hidden(t, p) == \E q \in DOMAIN t : IsUnder(q, p) /\ ~Mirrored(q)

\* While there is something to remove, nothing has been added.
Restricted ==
  AllIn => \A a \in plan : a.op = "remove" =>
             \A q \in DOMAIN target : q \in DOMAIN before /\ target[q] = before[q]

\* What was to be removed is gone, or replaced, or reported.
Cleared ==
  AllIn => \A p \in DOMAIN target :
             Remove(p) \in Planned \ plan =>
               p \in failed \/ (p \in DOMAIN source /\ Matching(source, target, p))

\* What was not to be removed is a directory where the source has one, and nowhere else.
Clean ==
  AllIn => \A p \in DOMAIN source \cap DOMAIN target :
             Mirrored(p) /\ Remove(p) \notin Planned => (IsDir(source[p]) <=> IsDir(target[p]))

Blocked == AllIn => \A p \in failed : Hidden(target, p)

NotYetFailed == stage \in {"index source", "walk source", "index target", "error"} => failed = {}

OInv == Restricted /\ Cleared /\ Clean /\ Blocked /\ NotYetFailed

\* All of the tree is covered, and nothing is planned for what is not mirrored.
LEMMA WholeTree ==
  ASSUME TInv, scope = SubtreeScope(<<>>)
  PROVE  /\ \A p \in Path : Mirrored(p) => p \in Covered
         /\ \A a \in Planned : Mirrored(a.path)
<1>1. scope.roots = {<<>>} /\ scope = SubtreeScope(<<>>)
  BY DEF SubtreeScope
<1>3. <<>> \in Path /\ \A p \in Path : IsUnder(p, <<>>)
  BY DEF IsUnder, Path
<1>4. ASSUME NEW p \in Path, Mirrored(p)
      PROVE  p \in Covered
  <2>1. Beyond(p, <<>>) = p
    BY <1>3, BeyondComponents
  <2>2. ~IsTransferTemporary(p, <<>>)
    <3>1. \A i \in (Len(<<>>) + 1)..Len(p) : i \in DOMAIN p
      BY DEF Path
    <3> QED
      BY <1>4, <3>1 DEF IsTransferTemporary, Mirrored
  <2>3. scope.kind # "paths" /\ <<>> \in scope.roots
    BY <1>1 DEF SubtreeScope
  <2> QED
    BY <1>3, <1>4, <2>1, <2>2, <2>3 DEF Covered, Taken, Mirrored
<1>5. Sound(source) /\ Sound(before) /\ delete \in BOOLEAN
  BY DEF TInv, IInv, TreesOK
<1>6. ASSUME NEW a \in Planned
      PROVE  Mirrored(a.path)
  <2> DEFINE s == IndexScope(source, scope)
             t == IndexScope(before, scope)
  <2>1. a \in Plan(s, t, delete, scope)
    BY DEF Planned
  <2>2. /\ DOMAIN s = Indexed(source, scope) /\ \A p \in DOMAIN s : p \in DOMAIN source /\ s[p] = source[p]
        /\ DOMAIN t = Indexed(before, scope)
    BY IndexedHeld DEF IndexScope
  <2> HIDE DEF s, t
  <2>3. HasKinds(s)
    BY <1>5, <2>2 DEF Sound, HasKinds, IsEntry
  <2>4. a.path \in DOMAIN s \cup DOMAIN t
    BY <1>5, <2>1, <2>3, PlanMade
  <2> QED
    BY <1>1, <1>5, <2>2, <2>4, WholeIsMirrored
<1> QED
  BY <1>4, <1>6

\* Where the target has a directory that a step finds in its way, or the reverse, the removal
\* that was to make room has been tried and is reported.
LEMMA InTheWay ==
  ASSUME TInv, OInv, AllIn, NEW a \in plan, Turn(a), a.op \in WriteOps \cup {"set_metadata"},
         NEW p \in DOMAIN source \cap DOMAIN target, Mirrored(p), IsDir(source[p]) # IsDir(target[p])
  PROVE  Hidden(target, p)
<1>1. Remove(p) \in Planned
  BY DEF OInv, Clean, IsDir
<1>2. Remove(p) \notin plan
  <2>1. Remove(p).op = "remove"
    BY DEF Remove
  <2>2. Precedes(Remove(p), a)
    BY <2>1, Orders
  <2> QED
    BY <2>2 DEF Turn
<1>3. ~Matching(source, target, p)
  BY DEF Matching, DiffersFrom, IsDir
<1>4. p \in failed
  BY <1>1, <1>2, <1>3 DEF OInv, Cleared
<1> QED
  BY <1>4 DEF OInv, Blocked

\* Where only a directory can be, nothing is hidden beneath anything else.
LEMMA HiddenInDirectory ==
  ASSUME Sound(target), NEW p \in DOMAIN target, Mirrored(p), Hidden(target, p)
  PROVE  IsDir(target[p])
<1>1. PICK q \in DOMAIN target : IsUnder(q, p) /\ ~Mirrored(q)
  BY DEF Hidden
<1>2. q # p /\ p \in Path /\ p # <<>>
  BY <1>1 DEF Sound, IsTree
<1> QED
  BY <1>1, <1>2, AncestorsAreDirs

\* The way to each path is clear by its turn.
LEMMA ReachableInTurn ==
  ASSUME TInv, Following, OInv, AllIn, NEW a \in plan, Turn(a)
  PROVE  Reachable(target, a.path)
<1> DEFINE p == a.path
<1> SUFFICES ASSUME NEW q \in DOMAIN target, q # p, IsUnder(p, q), ~IsDir(target[q])
             PROVE  FALSE
  BY DEF Reachable, Ancestors
<1>1. Sound(source) /\ Sound(before) /\ Sound(target)
  BY DEF TInv, IInv, TreesOK, Formed
<1>2. q \in Path /\ q # <<>> /\ p \in Path
  BY <1>1 DEF Sound, IsTree, TInv, Formed
<1>3. a \in Planned /\ Meant(a) /\ Mirrored(p)
  BY WholeTree, PlannedMeans DEF Following, AllIn
<1>4. Mirrored(q)
  BY <1>2, <1>3, MirroredAbove
<1>5. CASE a.op = "remove"
  <2>1. q \in DOMAIN before /\ ~IsDir(before[q])
    BY <1>5 DEF OInv, Restricted
  <2>2. p \in DOMAIN before
    BY <1>3, <1>5 DEF Meant
  <2> HIDE DEF p
  <2> QED
    BY <1>1, <1>2, <2>1, <2>2, AncestorsAreDirs
<1>6. CASE a.op \in WriteOps \cup {"set_metadata"}
  <2>1. p \in DOMAIN source
    BY <1>3, <1>6 DEF Meant
  <2>2. q \in DOMAIN source /\ IsDir(source[q])
    <3> HIDE DEF p
    <3> QED
      BY <1>1, <1>2, <2>1, AncestorsAreDirs
  <2>3. Hidden(target, q)
    BY <1>4, <1>6, <2>2, InTheWay DEF IsDir
  <2> QED
    BY <1>1, <1>4, <2>3, HiddenInDirectory
<1> QED
  BY <1>3, <1>5, <1>6 DEF Meant, Ops

\* A removal finds a directory that is not empty only for what the pass may not see.
LEMMA RemovalsInTurn ==
  ASSUME TInv, Following, OInv, AllIn, NEW a \in plan, Turn(a), a.op = "remove",
         ~Clearable(target, a.path)
  PROVE  Hidden(target, a.path)
<1> DEFINE p == a.path
<1>1. Sound(source) /\ Sound(before) /\ Sound(target) /\ p \in Path /\ p # <<>>
  BY DEF TInv, IInv, TreesOK, Formed
<1>2. PICK q \in DOMAIN target : IsUnder(q, p) /\ q # p /\ p \in DOMAIN target /\ IsDir(target[p])
  BY DEF Clearable, Empty
<1>3. CASE ~Mirrored(q)
  BY <1>2, <1>3 DEF Hidden
<1>4. CASE Mirrored(q)
  <2>1. a \in Planned /\ Meant(a) /\ Mirrored(p)
    BY WholeTree, PlannedMeans DEF Following, AllIn
  <2>2. q \in DOMAIN before /\ p \in DOMAIN before /\ IsDir(before[p])
    BY <1>2 DEF OInv, Restricted
  <2>3. q \in Covered /\ p \in Covered /\ q \in Path
    BY <1>1, <1>4, <2>1, WholeTree DEF Sound, AllIn
  <2>4. q \notin DOMAIN source
    <3> SUFFICES ASSUME q \in DOMAIN source
                 PROVE  FALSE
      OBVIOUS
    <3>1. p \in DOMAIN source /\ IsDir(source[p])
      <4>1. IsUnder(q, p) /\ q # p /\ p \in Path /\ p # <<>>
        BY <1>1, <1>2
      <4> HIDE DEF p
      <4> QED
        BY <1>1, <4>1, AncestorsAreDirs
    <3>2. IsDir(source[p]) # IsDir(before[p])
      BY <2>1, <2>3, <3>1 DEF Meant
    <3> QED
      BY <2>2, <3>1, <3>2 DEF IsDir
  <2>5. Remove(q) \in Planned
    BY <2>1, <2>2, <2>3, <2>4, PlannedHas DEF AllIn
  <2>6. Remove(q) \notin plan
    <3>1. Remove(q).op = "remove" /\ Remove(q).path = q
      BY DEF Remove
    <3>2. Len(q) > Len(p)
      <4>1. Len(q) # Len(p)
        BY <1>1, <1>2, <2>3, SamePath DEF IsUnder
      <4> QED
        BY <1>1, <1>2, <2>3, <4>1 DEF IsUnder, Path
    <3>3. Precedes(Remove(q), a)
      BY <3>1, <3>2, Orders
    <3> QED
      BY <3>3 DEF Turn
  <2>7. q \in failed
    BY <2>4, <2>5, <2>6 DEF OInv, Cleared
  <2>8. PICK r \in DOMAIN target : IsUnder(r, q) /\ ~Mirrored(r)
    BY <2>7 DEF OInv, Blocked, Hidden
  <2>9. r \in Path
    BY <1>1 DEF Sound
  <2>10. IsUnder(r, p)
    BY <1>1, <1>2, <2>3, <2>8, <2>9, UnderIsPreorder
  <2> QED
    BY <2>8, <2>10 DEF Hidden
<1> QED
  BY <1>3, <1>4

LEMMA FailsOnlyBlocked ==
  ASSUME TInv, AInv, OInv, AllIn, NEW a \in plan, Turn(a), ~Possible(a)
  PROVE  Hidden(target, a.path)
<1> DEFINE p == a.path
<1>1. Following /\ Contents
  BY DEF AInv
<1>2. Reachable(target, p)
  BY <1>1, ReachableInTurn
<1>3. Meant(a) /\ Mirrored(p) /\ mounted /\ p \in Covered
  <2>1. p \in Path /\ steady
    BY DEF TInv, Formed, AllIn, Steadily
  <2>2. a \in Planned /\ mounted
    BY <1>1, <2>1 DEF Following, AllIn
  <2> QED
    BY <2>1, <2>2, WholeTree, PlannedMeans DEF AllIn
<1>4. CASE a.op = "create_dir"
  <2>1. p \in DOMAIN target /\ ~IsDir(target[p])
    BY <1>2, <1>4 DEF Possible
  <2>2. p \in DOMAIN source /\ IsDir(source[p])
    BY <1>3, <1>4 DEF Meant, WriteOps
  <2> QED
    BY <1>3, <1>4, <2>1, <2>2, InTheWay DEF WriteOps, IsDir
<1>5. CASE a.op = "copy_file"
  <2>1. p \in DOMAIN source /\ IsFile(source[p])
    BY <1>3, <1>5 DEF Meant, WriteOps
  <2>2. p \in DOMAIN target /\ IsDir(target[p])
    BY <1>2, <1>3, <1>5, <2>1 DEF Possible
  <2> QED
    BY <1>3, <1>5, <2>1, <2>2, InTheWay DEF WriteOps, IsDir, IsFile
<1>6. CASE a.op = "create_symlink"
  <2>1. p \in DOMAIN source /\ IsLink(source[p])
    BY <1>3, <1>6 DEF Meant, WriteOps
  <2>2. p \in DOMAIN target /\ IsDir(target[p])
    BY <1>2, <1>6 DEF Possible, Clearable
  <2> QED
    BY <1>3, <1>6, <2>1, <2>2, InTheWay DEF WriteOps, IsDir, IsLink
<1>7. CASE a.op = "remove"
  <2>1. ~Clearable(target, p)
    BY <1>2, <1>7 DEF Possible
  <2> QED
    BY <1>1, <1>7, <2>1, RemovalsInTurn
<1>8. CASE a.op = "set_metadata"
  <2>1. p \notin DOMAIN target \/ IsLink(target[p])
    BY <1>2, <1>8 DEF Possible
  <2>2. p \in DOMAIN source /\ HasMetadata(source[p])
    BY <1>3, <1>8 DEF Meant
  <2>3. ~Matching(source, target, p)
    BY <2>1, <2>2 DEF Matching, DiffersFrom, HasMetadata, IsLink
  <2>4. Write(p, source[p]) \notin plan
    <3>1. Write(p, source[p]).op \in WriteOps
      BY <2>2, WriteOf
    <3>2. Precedes(Write(p, source[p]), a)
      BY <1>8, <3>1, Orders
    <3> QED
      BY <3>2 DEF Turn
  <2>5. p \in failed
    BY <1>1, <1>3, <2>2, <2>3, <2>4 DEF Contents, AllIn
  <2> QED
    BY <2>5 DEF OInv, Blocked
<1> QED
  BY <1>3, <1>4, <1>5, <1>6, <1>7, <1>8 DEF Meant, Ops, WriteOps

LEMMA AllInFrame ==
  ASSUME NEW a, Stepped(a), AllIn'
  PROVE  AllIn
<1>1. faults = 0 /\ Steadily' = Steadily /\ delete' = delete /\ scope' = scope
  <2>1. faults' = 0
    BY DEF AllIn
  <2> QED
    BY <2>1, StepsFrame DEF Stepped
<1> QED
  BY <1>1 DEF AllIn

LEMMA RestrictedKept ==
  ASSUME TInv, Following, Restricted, NEW a \in plan, Stepped(a)
  PROVE  Restricted'
<1> SUFFICES ASSUME AllIn, NEW c \in plan', c.op = "remove", NEW q \in DOMAIN target'
             PROVE  q \in DOMAIN before /\ target'[q] = before[q]
  BY AllInFrame, StepsFrame DEF Restricted
<1>1. /\ Elsewhere(a, target, target') /\ c \in plan /\ Turn(a)
      /\ Outcome(a, source, target, target') \/ Residue(a, target, target')
  BY DEF Stepped
<1>2. a.op = "remove"
  <2>1. ~Precedes(c, a)
    BY <1>1 DEF Turn
  <2>2. a.op \notin WriteOps \cup {"set_metadata"}
    BY <2>1, Orders
  <2>3. a.op \in Ops
    BY DEF TInv, Formed
  <2> QED
    BY <2>2, <2>3 DEF Ops
<1>3. q \in DOMAIN target /\ target'[q] = target[q]
  <2>1. q \in DOMAIN target
    BY <1>1, <1>2 DEF Elsewhere, WriteOps
  <2>2. CASE q # a.path
    BY <1>1, <2>1, <2>2 DEF Elsewhere
  <2>3. CASE q = a.path
    BY <1>1, <1>2, <2>3 DEF Outcome, Residue
  <2> QED
    BY <2>1, <2>2, <2>3
<1>4. q \in DOMAIN before /\ target[q] = before[q]
  BY <1>1, <1>3 DEF Restricted
<1> QED
  BY <1>3, <1>4

\* What a step adds on the way to its own path, the source has as a directory.
LEMMA NewOnTheWay ==
  ASSUME TInv, NEW a \in plan, Meant(a), Stepped(a), NEW p \in DOMAIN target' \ DOMAIN target, p # a.path
  PROVE  p \in DOMAIN source /\ IsDir(source[p]) /\ IsDir(target'[p]) /\ Matching(source, target', p)
<1>1. Elsewhere(a, target, target') /\ Sound(target') /\ Sound(source)
  BY DEF Stepped, TInv, IInv, TreesOK
<1>2. a.op \in WriteOps /\ p \in Path /\ IsUnder(a.path, p) /\ target'[p] = NewDir
  BY <1>1 DEF Elsewhere
<1>3. a.path \in DOMAIN source
  BY <1>2 DEF Meant
<1>4. p # <<>>
  BY <1>1 DEF Sound, IsTree
<1>5. p \in DOMAIN source /\ IsDir(source[p])
  BY <1>1, <1>2, <1>3, <1>4, AncestorsAreDirs
<1>6. IsDir(target'[p])
  BY <1>2, NewDirIsDir
<1> QED
  BY <1>5, <1>6 DEF Matching, DiffersFrom, IsDir

LEMMA ClearedKept ==
  ASSUME TInv, Following, Cleared, NEW a \in plan, Stepped(a)
  PROVE  Cleared'
<1> SUFFICES ASSUME AllIn, NEW p \in DOMAIN target', Remove(p) \in Planned \ plan'
             PROVE  p \in failed' \/ (p \in DOMAIN source /\ Matching(source, target', p))
  BY AllInFrame, StepsFrame DEF Cleared
<1>1. /\ Elsewhere(a, target, target')
      /\ failed \subseteq failed' /\ plan \subseteq plan' \cup {a}
      /\ Outcome(a, source, target, target') \/ a.path \in failed'
  BY DEF Stepped
<1>2. Meant(a)
  BY StepMeant DEF AllIn
<1>3. Remove(p).op = "remove" /\ Remove(p).path = p
  BY DEF Remove
<1>4. CASE p # a.path /\ p \in DOMAIN target
  <2>1. Remove(p) \notin plan
    BY <1>1, <1>3, <1>4
  <2>2. target'[p] = target[p]
    BY <1>1, <1>4 DEF Elsewhere
  <2>3. p \in failed \/ (p \in DOMAIN source /\ Matching(source, target, p))
    BY <1>4, <2>1 DEF Cleared
  <2> QED
    BY <1>1, <1>4, <2>2, <2>3 DEF Matching
<1>5. CASE p # a.path /\ p \notin DOMAIN target
  BY <1>2, <1>5, NewOnTheWay
<1>6. CASE p = a.path /\ Outcome(a, source, target, target')
  <2>1. CASE a.op \in WriteOps
    BY <1>2, <1>6, <2>1, WritesMatch DEF Meant
  <2>2. CASE a.op = "remove"
    BY <1>6, <2>2 DEF Outcome
  <2>3. CASE a.op = "set_metadata"
    <3>1. a # Remove(p)
      BY <1>3, <2>3
    <3>2. Remove(p) \notin plan
      BY <1>1, <3>1
    <3>3. /\ p \in DOMAIN target /\ p \in DOMAIN source
          /\ target'[p].kind = target[p].kind /\ target'[p].data = target[p].data
      BY <1>2, <1>6, <2>3 DEF Meant, Outcome
    <3>4. p \in failed \/ Matching(source, target, p)
      BY <3>2, <3>3 DEF Cleared
    <3> QED
      BY <1>1, <3>3, <3>4 DEF Matching, DiffersFrom, IsDir
  <2> QED
    BY <1>2, <2>1, <2>2, <2>3 DEF Meant, Ops
<1> QED
  BY <1>1, <1>4, <1>5, <1>6

LEMMA CleanKept ==
  ASSUME TInv, Following, Clean, NEW a \in plan, Stepped(a)
  PROVE  Clean'
<1> SUFFICES ASSUME AllIn, NEW p \in DOMAIN source \cap DOMAIN target', Mirrored(p), Remove(p) \notin Planned
             PROVE  IsDir(source[p]) <=> IsDir(target'[p])
  BY AllInFrame, StepsFrame DEF Clean
<1>1. /\ Elsewhere(a, target, target')
      /\ Outcome(a, source, target, target') \/ Residue(a, target, target')
  BY DEF Stepped
<1>2. Meant(a) /\ a \in Planned
  BY StepMeant DEF AllIn
<1>3. CASE p # a.path /\ p \in DOMAIN target
  <2>1. target'[p] = target[p]
    BY <1>1, <1>3 DEF Elsewhere
  <2> QED
    BY <1>3, <2>1 DEF Clean
<1>4. CASE p # a.path /\ p \notin DOMAIN target
  BY <1>2, <1>4, NewOnTheWay
<1>5. CASE p = a.path /\ Residue(a, target, target')
  <2>1. p \in DOMAIN target /\ target'[p] = target[p]
    BY <1>5 DEF Residue
  <2> QED
    BY <2>1 DEF Clean
<1>6. CASE p = a.path /\ Outcome(a, source, target, target')
  <2>1. CASE a.op \in WriteOps
    <3>1. Matching(source, target', p)
      BY <1>2, <1>6, <2>1, WritesMatch
    <3> QED
      BY <3>1 DEF Matching, DiffersFrom, IsDir
  <2>2. CASE a.op = "remove"
    BY <1>6, <2>2 DEF Outcome
  <2>3. CASE a.op = "set_metadata"
    <3>1. p \in DOMAIN target /\ target'[p].kind = target[p].kind
      BY <1>6, <2>3 DEF Outcome
    <3> QED
      BY <3>1 DEF Clean, IsDir
  <2> QED
    BY <1>2, <2>1, <2>2, <2>3 DEF Meant, Ops
<1> QED
  BY <1>1, <1>3, <1>4, <1>5, <1>6

LEMMA BlockedKept ==
  ASSUME TInv, AInv, OInv, NEW a \in plan, Stepped(a)
  PROVE  Blocked'
<1> SUFFICES ASSUME AllIn, faults' = 0, NEW p \in failed'
             PROVE  Hidden(target', p)
  BY AllInFrame, StepsFrame DEF Blocked, AllIn
<1>1. /\ Elsewhere(a, target, target') /\ Turn(a)
      /\ failed' \subseteq failed \cup {a.path}
      /\ failed' # failed => ~Possible(a)
  BY DEF Stepped
<1>2. Hidden(target, p)
  <2>1. CASE p \in failed
    BY <2>1 DEF OInv, Blocked
  <2>2. CASE p \notin failed
    <3>1. p = a.path /\ ~Possible(a)
      BY <1>1, <2>2
    <3> QED
      BY <1>1, <3>1, FailsOnlyBlocked
  <2> QED
    BY <2>1, <2>2
<1>3. PICK q \in DOMAIN target : IsUnder(q, p) /\ ~Mirrored(q)
  BY <1>2 DEF Hidden
<1>4. Mirrored(a.path)
  <2>1. a \in Planned
    BY DEF AInv, Following, AllIn
  <2> QED
    BY <2>1, WholeTree DEF AllIn
<1>5. q \in DOMAIN target'
  BY <1>1, <1>3, <1>4 DEF Elsewhere
<1> QED
  BY <1>3, <1>5 DEF Hidden

LEMMA PlanningClears ==
  ASSUME TInv, AInv, OInv, IndexTarget
  PROVE  OInv'
<1>1. /\ stage = "index target" /\ stage' = "apply"
      /\ targetIndex' = IndexScope(target, scope)
      /\ plan' = Plan(sourceIndex, targetIndex', delete, scope)
      /\ UNCHANGED <<source, target, delete, scope, failed, steady, before, faults>>
  BY DEF IndexTarget, disk, ghosts, counters
<1>2. target = before
  BY <1>1 DEF TInv, IInv, Untouched
<1>3. Planned' = Planned
  BY <1>1 DEF Planned
<1>4. AllIn' => steady /\ delete /\ scope = SubtreeScope(<<>>)
  BY <1>1 DEF AllIn, Steadily
<1>5. steady => plan' = Planned
  BY <1>1, <1>2 DEF AInv, Following, Planned
<1>6. Restricted'
  BY <1>1, <1>2 DEF Restricted
<1>7. Cleared'
  BY <1>3, <1>4, <1>5 DEF Cleared
<1>8. Clean'
  <2> SUFFICES ASSUME delete, scope = SubtreeScope(<<>>), NEW p \in DOMAIN source \cap DOMAIN target,
                      Mirrored(p), ~(IsDir(source[p]) <=> IsDir(target[p]))
               PROVE  Remove(p) \in Planned
    BY <1>1, <1>3, <1>4 DEF Clean
  <2>1. p \in Path
    BY DEF TInv, Formed, Sound
  <2>2. p \in Covered
    BY <2>1, WholeTree
  <2>3. IsDir(source[p]) # IsDir(before[p])
    BY <1>2
  <2> QED
    BY <1>2, <2>2, <2>3, PlannedHas
<1>9. Blocked' /\ NotYetFailed'
  <2>1. failed = {}
    BY <1>1 DEF OInv, NotYetFailed
  <2> QED
    BY <1>1, <2>1 DEF Blocked, NotYetFailed
<1> QED
  BY <1>6, <1>7, <1>8, <1>9 DEF OInv

LEMMA OInvKept ==
  ASSUME TInv, AInv, OInv, Next
  PROVE  OInv'
<1>1. CASE CheckRoot \/ IndexSource \/ IndexFails
  <2>1. /\ stage' \in {"walk source", "index target", "error"}
        /\ stage \in {"index source", "walk source", "index target"} /\ failed' = failed
    BY <1>1 DEF CheckRoot, IndexSource, IndexFails
  <2>2. ~AllIn'
    BY <2>1 DEF AllIn, Steadily
  <2> QED
    BY <2>1, <2>2 DEF OInv, Restricted, Cleared, Clean, Blocked, NotYetFailed
<1>2. CASE IndexTarget
  BY <1>2, PlanningClears
<1>3. CASE Finish
  <2>1. /\ stage = "apply" /\ stage' = "done"
        /\ UNCHANGED <<source, target, delete, scope, plan, failed, steady, before, faults>>
    BY <1>3 DEF Finish, disk, ghosts, counters
  <2>2. (AllIn' <=> AllIn) /\ Planned' = Planned
    BY <2>1 DEF AllIn, Steadily, Planned
  <2> QED
    BY <2>1, <2>2 DEF OInv, Restricted, Cleared, Clean, Blocked, NotYetFailed
<1>4. CASE SourceChanges
  <2>1. steady' = FALSE /\ stage' = stage /\ failed' = failed
    BY <1>4 DEF SourceChanges
  <2>2. ~AllIn'
    BY <2>1 DEF AllIn, Steadily
  <2> QED
    BY <2>1, <2>2 DEF OInv, Restricted, Cleared, Clean, Blocked, NotYetFailed
<1>5. ASSUME NEW a \in plan, Step(a)
      PROVE  OInv'
  <2>1. Stepped(a)
    BY <1>5, EachStep
  <2>2. NotYetFailed'
    BY <2>1 DEF Stepped, NotYetFailed
  <2> QED
    BY <2>1, <2>2, RestrictedKept, ClearedKept, CleanKept, BlockedKept DEF AInv, OInv
<1> QED
  BY <1>1, <1>2, <1>3, <1>4, <1>5 DEF Next, Step

\* In a pass over the whole tree, deletions on, over a source that keeps still, and with
\* nothing failing for reasons of its own, each action of the plan succeeds in its turn, unless
\* it is at a directory that holds something the pass may not see: for every tree and whatever
\* kinds have changed, and with any number of requests issued again.
THEOREM TheOrderSucceeds == Spec => []OrderSucceeds
<1>1. Init => OInv
  <2>1. Init => ~AllIn /\ failed = {}
    BY DEF Init, AllIn, Steadily
  <2> QED
    BY <2>1 DEF OInv, Restricted, Cleared, Clean, Blocked, NotYetFailed
<1>2. TInv /\ AInv /\ OInv /\ [Next]_vars => OInv'
  <2>1. CASE Next
    BY <2>1, OInvKept
  <2>2. CASE UNCHANGED vars
    BY <2>2 DEF vars, OInv, Restricted, Cleared, Clean, Blocked, NotYetFailed, AllIn, Steadily, Planned
  <2> QED
    BY <2>1, <2>2
<1>3. TInv /\ OInv => OrderSucceeds
  <2> SUFFICES ASSUME TInv, OInv, steady, faults = 0, delete, scope = SubtreeScope(<<>>), NEW p \in failed
               PROVE  \E q \in DOMAIN target : IsUnder(q, p) /\ ~Mirrored(q)
    BY DEF OrderSucceeds
  <2>1. stage \in {"apply", "done"}
    BY DEF TInv, Formed, OInv, NotYetFailed
  <2>2. AllIn
    BY <2>1 DEF AllIn, Steadily
  <2> QED
    BY <2>2 DEF OInv, Blocked, Hidden
<1> QED
  BY <1>1, <1>2, <1>3, TInvInvariant, AInvInvariant, PTL DEF Spec
=============================================================================
