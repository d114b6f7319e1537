----------------------------- MODULE Reconcile -----------------------------
(***************************************************************************)
(* What a pass reads and what it decides: the exclusion filter, the index  *)
(* of a tree within a scope, and the plan that brings one index in line    *)
(* with another.  Everything here is a pure operator over trees; Pass runs *)
(* it.                                                                     *)
(*                                                                         *)
(* A tree is a function from the relative paths it holds to their entries, *)
(* and holds the parent of each.  An entry's data stands for all that      *)
(* Entry::differs_from looks at: size and mtime, or the hash, of a file,   *)
(* the target of a link.  Its mode stands for all that Preserve selects.   *)
(* A link dangles: what lies behind one is outside the tree.               *)
(***************************************************************************)
EXTENDS Paths

CONSTANTS
  Patterns,   \* the exclude patterns
  Temporary,  \* the names that TEMP_PREFIX begins
  Preserve    \* Preserve.mode or Preserve.ownership

\* A pattern with a separator is anchored at the sync root; one without matches
\* its name at every depth.  The wildcards of either are in the names.
ASSUME PatternsAssumption ==
  /\ Patterns \subseteq [anchored : BOOLEAN, path : Path]
  /\ \A pattern \in Patterns : ~pattern.anchored => Len(pattern.path) = 1
ASSUME TemporaryAssumption == Temporary \subseteq Name
ASSUME PreserveAssumption == Preserve \in BOOLEAN

-----------------------------------------------------------------------------
(* trees *)

IsDir(entry)  == entry.kind = "dir"
IsFile(entry) == entry.kind = "file"
IsLink(entry) == entry.kind = "link"

IsTree(tree) ==
  \A p \in DOMAIN tree :
    /\ p # <<>>
    /\ Parent(p) = <<>> \/ (Parent(p) \in DOMAIN tree /\ IsDir(tree[Parent(p)]))

\* The strict ancestors of a path that the tree holds.
Ancestors(tree, path) == {q \in DOMAIN tree : q # path /\ IsUnder(path, q)}

\* A lookup of the path fails with ENOTDIR: it runs into a file on the way.
NotADirectory(tree, path) == \E q \in Ancestors(tree, path) : IsFile(tree[q])

-----------------------------------------------------------------------------
(* Filter::excludes *)

\* Each pattern matches the path it names and everything beneath that.
Excludes(relative) ==
  \E pattern \in Patterns :
    \/ IsUnder(relative, pattern.path)
    \/ /\ ~pattern.anchored
       /\ \E i \in 1..Len(relative) :
            IsUnder(SubSeq(relative, i, Len(relative)), pattern.path)

-----------------------------------------------------------------------------
(* index_scope: walk, walk_subtree and stat_paths *)

Beyond(path, prefix) == SubSeq(path, Len(prefix) + 1, Len(path))

\* A transfer's own file on the way from the root of a walk, or at its end.
IsTransferTemporary(path, root) ==
  \E i \in (Len(root) + 1)..Len(path) : path[i] \in Temporary

\* Variant: the filter is not consulted.
WalkUnfiltered(tree, root) ==
  {p \in DOMAIN tree :
     /\ p # root /\ IsUnder(p, root)
     /\ ~IsTransferTemporary(p, root)}

\* walk is given the directory it starts from as its root, and the filter sees
\* what lies beyond that.
Walk(tree, root) ==
  {p \in DOMAIN tree :
     /\ p # root /\ IsUnder(p, root)
     /\ ~Excludes(Beyond(p, root))
     /\ ~IsTransferTemporary(p, root)}

\* A directory that is named is walked, whatever the filter says of its name.
WalkSubtree(tree, prefix) ==
  Walk(tree, prefix) \cup ({prefix} \cap DOMAIN tree)

\* Absence is an answer; only a path that is named here meets the filter whole.
StatPath(tree, path) ==
  IF Excludes(path) THEN {}
  ELSE IF path = <<>> \/ (path \in DOMAIN tree /\ IsDir(tree[path]))
    THEN WalkSubtree(tree, path)
    ELSE {path} \cap DOMAIN tree

WalkScope(tree, prefix) ==
  IF prefix \in DOMAIN tree /\ ~IsDir(tree[prefix])
    THEN StatPath(tree, prefix)
    ELSE WalkSubtree(tree, prefix)

\* A scope is the set of its paths, or of the one directory to compare in full.
PathsScope(paths) == [kind |-> "paths", roots |-> paths]
SubtreeScope(prefix) == [kind |-> "subtree", roots |-> {prefix}]

Indexed(tree, scope) ==
  UNION {IF scope.kind = "paths" THEN StatPath(tree, p) ELSE WalkScope(tree, p) :
           p \in scope.roots}

IndexScope(tree, scope) == [p \in Indexed(tree, scope) |-> tree[p]]

CannotLookUp(tree, scope, path) ==
  /\ NotADirectory(tree, path)
  /\ scope.kind = "paths" => ~Excludes(path)

\* One path that cannot be looked up fails the index as a whole.
CannotIndex(tree, scope) == \E p \in scope.roots : CannotLookUp(tree, scope, p)

-----------------------------------------------------------------------------
(* plan *)

CreateDir(p)         == [op |-> "create_dir", path |-> p]
CopyFile(p)          == [op |-> "copy_file", path |-> p]
CreateSymlink(p, to) == [op |-> "create_symlink", path |-> p, target |-> to]
Remove(p)            == [op |-> "remove", path |-> p]
SetMetadata(p, mode) == [op |-> "set_metadata", path |-> p, mode |-> mode]

DiffersFrom(entry, other) ==
  \/ entry.kind # other.kind
  \/ ~IsDir(entry) /\ entry.data # other.data

Write(path, entry) ==
  CASE IsDir(entry) -> CreateDir(path)
    [] IsFile(entry) -> CopyFile(path)
    [] IsLink(entry) -> CreateSymlink(path, entry.data)

NeedsReplacing(source, target, path) ==
  path \in DOMAIN target => DiffersFrom(source[path], target[path])

\* Variant: a change of kind removes with deletions off as well.
ComparisonAlwaysClears(source, target, delete, path) ==
  IF ~NeedsReplacing(source, target, path) THEN {}
  ELSE {Write(path, source[path])} \cup
       (IF path \in DOMAIN target /\ IsDir(source[path]) # IsDir(target[path])
          THEN {Remove(path)} ELSE {})

\* What push_comparison pushes: a change of kind is a removal first.
Comparison(source, target, delete, path) ==
  IF ~NeedsReplacing(source, target, path) THEN {}
  ELSE {Write(path, source[path])} \cup
       (IF /\ delete /\ path \in DOMAIN target
           /\ IsDir(source[path]) # IsDir(target[path])
          THEN {Remove(path)} ELSE {})

HasMetadata(entry) == ~IsLink(entry)

\* Metadata::differs_from, in what is to be preserved.
MetadataDiffers(entry, other) == Preserve /\ entry.mode # other.mode

\* Variant: only an entry that is already there is given its mode.
MetadataOfPresent(source, target, path) ==
  IF /\ path \in DOMAIN target
     /\ HasMetadata(source[path]) /\ HasMetadata(target[path])
     /\ MetadataDiffers(source[path], target[path])
    THEN {SetMetadata(path, source[path].mode)}
    ELSE {}

\* push_metadata compares the modes the two indexes saw, whether or not the
\* content is about to be replaced.
MetadataChange(source, target, path) ==
  IF /\ Preserve /\ HasMetadata(source[path])
     /\ path \in DOMAIN target /\ HasMetadata(target[path]) =>
          MetadataDiffers(source[path], target[path])
    THEN {SetMetadata(path, source[path].mode)}
    ELSE {}

\* What the target holds and the source does not, which no event need ever name.
Extraneous(source, target, scope) ==
  (UNION {Beneath(DOMAIN target, p) : p \in scope.roots}) \ DOMAIN source

\* The actions of the plan; delete is ReconcileConfig.delete.  One that two overlapping paths of a scope both push
\* is in it once: each is idempotent.
Plan(source, target, delete, scope) ==
  LET candidates == UNION {Beneath(DOMAIN source, p) : p \in scope.roots}
  IN (UNION {Comparison(source, target, delete, p) \cup MetadataChange(source, target, p) : p \in candidates})
     \cup (IF delete THEN {Remove(p) : p \in Extraneous(source, target, scope)} ELSE {})

Group(action) ==
  CASE action.op = "remove" -> 1
    [] action.op = "set_metadata" -> 3
    [] OTHER -> 2

\* Variant: parents come first in every group.
PrecedesParentsFirst(a, b) ==
  \/ Group(a) < Group(b)
  \/ Group(a) = Group(b) /\ Len(a.path) < Len(b.path)

\* Plan::order: removals and metadata children-first, writes parents-first.
\* What it breaks ties by is left open.
Precedes(a, b) ==
  \/ Group(a) < Group(b)
  \/ /\ Group(a) = Group(b)
     /\ IF Group(a) = 2 THEN Len(a.path) < Len(b.path) ELSE Len(a.path) > Len(b.path)
=============================================================================
