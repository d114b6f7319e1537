------------------------------- MODULE Paths -------------------------------
(***************************************************************************)
(* Filesystem paths as treesync uses them: sequences of component names.   *)
(* A component is an uninterpreted value; what the program compares is     *)
(* whole components, never characters.  <<>> is the path with no component *)
(* at all: the filesystem root for an absolute path, and "the whole tree"  *)
(* for a path relative to a sync root.                                     *)
(***************************************************************************)
EXTENDS Integers, Sequences, FiniteSets

CONSTANT Name           \* component names

Path == Seq(Name)

\* Path::starts_with: whole components, and inclusive of the prefix itself.
IsUnder(path, prefix) ==
  /\ Len(prefix) <= Len(path)
  /\ \A i \in 1..Len(prefix) : path[i] = prefix[i]

\* path.parent().unwrap_or(path): the root is its own parent.
Parent(path) ==
  IF path = <<>> THEN path ELSE SubSeq(path, 1, Len(path) - 1)

\* The positions, counted from the front, up to which two paths agree.
SharedPositions(a, b) ==
  {i \in 1..Len(a) : i <= Len(b) /\ \A j \in 1..i : a[j] = b[j]}

\* watcher/scope.rs common_ancestor: components are taken while they agree.
CommonAncestor(a, b) == SubSeq(a, 1, Cardinality(SharedPositions(a, b)))

\* The members of a set of paths that a walk of "prefix" visits.
Beneath(paths, prefix) == {p \in paths : IsUnder(p, prefix)}
=============================================================================
