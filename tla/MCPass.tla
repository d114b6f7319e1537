------------------------------ MODULE MCPass ------------------------------
(***************************************************************************)
(* Trees over an entry "a" that may be a directory and hold an entry "b"   *)
(* and something that is not to be mirrored: a file or a directory "n",    *)
(* which an exclude pattern without a separator matches, a file "m", which *)
(* one with a separator does, or a transfer's temporary "t".  Any two of   *)
(* them are trees that a pass may find.                                    *)
(***************************************************************************)
EXTENDS Pass

MCName == {"a", "b", "m", "n", "t"}
A  == <<"a">>
AB == <<"a", "b">>
AN == <<"a", "n">>
AM == <<"a", "m">>
AT == <<"a", "t">>
ANB == <<"a", "n", "b">>
N  == <<"n">>

Entries(modes, contents) ==
  [kind : {"file"}, data : contents, mode : modes] \cup
  [kind : {"dir"}, data : {0}, mode : modes] \cup
  [kind : {"link"}, data : {9}, mode : {0}]

TreesOver(paths, entries) ==
  {tree \in UNION {[held -> entries] : held \in SUBSET paths} : IsTree(tree)}

MCTrees == TreesOver({A, AB}, Entries({0, 1}, {1, 2}))
\* With something in "a" that a walk of the whole tree does not list.
HidingTrees ==
  LET plain == Put(NoEntries, A, NewDir)
      more == Put(plain, AB, Fresh("file", 1))
      dir == Put(plain, AN, NewDir)
  IN {Put(more, hidden, Fresh("file", 1)) : hidden \in {AM, AN, AT}} \cup
     {dir, Put(dir, ANB, Fresh("file", 1))}
\* With modes that are not what is new has.
OddTrees ==
  LET odd(kind) == [Fresh(kind, IF kind = "dir" THEN 0 ELSE 1) EXCEPT !.mode = 1]
  IN {Put(NoEntries, A, odd("file")), Put(NoEntries, A, odd("dir")),
      Put(Put(NoEntries, A, NewDir), AB, odd("file")),
      Put(Put(NoEntries, A, odd("dir")), AB, odd("dir"))}
AllTrees == TreesOver({A, AB}, Entries({0}, {1, 2})) \cup HidingTrees \cup OddTrees
\* Three deep, for a pattern that is anchored.
ABN == <<"a", "b", "n">>
DeepTrees == TreesOver({A, AB, ABN}, Entries({0}, {1}))
ExcludedTrees == TreesOver({N}, Entries({0}, {1}))

NamedN == {[anchored |-> FALSE, path |-> N]}
NamedNorM == NamedN \cup {[anchored |-> TRUE, path |-> AM]}
AnchoredBN == {[anchored |-> TRUE, path |-> <<"b", "n">>]}
AnchoredAB == {[anchored |-> TRUE, path |-> AB]}
NamedT == {"t"}

DeleteOn == {TRUE}
Either == {TRUE, FALSE}

MCScopes ==
  {SubtreeScope(<<>>), SubtreeScope(A), SubtreeScope(AB), SubtreeScope(AN),
   PathsScope({A}), PathsScope({AB}), PathsScope({A, AB, AM})}
PathsAgain == {PathsScope({A, AB})}
WholeScope == {SubtreeScope(<<>>)}
BelowTheRoot == {SubtreeScope(A)}
NamingExcluded == {SubtreeScope(N)}
=============================================================================
