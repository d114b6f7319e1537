---------------------------- MODULE DeltaProofs ----------------------------
(***************************************************************************)
(* That the agent ends with the source, for files, reads, blocks and       *)
(* buffers of any size, and any checksum: the weak one takes no part in    *)
(* the argument, which rests on the strong one alone; and that memory is   *)
(* bounded, and a rolled checksum the one of its window.                   *)
(*                                                                         *)
(* What has been read and not produced lies in a row: the ready tokens,    *)
(* the run, the literal, and then what the window has before it.  Each of  *)
(* them spells the source where it lies.                                   *)
(***************************************************************************)
EXTENDS Delta, FiniteSetTheorems, SequenceTheorems, WellFoundedInduction, TLAPS

Token == [kind : {"literal"}, bytes : Seq(Byte)] \cup [kind : {"copy"}, offset : Nat, len : Nat]

Typed ==
  /\ existing \in Seq(Byte) /\ kept \in Seq(Byte) /\ seen \in Seq(Byte)
  /\ buffer \in Seq(Byte) /\ literal \in Seq(Byte) /\ pos \in 0..Len(buffer)
  /\ run \in [start : Nat, len : Nat] /\ ready \in Seq(Token)
  /\ finished \in BOOLEAN /\ at \in {"next", "fill", "scan"} /\ produced \in Nat

\* The token is what the source has behind its first "from" bytes; a copy is from within
\* the base.
Spells(token, from, source, base) ==
  /\ Length(token) > 0 /\ from + Length(token) <= Len(source)
  /\ IF token.kind = "copy"
     THEN /\ token.offset + token.len <= Len(base)
          /\ \A i \in 1..token.len : base[token.offset + i] = source[from + i]
     ELSE \A i \in 1..Len(token.bytes) : token.bytes[i] = source[from + i]

\* The tokens are so, one after the other.
Laid(tokens, from, to, source, base) ==
  \E starts \in [1..(Len(tokens) + 1) -> 0..Len(source)] :
    /\ starts[1] = from /\ starts[Len(tokens) + 1] = to
    /\ \A k \in 1..Len(tokens) : /\ Spells(tokens[k], starts[k], source, base)
                                 /\ starts[k + 1] = starts[k] + Length(tokens[k])
    /\ \A j, k \in 1..(Len(tokens) + 1) : j <= k => starts[j] <= starts[k]

\* The buffer is what was read last.
Buffered ==
  /\ Len(buffer) <= Len(seen)
  /\ \A i \in 1..Len(buffer) : buffer[i] = seen[Len(seen) - Len(buffer) + i]

\* Where in the source the window begins.
Here == Len(seen) - Ahead

InARow ==
  /\ Len(literal) + run.len <= Here
  /\ Laid(ready, produced, Here - Len(literal) - run.len, seen, existing)
  /\ run # NoRun => Spells(Copy(run.start, run.len), Here - Len(literal) - run.len, seen, existing)
  /\ literal # <<>> => Spells(Literal(literal), Here - Len(literal), seen, existing) /\ run = NoRun

\* A step begins with no token ready; the window is filled; at the end nothing is left.
Staged ==
  /\ at = "fill" => ready = <<>>
  /\ at = "scan" => Ahead >= BlockSize
  /\ at # "next" => ~finished
  /\ finished => run = NoRun /\ literal = <<>> /\ Ahead = 0

Reach == IF produced > Len(kept) THEN produced ELSE Len(kept)

Built ==
  /\ rebuilt \in Seq(Byte) /\ Len(rebuilt) = Reach
  /\ \A i \in 1..Len(kept) : rebuilt[i] = kept[i]
  /\ \A i \in (Len(kept) + 1)..produced : rebuilt[i] = seen[i]

IInv == Typed /\ Buffered /\ InARow /\ Staged /\ Built

-----------------------------------------------------------------------------
(* Tokens in a row *)

LEMMA TokenLengths == \A token \in Token : Length(token) \in Nat
BY DEF Token, Length

LEMMA SpellsGrows ==
  ASSUME NEW token \in Token, NEW from \in Nat, NEW source \in Seq(Byte), NEW more \in Seq(Byte),
         NEW base, Spells(token, from, source, base)
  PROVE  Spells(token, from, source \o more, base)
<1>1. /\ Len(source \o more) = Len(source) + Len(more) /\ Len(source) \in Nat /\ Len(more) \in Nat
      /\ \A i \in 1..Len(source) : (source \o more)[i] = source[i]
  OBVIOUS
<1> DEFINE longer == source \o more
<1> HIDE DEF longer
<1>2. CASE token.kind = "copy"
  <2>1. /\ token.len \in Nat /\ token.len > 0 /\ from + token.len <= Len(source)
    BY <1>2 DEF Token, Spells, Length
  <2>2. \A i \in 1..token.len : from + i \in 1..Len(source)
    BY <1>1, <2>1
  <2>3. \A i \in 1..token.len : longer[from + i] = source[from + i]
    BY <1>1, <2>2 DEF longer
  <2> QED
    BY <1>1, <1>2, <2>1, <2>3 DEF Spells, Length, longer
<1>3. CASE token.kind # "copy"
  <2>1. /\ Len(token.bytes) \in Nat /\ Len(token.bytes) > 0 /\ from + Len(token.bytes) <= Len(source)
    BY <1>3 DEF Token, Spells, Length
  <2>2. \A i \in 1..Len(token.bytes) : from + i \in 1..Len(source)
    BY <1>1, <2>1
  <2>3. \A i \in 1..Len(token.bytes) : longer[from + i] = source[from + i]
    BY <1>1, <2>2 DEF longer
  <2> QED
    BY <1>1, <1>3, <2>1, <2>3 DEF Spells, Length, longer
<1> QED
  BY <1>2, <1>3

LEMMA LaidGrows ==
  ASSUME NEW tokens \in Seq(Token), NEW from, NEW to, NEW source \in Seq(Byte), NEW more \in Seq(Byte),
         NEW base, Laid(tokens, from, to, source, base)
  PROVE  Laid(tokens, from, to, source \o more, base)
<1> DEFINE longer == source \o more
<1>1. longer \in Seq(Byte) /\ Len(source) \in Nat /\ Len(longer) \in Nat /\ Len(source) <= Len(longer)
  OBVIOUS
<1>2. PICK starts \in [1..(Len(tokens) + 1) -> 0..Len(source)] :
        /\ starts[1] = from /\ starts[Len(tokens) + 1] = to
        /\ \A k \in 1..Len(tokens) : /\ Spells(tokens[k], starts[k], source, base)
                                     /\ starts[k + 1] = starts[k] + Length(tokens[k])
        /\ \A j, k \in 1..(Len(tokens) + 1) : j <= k => starts[j] <= starts[k]
  BY DEF Laid
<1>3. starts \in [1..(Len(tokens) + 1) -> 0..Len(longer)]
  <2>1. 0..Len(source) \subseteq 0..Len(longer)
    BY <1>1
  <2> HIDE DEF longer
  <2> QED
    BY <2>1
<1>4. \A k \in 1..Len(tokens) : Spells(tokens[k], starts[k], longer, base)
  <2> TAKE k \in 1..Len(tokens)
  <2>1. k \in 1..(Len(tokens) + 1) /\ tokens[k] \in Token
    OBVIOUS
  <2>2. starts[k] \in Nat
    BY <1>1, <2>1
  <2>3. Spells(tokens[k], starts[k], source, base)
    BY <1>2
  <2> QED
    BY <2>1, <2>2, <2>3, SpellsGrows
<1> HIDE DEF longer
<1>5. Laid(tokens, from, to, longer, base)
  BY <1>2, <1>3, <1>4 DEF Laid
<1> QED
  BY <1>5 DEF longer

LEMMA LaidNothing ==
  ASSUME NEW from \in Nat, NEW source \in Seq(Byte), NEW base, from <= Len(source)
  PROVE  Laid(<<>>, from, from, source, base)
<1> DEFINE starts == [k \in 1..1 |-> from]
<1>1. starts \in [1..(Len(<<>>) + 1) -> 0..Len(source)] /\ starts[1] = from /\ Len(<<>>) = 0
  OBVIOUS
<1>2. \A j, k \in 1..(Len(<<>>) + 1) : j <= k => starts[j] <= starts[k]
  OBVIOUS
<1> HIDE DEF starts
<1> QED
  BY <1>1, <1>2 DEF Laid

LEMMA LaidIsNothing ==
  ASSUME NEW from, NEW to, NEW source, NEW base, Laid(<<>>, from, to, source, base)
  PROVE  from = to
BY DEF Laid

LEMMA LaidWithin ==
  ASSUME NEW tokens \in Seq(Token), NEW from, NEW to, NEW source \in Seq(Byte), NEW base,
         Laid(tokens, from, to, source, base)
  PROVE  from \in 0..Len(source) /\ to \in 0..Len(source) /\ from <= to
<1>1. 1 \in 1..(Len(tokens) + 1) /\ Len(tokens) + 1 \in 1..(Len(tokens) + 1)
  OBVIOUS
<1> QED
  BY <1>1 DEF Laid

LEMMA LaidOneMore ==
  ASSUME NEW tokens \in Seq(Token), NEW from, NEW to, NEW source \in Seq(Byte), NEW base,
         NEW token \in Token, Laid(tokens, from, to, source, base), Spells(token, to, source, base)
  PROVE  Laid(Append(tokens, token), from, to + Length(token), source, base)
<1>0. /\ to \in 0..Len(source) /\ Len(source) \in Nat
      /\ Length(token) \in Nat /\ to + Length(token) <= Len(source)
  <2>1. to \in 0..Len(source)
    BY LaidWithin
  <2>2. Length(token) \in Nat
    BY TokenLengths
  <2>3. to + Length(token) <= Len(source)
    BY DEF Spells
  <2> QED
    BY <2>1, <2>2, <2>3
<1> DEFINE n == Len(tokens)
           more == Append(tokens, token)
           after == to + Length(token)
<1>1. n \in Nat /\ Len(more) = n + 1 /\ more[n + 1] = token /\ \A k \in 1..n : more[k] = tokens[k]
  OBVIOUS
<1>2. PICK starts \in [1..(n + 1) -> 0..Len(source)] :
        /\ starts[1] = from /\ starts[n + 1] = to
        /\ \A k \in 1..n : /\ Spells(tokens[k], starts[k], source, base)
                           /\ starts[k + 1] = starts[k] + Length(tokens[k])
        /\ \A j, k \in 1..(n + 1) : j <= k => starts[j] <= starts[k]
  BY DEF Laid
<1>3. to \in 0..Len(source) /\ after \in 0..Len(source) /\ to <= after
  BY <1>0
<1> HIDE DEF n, more, after
<1> DEFINE longer == [k \in 1..((n + 1) + 1) |-> IF k = n + 2 THEN after ELSE starts[k]]
<1>4. /\ longer[n + 2] = after /\ \A k \in 1..(n + 1) : longer[k] = starts[k]
      /\ longer \in [1..((n + 1) + 1) -> 0..Len(source)]
  <2>1. \A k \in 1..((n + 1) + 1) : k # n + 2 => k \in 1..(n + 1)
    BY <1>1
  <2>2. n + 2 \in 1..((n + 1) + 1) /\ \A k \in 1..(n + 1) : k \in 1..((n + 1) + 1) /\ k # n + 2
    BY <1>1
  <2> QED
    BY <1>2, <1>3, <2>1, <2>2
<1>5. \A k \in 1..(n + 1) :
        Spells(more[k], longer[k], source, base) /\ longer[k + 1] = longer[k] + Length(more[k])
  <2> TAKE k \in 1..(n + 1)
  <2>1. CASE k = n + 1
    <3>1. longer[k] = to /\ longer[k + 1] = after /\ more[k] = token
      BY <1>1, <1>2, <1>4, <2>1
    <3> HIDE DEF longer
    <3> QED
      BY <3>1 DEF after
  <2>2. CASE k # n + 1
    <3>1. k \in 1..n /\ k + 1 \in 1..(n + 1)
      BY <1>1, <2>2
    <3>2. longer[k] = starts[k] /\ longer[k + 1] = starts[k + 1] /\ more[k] = tokens[k]
      BY <1>1, <1>4, <3>1
    <3> HIDE DEF longer
    <3> QED
      BY <1>2, <3>1, <3>2
  <2> QED
    BY <2>1, <2>2
<1>6. \A j, k \in 1..((n + 1) + 1) : j <= k => longer[j] <= longer[k]
  <2> HIDE DEF longer
  <2> SUFFICES ASSUME NEW j \in 1..((n + 1) + 1), NEW k \in 1..((n + 1) + 1), j <= k
               PROVE  longer[j] <= longer[k]
    OBVIOUS
  <2>1. CASE k = n + 2
    <3>1. CASE j = n + 2
      BY <1>3, <1>4, <2>1, <3>1
    <3>2. CASE j # n + 2
      <4>1. j \in 1..(n + 1) /\ n + 1 \in 1..(n + 1) /\ j <= n + 1
        BY <1>1, <3>2
      <4>2. starts[j] <= to /\ starts[j] \in Int
        BY <1>2, <4>1
      <4> QED
        BY <1>3, <1>4, <2>1, <4>1, <4>2
    <3> QED
      BY <3>1, <3>2
  <2>2. CASE k # n + 2
    <3>1. j \in 1..(n + 1) /\ k \in 1..(n + 1)
      BY <1>1, <2>2
    <3> QED
      BY <1>2, <1>4, <3>1
  <2> QED
    BY <2>1, <2>2
<1>7. longer[1] = from /\ longer[(n + 1) + 1] = after
  <2>1. 1 \in 1..(n + 1) /\ n + 2 = (n + 1) + 1
    BY <1>1
  <2> HIDE DEF longer
  <2> QED
    BY <1>2, <1>4, <2>1
<1> HIDE DEF longer
<1>8. Laid(more, from, after, source, base)
  BY <1>1, <1>4, <1>5, <1>6, <1>7 DEF Laid
<1> QED
  BY <1>8 DEF more, after

LEMMA LaidOneLess ==
  ASSUME NEW tokens \in Seq(Token), NEW from, NEW to, NEW source \in Seq(Byte), NEW base,
         tokens # <<>>, Laid(tokens, from, to, source, base)
  PROVE  /\ Spells(Head(tokens), from, source, base)
         /\ Laid(Tail(tokens), from + Length(Head(tokens)), to, source, base)
<1> DEFINE n == Len(tokens)
           rest == Tail(tokens)
<1>1. /\ n \in Nat /\ n >= 1 /\ Head(tokens) = tokens[1] /\ Len(rest) = n - 1
      /\ \A k \in 1..(n - 1) : rest[k] = tokens[k + 1]
  OBVIOUS
<1>2. PICK starts \in [1..(n + 1) -> 0..Len(source)] :
        /\ starts[1] = from /\ starts[n + 1] = to
        /\ \A k \in 1..n : /\ Spells(tokens[k], starts[k], source, base)
                           /\ starts[k + 1] = starts[k] + Length(tokens[k])
        /\ \A j, k \in 1..(n + 1) : j <= k => starts[j] <= starts[k]
  BY DEF Laid
<1> HIDE DEF n, rest
<1> DEFINE later == [k \in 1..((n - 1) + 1) |-> starts[k + 1]]
<1>3. \A k \in 1..((n - 1) + 1) : k + 1 \in 1..(n + 1)
  BY <1>1
<1>4. later \in [1..((n - 1) + 1) -> 0..Len(source)]
  BY <1>2, <1>3
<1>5. later[1] = from + Length(Head(tokens)) /\ later[(n - 1) + 1] = to
  <2>1. 1 \in 1..((n - 1) + 1) /\ 1 \in 1..n /\ (n - 1) + 1 \in 1..((n - 1) + 1) /\ ((n - 1) + 1) + 1 = n + 1
    BY <1>1
  <2> QED
    BY <1>1, <1>2, <2>1
<1>6. \A k \in 1..(n - 1) :
        Spells(rest[k], later[k], source, base) /\ later[k + 1] = later[k] + Length(rest[k])
  <2> TAKE k \in 1..(n - 1)
  <2>1. k + 1 \in 1..n /\ k \in 1..((n - 1) + 1) /\ k + 1 \in 1..((n - 1) + 1)
    BY <1>1
  <2>2. later[k] = starts[k + 1] /\ later[k + 1] = starts[(k + 1) + 1] /\ rest[k] = tokens[k + 1]
    BY <1>1, <2>1
  <2> HIDE DEF later
  <2> QED
    BY <1>2, <2>1, <2>2
<1>7. \A j, k \in 1..((n - 1) + 1) : j <= k => later[j] <= later[k]
  BY <1>1, <1>2, <1>3
<1> HIDE DEF later
<1>8. Laid(rest, from + Length(Head(tokens)), to, source, base)
  BY <1>1, <1>4, <1>5, <1>6, <1>7 DEF Laid
<1>9. Spells(Head(tokens), from, source, base)
  <2>1. 1 \in 1..n
    BY <1>1
  <2> QED
    BY <1>1, <1>2, <2>1
<1> QED
  BY <1>8, <1>9 DEF rest

\* A set of natural numbers has a least one, which is what an induction over data needs.
LEMMA LeastNumber ==
  ASSUME NEW S \in SUBSET Nat, S # {}
  PROVE  \E n \in S : \A m \in S : n <= m
<1> DEFINE Less == {pair \in Nat \X Nat : pair[1] < pair[2]}
<1>1. Less = OpToRel(<, Nat)
  BY Zenon DEF OpToRel
<1>2. IsWellFoundedOn(Less, Nat)
  BY <1>1, NatLessThanWellFounded, Zenon
<1> HIDE DEF Less
<1>3. \E n \in S : \A m \in S : ~(<<m, n>> \in Less)
  BY <1>2, WFMin, Zenon
<1>4. \A m, n \in S : ~(<<m, n>> \in Less) => n <= m
  BY DEF Less
<1> QED
  BY <1>3, <1>4

-----------------------------------------------------------------------------
(* Blocks *)

LEMMA MinIsOne ==
  ASSUME NEW S \in SUBSET Nat, S # {}
  PROVE  Min(S) \in S
<1>1. \E n \in S : \A m \in S : n <= m
  BY LeastNumber
<1> QED
  BY <1>1, Zenon DEF Min

LEMMA BlocksFit ==
  ASSUME NEW size \in Nat \ {0}, NEW n \in Nat, NEW i \in 1..(n \div size)
  PROVE  i * size <= n /\ (i - 1) * size \in Nat /\ i * size = (i - 1) * size + size
<1>1. n \div size \in Nat /\ (n \div size) * size <= n
  OBVIOUS
<1>2. i \in Nat /\ i >= 1 /\ i <= n \div size
  BY <1>1
<1>3. i * size <= (n \div size) * size
  <2>1. \A a, b \in Nat : a <= b => a * size <= b * size
    OBVIOUS
  <2> QED
    BY <1>1, <1>2, <2>1
<1>4. i * size \in Nat /\ (n \div size) * size \in Nat
  BY <1>1, <1>2
<1>5. (i - 1) * size \in Nat /\ i * size = (i - 1) * size + size
  BY <1>2
<1> QED
  BY <1>1, <1>3, <1>4, <1>5

\* What the code takes from a match: where in the target the window is.
LEMMA MatchIsABlock ==
  ASSUME existing \in Seq(Byte), NEW window, NEW sum, Matches(window, sum) # {},
         NEW offset, offset = (Min(Matches(window, sum)) - 1) * BlockSize
  PROVE  /\ offset \in Nat /\ offset + BlockSize <= Len(existing)
         /\ window = SubSeq(existing, offset + 1, offset + BlockSize)
<1> DEFINE found == Matches(window, sum)
           i == Min(found)
<1>1. BlockSize \in Nat \ {0} /\ Len(existing) \in Nat
  BY SizesAssumption
<1>2. found \in SUBSET (1..Blocks) /\ Blocks = Len(existing) \div BlockSize
  BY DEF Matches, Blocks
<1>3. found \in SUBSET Nat
  BY <1>2
<1>4. i \in found
  BY <1>3, MinIsOne
<1>5. i \in 1..(Len(existing) \div BlockSize) /\ Block(i) = window
  BY <1>2, <1>4 DEF Matches
<1> HIDE DEF i, found
<1>6. /\ i * BlockSize <= Len(existing) /\ (i - 1) * BlockSize \in Nat
      /\ i * BlockSize = (i - 1) * BlockSize + BlockSize
  BY <1>1, <1>5, BlocksFit
<1>7. offset = (i - 1) * BlockSize
  BY DEF i, found
<1> QED
  BY <1>5, <1>6, <1>7 DEF Block

-----------------------------------------------------------------------------
(* The weak checksum *)

\* What the loop of Rolling::new has added up after one byte more.
Added(sums, window, i) ==
  [a |-> sums.a + window[i], b |-> sums.b + (Len(window) - i + 1) * window[i]]

\* What it has added up after each byte.
Loop(sums, window, n) ==
  /\ sums \in [0..n -> [a : Int, b : Int]]
  /\ sums[0] = [a |-> 0, b |-> 0]
  /\ \A i \in 1..n : sums[i] = Added(sums[i - 1], window, i)

LEMMA AddedIsSums ==
  ASSUME NEW window \in Seq(Nat), NEW i \in 1..Len(window), NEW sums \in [a : Int, b : Int]
  PROVE  Added(sums, window, i) \in [a : Int, b : Int]
<1>1. window[i] \in Nat /\ Len(window) - i + 1 \in Int /\ sums.a \in Int /\ sums.b \in Int
  OBVIOUS
<1>2. \A p, q, r \in Int : p + q * r \in Int
  OBVIOUS
<1> QED
  BY <1>1, <1>2 DEF Added

LEMMA LoopGoesOn ==
  ASSUME NEW window \in Seq(Nat), NEW n \in 0..(Len(window) - 1), NEW sums, Loop(sums, window, n)
  PROVE  \E more : Loop(more, window, n + 1)
<1> DEFINE next == Added(sums[n], window, n + 1)
           more == [i \in 0..(n + 1) |-> IF i = n + 1 THEN next ELSE sums[i]]
<1>1. n \in Nat /\ n + 1 \in 1..Len(window) /\ (n + 1) - 1 = n
  OBVIOUS
<1>2. sums \in [0..n -> [a : Int, b : Int]]
  BY DEF Loop
<1>3. next \in [a : Int, b : Int]
  BY <1>1, <1>2, AddedIsSums
<1> HIDE DEF next
<1>4. more \in [0..(n + 1) -> [a : Int, b : Int]]
  BY <1>1, <1>2, <1>3
<1>5. more[0] = [a |-> 0, b |-> 0]
  BY <1>1 DEF Loop
<1>6. \A i \in 1..(n + 1) : more[i] = Added(more[i - 1], window, i)
  <2> TAKE i \in 1..(n + 1)
  <2>1. CASE i = n + 1
    <3>1. i \in 0..(n + 1) /\ n \in 0..(n + 1) /\ n # n + 1 /\ i - 1 = n
      BY <1>1, <2>1
    <3>2. more[i] = next /\ more[i - 1] = sums[n]
      BY <2>1, <3>1
    <3> HIDE DEF more
    <3> QED
      BY <2>1, <3>2 DEF next
  <2>2. CASE i # n + 1
    <3>1. i \in 1..n /\ i \in 0..(n + 1) /\ i - 1 \in 0..(n + 1) /\ i - 1 # n + 1
      BY <1>1, <2>2
    <3>2. more[i] = sums[i] /\ more[i - 1] = sums[i - 1]
      BY <2>2, <3>1
    <3> HIDE DEF more
    <3> QED
      BY <3>1, <3>2 DEF Loop
  <2> QED
    BY <2>1, <2>2
<1> HIDE DEF more
<1> QED
  BY <1>4, <1>5, <1>6 DEF Loop

LEMMA LoopExists ==
  ASSUME NEW window \in Seq(Nat)
  PROVE  \E sums : Loop(sums, window, Len(window))
<1> DEFINE Bad == {n \in 0..Len(window) : ~\E sums : Loop(sums, window, n)}
<1>1. Len(window) \in Nat
  OBVIOUS
<1>2. 0 \notin Bad
  <2> DEFINE zero == [i \in 0..0 |-> [a |-> 0, b |-> 0]]
  <2>1. Loop(zero, window, 0)
    BY DEF Loop
  <2> HIDE DEF zero
  <2> QED
    BY <2>1
<1>3. ASSUME NEW n \in Bad, \A m \in Bad : n <= m
      PROVE  FALSE
  <2>1. n \in Nat /\ n # 0 /\ n <= Len(window)
    BY <1>1, <1>2, <1>3
  <2>2. n - 1 \in 0..(Len(window) - 1) /\ n - 1 \notin Bad /\ n - 1 \in 0..Len(window) /\ (n - 1) + 1 = n
    BY <1>1, <1>3, <2>1
  <2>3. PICK sums : Loop(sums, window, n - 1)
    BY <2>2
  <2>4. \E more : Loop(more, window, n)
    BY <2>2, <2>3, LoopGoesOn
  <2> QED
    BY <1>3, <2>4
<1>4. Bad = {}
  <2>1. Bad \in SUBSET Nat
    BY <1>1
  <2> HIDE DEF Bad
  <2> QED
    BY <1>3, <2>1, LeastNumber
<1> QED
  BY <1>1, <1>4

LEMMA SumsIsTheLoop ==
  ASSUME NEW window \in Seq(Nat)
  PROVE  Loop(Sums(window), window, Len(window))
<1> DEFINE n == Len(window)
           Body(f) == [i \in 0..n |-> IF i = 0 THEN [a |-> 0, b |-> 0]
                                      ELSE [a |-> f[i - 1].a + window[i],
                                            b |-> f[i - 1].b + (Len(window) - i + 1) * window[i]]]
<1>1. n \in Nat
  OBVIOUS
<1>2. PICK sums : Loop(sums, window, n)
  BY LoopExists
<1>3. sums = Body(sums)
  <2>1. sums \in [0..n -> [a : Int, b : Int]]
    BY <1>2 DEF Loop
  <2>2. \A i \in 0..n : sums[i] = Body(sums)[i]
    <3> TAKE i \in 0..n
    <3>1. CASE i = 0
      BY <1>2, <3>1 DEF Loop
    <3>2. CASE i # 0
      <4>1. i \in 1..n
        BY <1>1, <3>2
      <4>2. sums[i] = Added(sums[i - 1], window, i)
        BY <1>2, <4>1 DEF Loop
      <4> QED
        BY <3>2, <4>2 DEF Added
    <3> QED
      BY <3>1, <3>2
  <2> QED
    BY <2>1, <2>2
<1>4. Sums(window) = CHOOSE f : f = Body(f)
  BY DEF Sums
<1> HIDE DEF Body
<1>5. Sums(window) = Body(Sums(window))
  BY <1>3, <1>4
<1> DEFINE s == Sums(window)
<1>6. s = Body(s)
  BY <1>5
<1> HIDE DEF s
<1>7. s[0] = [a |-> 0, b |-> 0]
  BY <1>1, <1>6 DEF Body
<1>8. \A i \in 1..n : s[i] = Added(s[i - 1], window, i)
  <2> TAKE i \in 1..n
  <2>1. i \in 0..n /\ i # 0
    BY <1>1
  <2>2. Body(s)[i] = Added(s[i - 1], window, i)
    BY <2>1 DEF Body, Added
  <2> QED
    BY <1>6, <2>2
<1>9. \A i \in 0..n : s[i] \in [a : Int, b : Int]
  <2> DEFINE Bad == {i \in 0..n : s[i] \notin [a : Int, b : Int]}
  <2>1. ASSUME NEW i \in Bad, \A m \in Bad : i <= m
        PROVE  FALSE
    <3>1. i # 0 /\ i \in 1..n
      BY <1>1, <1>7, <2>1
    <3>2. i - 1 \in 0..n /\ i - 1 \notin Bad
      BY <1>1, <2>1, <3>1
    <3>3. s[i - 1] \in [a : Int, b : Int]
      BY <3>2
    <3>4. s[i] \in [a : Int, b : Int]
      BY <1>8, <3>1, <3>3, AddedIsSums
    <3> QED
      BY <2>1, <3>4
  <2>2. Bad \in SUBSET Nat
    BY <1>1
  <2>3. Bad = {}
    <3> HIDE DEF Bad
    <3> QED
      BY <2>1, <2>2, LeastNumber
  <2> QED
    BY <2>3
<1>10. s \in [0..n -> [a : Int, b : Int]]
  <2>1. s = [i \in 0..n |-> s[i]]
    BY <1>6 DEF Body
  <2> QED
    BY <1>9, <2>1
<1> QED
  BY <1>7, <1>8, <1>10 DEF Loop, s

\* The window one byte on.
Moves(window, moved, inbound) ==
  /\ Len(moved) = Len(window) /\ moved[Len(window)] = inbound
  /\ \A i \in 1..(Len(window) - 1) : moved[i] = window[i + 1]

\* Byte by byte, what the loop adds up over the next window from what it has added up
\* over this one.
LEMMA SumsMove ==
  ASSUME NEW window \in Seq(Nat), NEW moved \in Seq(Nat), NEW inbound \in Nat, Len(window) > 0,
         Moves(window, moved, inbound)
  PROVE  \A k \in 0..(Len(window) - 1) :
           /\ Sums(moved)[k].a = Sums(window)[k + 1].a - window[1]
           /\ Sums(moved)[k].b = Sums(window)[k + 1].b - Len(window) * window[1]
                                  + Sums(window)[k + 1].a - window[1]
<1> DEFINE n == Len(window)
           s == Sums(window)
           t == Sums(moved)
           first == window[1]
           Holds(i) == /\ t[i].a = s[i + 1].a - first
                       /\ t[i].b = s[i + 1].b - n * first + s[i + 1].a - first
           Bad == {i \in 0..(n - 1) : ~Holds(i)}
<1>1. n \in Nat /\ n >= 1 /\ first \in Nat
  OBVIOUS
<1>2. Loop(s, window, n) /\ Loop(t, moved, n)
  BY SumsIsTheLoop DEF Moves
<1> HIDE DEF s, t
<1>3. \A i \in 0..n : s[i].a \in Int /\ s[i].b \in Int /\ t[i].a \in Int /\ t[i].b \in Int
  BY <1>2 DEF Loop
<1>4. \A i \in 1..n : /\ s[i].a = s[i - 1].a + window[i]
                      /\ s[i].b = s[i - 1].b + (n - i + 1) * window[i]
                      /\ t[i].a = t[i - 1].a + moved[i]
                      /\ t[i].b = t[i - 1].b + (n - i + 1) * moved[i]
  <2> TAKE i \in 1..n
  <2>1. s[i] = Added(s[i - 1], window, i) /\ t[i] = Added(t[i - 1], moved, i) /\ Len(moved) = n
    BY <1>2 DEF Loop, Moves
  <2> QED
    BY <2>1 DEF Added
<1>5. s[0].a = 0 /\ s[0].b = 0 /\ t[0].a = 0 /\ t[0].b = 0
  BY <1>2 DEF Loop
<1>6. 0 \notin Bad
  <2>1. s[1].a = 0 + first /\ s[1].b = 0 + n * first
    <3>1. 1 \in 1..n /\ 1 - 1 = 0 /\ n - 1 + 1 = n
      BY <1>1
    <3> QED
      BY <1>4, <1>5, <3>1
  <2> DEFINE wide == n * first
             sa == s[1].a
             sb == s[1].b
  <2>2. wide \in Int /\ first \in Int /\ sa = first /\ sb = wide
    BY <1>1, <2>1
  <2> HIDE DEF first, wide, sa, sb
  <2>3. 0 = sa - first /\ 0 = sb - wide + sa - first
    BY <2>2
  <2>4. Holds(0)
    BY <1>5, <2>3 DEF sa, sb, wide
  <2> QED
    BY <2>4
<1>7. ASSUME NEW i \in Bad, \A m \in Bad : i <= m
      PROVE  FALSE
  <2> HIDE DEF Holds
  <2>1. i \in 0..(n - 1) /\ i # 0
    BY <1>6, <1>7
  <2>2. /\ i \in 1..(n - 1) /\ i \in Nat /\ i <= n - 1 /\ i >= 1 /\ i + 1 \in 1..n /\ i \in 1..n
        /\ i + 1 \in 0..n /\ i \in 0..n /\ i - 1 \in 0..n /\ i - 1 \in 0..(n - 1) /\ (i - 1) + 1 = i
    BY <1>1, <2>1
  <2>3. i - 1 \notin Bad
    BY <1>1, <1>7, <2>2
  <2>4. Holds(i - 1)
    BY <2>2, <2>3
  <2> DEFINE byte == window[i + 1]
  <2>5. byte \in Nat /\ moved[i] = byte
    <3>1. window[i + 1] \in Nat
      BY <2>2
    <3> QED
      BY <2>2, <3>1 DEF Moves
  <2>6. /\ t[i].a = t[i - 1].a + byte /\ t[i].b = t[i - 1].b + (n - i + 1) * byte
    BY <1>4, <2>2, <2>5
  <2>7. s[i + 1].a = s[i].a + byte /\ s[i + 1].b = s[i].b + (n - i) * byte
    <3>1. (i + 1) - 1 = i /\ n - (i + 1) + 1 = n - i
      BY <1>1, <2>2
    <3>2. /\ s[i + 1].a = s[(i + 1) - 1].a + window[i + 1]
          /\ s[i + 1].b = s[(i + 1) - 1].b + (n - (i + 1) + 1) * window[i + 1]
      BY <1>4, <2>2
    <3> HIDE DEF n
    <3> QED
      BY <3>1, <3>2
  <2>8. t[i - 1].a = s[i].a - first /\ t[i - 1].b = s[i].b - n * first + s[i].a - first
    BY <2>2, <2>4 DEF Holds
  <2> HIDE DEF byte, n, first
  <2>9. (n - i + 1) * byte = (n - i) * byte + byte /\ (n - i) * byte \in Int /\ n * first \in Int
    <3>1. \A c, d \in Int : (c + 1) * d = c * d + d /\ c * d \in Int
      OBVIOUS
    <3>2. n - i \in Int /\ byte \in Int /\ n \in Int /\ first \in Int
      BY <1>1, <2>2, <2>5
    <3> QED
      BY <3>1, <3>2
  <2>10. /\ s[i].a \in Int /\ s[i].b \in Int /\ s[i + 1].a \in Int /\ s[i + 1].b \in Int
    BY <1>3, <2>2
  <2> DEFINE wide == n * first
             rest == (n - i) * byte
             sa == s[i].a
             sb == s[i].b
             ta == t[i - 1].a
             tb == t[i - 1].b
             na == s[i + 1].a
             nb == s[i + 1].b
             ua == t[i].a
             ub == t[i].b
  <2>11. /\ ua = ta + byte /\ ub = tb + (rest + byte)
         /\ na = sa + byte /\ nb = sb + rest
         /\ ta = sa - first /\ tb = sb - wide + sa - first
         /\ wide \in Int /\ rest \in Int /\ sa \in Int /\ sb \in Int /\ byte \in Int /\ first \in Int
    BY <1>1, <2>5, <2>6, <2>7, <2>8, <2>9, <2>10
  <2> HIDE DEF wide, rest, sa, sb, ta, tb, na, nb, ua, ub
  <2>12. ua = na - first /\ ub = nb - wide + na - first
    BY <2>11
  <2>13. Holds(i)
    BY <2>12 DEF Holds, wide, na, nb, ua, ub
  <2> QED
    BY <1>7, <2>13
<1>8. Bad = {}
  <2>1. Bad \in SUBSET Nat
    BY <1>1
  <2> HIDE DEF Bad
  <2> QED
    BY <1>7, <2>1, LeastNumber
<1>9. \A i \in 0..(n - 1) : Holds(i)
  <2> HIDE DEF Holds
  <2> QED
    BY <1>8
<1> QED
  BY <1>9 DEF s, t

LEMMA SmallMultiple ==
  ASSUME NEW m \in Nat \ {0}, NEW k \in Int, -m < m * k, m * k < m
  PROVE  k = 0
<1>1. \A a, b \in Nat : a * b >= 0
  OBVIOUS
<1>2. CASE k >= 1
  <2>1. m * (k - 1) >= 0 /\ m * (k - 1) = m * k - m
    BY <1>1, <1>2
  <2> QED
    BY <2>1
<1>3. CASE k <= -1
  <2>1. m * (-1 - k) >= 0 /\ m * (-1 - k) = -m - m * k
    BY <1>1, <1>3
  <2> QED
    BY <2>1
<1> QED
  BY <1>2, <1>3

LEMMA Division ==
  ASSUME NEW m \in Nat \ {0}, NEW u \in Int
  PROVE  u \div m \in Int /\ u % m \in 0..(m - 1) /\ u = m * (u \div m) + (u % m)
OBVIOUS

LEMMA RemainderIsUnique ==
  ASSUME NEW m \in Nat \ {0}, NEW u \in Int, NEW q \in Int, NEW r \in 0..(m - 1), u = m * q + r
  PROVE  u % m = r
<1> DEFINE d == u \div m
           s == u % m
<1>1. d \in Int /\ s \in 0..(m - 1) /\ u = m * d + s
  BY Division
<1> HIDE DEF d, s
<1>2. m * (d - q) = r - s
  BY <1>1
<1>3. d - q = 0
  BY <1>1, <1>2, SmallMultiple
<1>4. s = r
  BY <1>1, <1>2, <1>3
<1> QED
  BY <1>4 DEF s

\* What has wrapped may be added to.
LEMMA RemainderOfSum ==
  ASSUME NEW m \in Nat \ {0}, NEW u \in Int, NEW v \in Int
  PROVE  ((u % m) + v) % m = (u + v) % m
<1> DEFINE d == u \div m
           s == u % m
           e == (s + v) \div m
           r == (s + v) % m
<1>1. d \in Int /\ s \in 0..(m - 1) /\ u = m * d + s
  BY Division
<1>2. e \in Int /\ r \in 0..(m - 1) /\ s + v = m * e + r
  BY <1>1, Division
<1> HIDE DEF d, s, e, r
<1> DEFINE w == u + v
           f == d + e
<1>3. w \in Int /\ f \in Int /\ w = m * f + r
  BY <1>1, <1>2
<1> HIDE DEF w, f
<1>4. w % m = r
  BY <1>2, <1>3, RemainderIsUnique
<1> QED
  BY <1>4 DEF r, s, w

\* Rolled, the checksum is that of the next window, wherever its halves wrap.
LEMMA RollIsTheNextSum ==
  ASSUME NEW window \in Seq(Nat), NEW moved \in Seq(Nat), NEW inbound \in Nat,
         Len(window) = BlockSize, Moves(window, moved, inbound)
  PROVE  Roll(Sum(window), window[1], inbound) = Sum(moved)
<1> DEFINE n == BlockSize
           m == WeakBase
           out == window[1]
           s == Sums(window)
           t == Sums(moved)
<1>1. n \in Nat /\ n >= 1 /\ m \in Nat \ {0} /\ Len(moved) = n /\ out \in Nat
  BY SizesAssumption DEF Moves
<1>2. Loop(s, window, n) /\ Loop(t, moved, n)
  BY <1>1, SumsIsTheLoop
<1> DEFINE A == s[n].a
           B == s[n].b
           A2 == t[n].a
           B2 == t[n].b
<1>3. A \in Int /\ B \in Int /\ A2 \in Int /\ B2 \in Int
  <2>1. n \in 0..n
    BY <1>1
  <2>2. s[n] \in [a : Int, b : Int] /\ t[n] \in [a : Int, b : Int]
    BY <1>2, <2>1 DEF Loop
  <2> QED
    BY <2>2
<1>4. A2 = A - out + inbound /\ B2 = B - n * out + A2
  <2>1. n - 1 \in 0..(n - 1) /\ (n - 1) + 1 = n /\ n \in 1..n /\ n - 1 \in 0..n
    BY <1>1
  <2>2. t[n - 1].a = A - out /\ t[n - 1].b = B - n * out + A - out
    <3> HIDE DEF s, t
    <3>1. n - 1 \in 0..(Len(window) - 1) /\ Len(window) > 0
      BY <1>1, <2>1
    <3>2. \A k \in 0..(Len(window) - 1) :
            /\ t[k].a = s[k + 1].a - window[1]
            /\ t[k].b = s[k + 1].b - Len(window) * window[1] + s[k + 1].a - window[1]
      BY <3>1, SumsMove DEF s, t
    <3>3. /\ t[n - 1].a = s[(n - 1) + 1].a - window[1]
          /\ t[n - 1].b = s[(n - 1) + 1].b - Len(window) * window[1] + s[(n - 1) + 1].a - window[1]
      BY <3>1, <3>2
    <3> QED
      BY <2>1, <3>3
  <2>3. t[n] = Added(t[n - 1], moved, n) /\ moved[n] = inbound
    BY <1>2, <2>1 DEF Loop, Moves
  <2>4. A2 = t[n - 1].a + inbound /\ B2 = t[n - 1].b + (n - n + 1) * inbound
    BY <1>1, <2>3 DEF Added
  <2>5. (n - n + 1) * inbound = inbound
    BY <1>1
  <2>6. n * out \in Int
    BY <1>1
  <2> HIDE DEF A, B, A2, B2, n, out
  <2> QED
    BY <1>1, <1>3, <2>2, <2>4, <2>5, <2>6
<1>5. /\ Sum(window) = [a |-> A % m, b |-> B % m]
      /\ Sum(moved) = [a |-> A2 % m, b |-> B2 % m]
  BY <1>1 DEF Sum
<1> DEFINE no == n * out
<1>6. no \in Int
  BY <1>1
<1>7. Roll(Sum(window), out, inbound) =
        [a |-> ((A % m) - out + inbound) % m, b |-> ((B % m) - no + (((A % m) - out + inbound) % m)) % m]
  BY <1>5 DEF Roll
<1> HIDE DEF A, B, A2, B2, n, m, out, no
<1>8. ((A % m) - out + inbound) % m = A2 % m
  <2>1. (A % m) \in Int /\ (-out + inbound) \in Int
    BY <1>1, <1>3, Division
  <2>2. (A % m) - out + inbound = (A % m) + (-out + inbound) /\ A2 = A + (-out + inbound)
    BY <1>1, <1>3, <1>4, <2>1
  <2>3. ((A % m) + (-out + inbound)) % m = (A + (-out + inbound)) % m
    BY <1>1, <1>3, <2>1, RemainderOfSum
  <2> QED
    BY <2>2, <2>3
<1>9. ((B % m) - no + (A2 % m)) % m = B2 % m
  <2>1. (A2 % m) \in Int /\ (B % m) \in Int
    BY <1>1, <1>3, Division
  <2>2. ((B % m) + (-no + (A2 % m))) % m = (B + (-no + (A2 % m))) % m
    <3>1. -no + (A2 % m) \in Int
      BY <1>6, <2>1
    <3> QED
      BY <1>1, <1>3, <3>1, RemainderOfSum
  <2>3. ((A2 % m) + (B - no)) % m = (A2 + (B - no)) % m
    <3>1. B - no \in Int
      BY <1>3, <1>6
    <3> QED
      BY <1>1, <1>3, <3>1, RemainderOfSum
  <2>4. /\ (B % m) - no + (A2 % m) = (B % m) + (-no + (A2 % m))
        /\ B + (-no + (A2 % m)) = (A2 % m) + (B - no)
        /\ A2 + (B - no) = B2
    <3>1. B2 = B - no + A2
      BY <1>4 DEF no
    <3> QED
      BY <1>3, <1>6, <2>1, <3>1
  <2> QED
    BY <2>2, <2>3, <2>4
<1> QED
  BY <1>5, <1>7, <1>8, <1>9 DEF out

-----------------------------------------------------------------------------
(* Steps *)

LEMMA Initially == Init => IInv
<1> SUFFICES ASSUME Init
             PROVE  IInv
  OBVIOUS
<1>1. existing \in Seq(Byte) /\ kept \in Seq(Byte) /\ Len(kept) \in Nat
  BY FilesAssumption DEF Init
<1>2. Typed
  <2>1. seen \in Seq(Byte) /\ buffer \in Seq(Byte) /\ literal \in Seq(Byte) /\ ready \in Seq(Token)
    BY DEF Init
  <2>2. pos \in 0..Len(buffer)
    BY DEF Init
  <2>3. run \in [start : Nat, len : Nat] /\ produced \in Nat
    BY DEF Init, NoRun
  <2>4. finished \in BOOLEAN /\ at \in {"next", "fill", "scan"}
    BY DEF Init
  <2> QED
    BY <1>1, <2>1, <2>2, <2>3, <2>4 DEF Typed
<1>3. Len(seen) = 0 /\ Len(buffer) = 0 /\ Len(literal) = 0 /\ Ahead = 0 /\ Here = 0
  BY DEF Init, Ahead, Here
<1>4. Laid(ready, produced, Here - Len(literal) - run.len, seen, existing)
  <2>1. Laid(<<>>, 0, 0, seen, existing)
    <3>1. seen \in Seq(Byte) /\ 0 <= Len(seen) /\ 0 \in Nat
      BY <1>2, <1>3 DEF Typed
    <3> QED
      BY <3>1, LaidNothing
  <2> QED
    BY <1>3, <2>1 DEF Init, NoRun
<1>5. Buffered /\ InARow /\ Staged
  BY <1>3, <1>4 DEF Init, Buffered, InARow, Staged, NoRun
<1>6. Built
  BY <1>1 DEF Init, Built, Reach
<1> QED
  BY <1>2, <1>5, <1>6 DEF IInv

\* The numbers that the steps are about.
LEMMA Numbers ==
  ASSUME IInv
  PROVE  /\ BlockSize \in Nat /\ BlockSize >= 1
         /\ Len(seen) \in Nat /\ Len(buffer) \in Nat /\ Len(literal) \in Nat /\ Len(kept) \in Nat
         /\ run.len \in Nat /\ run.start \in Nat /\ produced \in Nat /\ pos \in Nat
         /\ Ahead = Len(buffer) - pos /\ Ahead \in 0..Len(buffer)
         /\ Here = Len(seen) - Ahead /\ Here \in 0..Len(seen)
         /\ produced <= Here - Len(literal) - run.len /\ produced <= Len(seen)
<1>1. BlockSize \in Nat /\ BlockSize >= 1
  BY SizesAssumption
<1>2. /\ Len(seen) \in Nat /\ Len(buffer) \in Nat /\ Len(literal) \in Nat /\ Len(kept) \in Nat
      /\ run.len \in Nat /\ run.start \in Nat /\ produced \in Nat /\ pos \in Nat /\ pos <= Len(buffer)
  BY DEF IInv, Typed
<1>3. Len(buffer) <= Len(seen)
  BY DEF IInv, Buffered
<1>4. produced <= Here - Len(literal) - run.len
  <2>1. Laid(ready, produced, Here - Len(literal) - run.len, seen, existing)
    BY DEF IInv, InARow
  <2>2. ready \in Seq(Token) /\ seen \in Seq(Byte)
    BY DEF IInv, Typed
  <2> QED
    BY <2>1, <2>2, LaidWithin
<1>5. Ahead = Len(buffer) - pos /\ Here = Len(seen) - Ahead
  BY DEF Ahead, Here
<1> QED
  BY <1>1, <1>2, <1>3, <1>4, <1>5

\* What the agent has built does not change with the source's being read on.
LEMMA BuiltStays ==
  ASSUME IInv, UNCHANGED <<kept, produced, rebuilt>>, NEW more \in Seq(Byte), seen' = seen \o more
  PROVE  Built'
<1>1. /\ seen \in Seq(Byte) /\ produced \in Nat /\ Len(kept) \in Nat /\ produced <= Len(seen)
  BY Numbers DEF IInv, Typed
<1>2. \A i \in (Len(kept) + 1)..produced : i \in 1..Len(seen)
  BY <1>1
<1>3. \A i \in 1..Len(seen) : seen'[i] = seen[i]
  BY <1>1
<1>4. \A i \in (Len(kept) + 1)..produced : rebuilt[i] = seen'[i]
  BY <1>2, <1>3 DEF IInv, Built
<1>5. rebuilt \in Seq(Byte) /\ Len(rebuilt) = Reach /\ \A i \in 1..Len(kept) : rebuilt[i] = kept[i]
  BY DEF IInv, Built
<1> QED
  BY <1>4, <1>5 DEF Built, Reach

LEMMA StartStepKeeps == IInv /\ StartStep => IInv'
<1> SUFFICES ASSUME IInv, StartStep
             PROVE  IInv'
  OBVIOUS
<1>1. CASE UNCHANGED <<buffer, pos>>
  BY <1>1 DEF IInv, StartStep, Typed, Buffered, InARow, Here, Ahead, Staged, Built, Reach, link, sourceVars
<1>2. CASE buffer' = Beyond(buffer, pos) /\ pos' = 0
  <2>1. buffer \in Seq(Byte) /\ pos \in 0..Len(buffer) /\ Len(buffer) <= Len(seen) /\ Len(seen) \in Nat
    BY Numbers DEF IInv, Typed, Buffered
  <2>2. /\ buffer' \in Seq(Byte) /\ Len(buffer') = Len(buffer) - pos
        /\ \A i \in 1..Len(buffer') : buffer'[i] = buffer[pos + i]
    BY <1>2, <2>1 DEF Beyond
  <2>3. UNCHANGED <<existing, kept, seen, literal, run, ready, finished, produced, rebuilt>> /\ at' = "fill"
    BY DEF StartStep, sourceVars, link
  <2>4. Ahead' = Ahead /\ Here' = Here
    BY <1>2, <2>1, <2>2, <2>3 DEF Ahead, Here
  <2>5. Buffered'
    <3> SUFFICES ASSUME NEW i \in 1..Len(buffer')
                 PROVE  buffer'[i] = seen[Len(seen) - Len(buffer') + i]
      BY <2>1, <2>2, <2>3 DEF Buffered
    <3>1. pos + i \in 1..Len(buffer) /\ Len(seen) - Len(buffer) + (pos + i) = Len(seen) - Len(buffer') + i
      BY <2>1, <2>2
    <3> QED
      BY <2>2, <3>1 DEF IInv, Buffered
  <2>6. Typed'
    BY <1>2, <2>2, <2>3 DEF IInv, Typed
  <2>7. InARow' /\ Built'
    BY <2>3, <2>4 DEF IInv, InARow, Built, Reach
  <2>8. Staged'
    BY <2>3, <2>4 DEF IInv, Staged, StartStep
  <2> QED
    BY <2>5, <2>6, <2>7, <2>8 DEF IInv
<1> QED
  BY <1>1, <1>2 DEF StartStep

LEMMA ReadKeeps == IInv /\ Read => IInv'
<1> SUFFICES ASSUME IInv, Read
             PROVE  IInv'
  OBVIOUS
<1>1. PICK n \in 1..ReadAhead : \E bytes \in [1..n -> Byte] : seen' = seen \o bytes /\ buffer' = buffer \o bytes
  BY DEF Read
<1>2. PICK bytes \in [1..n -> Byte] : seen' = seen \o bytes /\ buffer' = buffer \o bytes
  BY <1>1
<1>3. n \in Nat /\ bytes \in Seq(Byte) /\ Len(bytes) = n
  BY SizesAssumption
<1>4. /\ UNCHANGED <<existing, kept, pos, literal, run, ready, finished, at, produced, rebuilt>>
      /\ at = "fill"
  BY DEF Read, sourceVars, link
<1>5. seen \in Seq(Byte) /\ buffer \in Seq(Byte) /\ pos \in 0..Len(buffer) /\ Len(buffer) <= Len(seen)
  BY DEF IInv, Typed, Buffered
<1>6. /\ seen' \in Seq(Byte) /\ Len(seen') = Len(seen) + n
      /\ buffer' \in Seq(Byte) /\ Len(buffer') = Len(buffer) + n
      /\ \A i \in 1..Len(seen) : seen'[i] = seen[i]
      /\ \A i \in 1..n : seen'[Len(seen) + i] = bytes[i]
      /\ \A i \in 1..Len(buffer) : buffer'[i] = buffer[i]
      /\ \A i \in 1..n : buffer'[Len(buffer) + i] = bytes[i]
  BY <1>2, <1>3, <1>5
<1>7. Here' = Here
  BY <1>3, <1>4, <1>5, <1>6 DEF Here, Ahead
<1>8. Typed'
  BY <1>3, <1>4, <1>5, <1>6 DEF IInv, Typed
<1>9. Buffered'
  <2> SUFFICES ASSUME NEW i \in 1..Len(buffer')
               PROVE  buffer'[i] = seen'[Len(seen') - Len(buffer') + i]
    BY <1>3, <1>5, <1>6 DEF Buffered
  <2>1. Len(seen') - Len(buffer') + i = Len(seen) - Len(buffer) + i
    BY <1>3, <1>5, <1>6
  <2>2. CASE i <= Len(buffer)
    <3>1. i \in 1..Len(buffer) /\ Len(seen) - Len(buffer) + i \in 1..Len(seen)
      BY <1>3, <1>5, <1>6, <2>2
    <3> QED
      BY <1>6, <2>1, <3>1 DEF IInv, Buffered
  <2>3. CASE i > Len(buffer)
    <3> DEFINE j == i - Len(buffer)
    <3>1. /\ j \in 1..n /\ i = Len(buffer) + j
          /\ Len(seen) - Len(buffer) + i = Len(seen) + j
      BY <1>3, <1>5, <1>6, <2>3
    <3> HIDE DEF j
    <3> QED
      BY <1>6, <2>1, <3>1
  <2> QED
    BY <1>5, <2>2, <2>3
<1>10. InARow'
  <2> DEFINE p == Here - Len(literal) - run.len
             q == Here - Len(literal)
  <2>1. /\ Len(literal) + run.len <= Here
        /\ Laid(ready, produced, p, seen, existing)
        /\ run # NoRun => Spells(Copy(run.start, run.len), p, seen, existing)
        /\ literal # <<>> => Spells(Literal(literal), q, seen, existing) /\ run = NoRun
    BY DEF IInv, InARow
  <2>2. /\ ready \in Seq(Token) /\ Copy(run.start, run.len) \in Token /\ Literal(literal) \in Token
        /\ p \in Nat /\ q \in Nat
    <3>1. ready \in Seq(Token) /\ run.start \in Nat /\ run.len \in Nat /\ literal \in Seq(Byte)
      BY DEF IInv, Typed
    <3>2. /\ Here \in Int /\ Len(literal) \in Nat /\ run.len \in Nat /\ produced \in Nat
          /\ produced <= Here - Len(literal) - run.len
      BY Numbers
    <3>3. p \in Nat /\ q \in Nat
      BY <3>2
    <3> HIDE DEF p, q
    <3> QED
      BY <3>1, <3>3 DEF Token, Copy, Literal
  <2> HIDE DEF p, q
  <2>3. Laid(ready, produced, p, seen', existing)
    BY <1>2, <1>3, <1>5, <2>1, <2>2, LaidGrows
  <2>4. run # NoRun => Spells(Copy(run.start, run.len), p, seen', existing)
    BY <1>2, <1>3, <1>5, <2>1, <2>2, SpellsGrows
  <2>5. literal # <<>> => Spells(Literal(literal), q, seen', existing)
    BY <1>2, <1>3, <1>5, <2>1, <2>2, SpellsGrows
  <2> QED
    BY <1>4, <1>7, <2>1, <2>3, <2>4, <2>5 DEF InARow, p, q
<1>11. Staged'
  BY <1>4 DEF IInv, Staged
<1>12. Built'
  BY <1>2, <1>3, <1>4, BuiltStays
<1> QED
  BY <1>8, <1>9, <1>10, <1>11, <1>12 DEF IInv

LEMMA OthersKeep == IInv /\ (ReadEof \/ StartScan \/ UNCHANGED vars) => IInv'
<1> SUFFICES ASSUME IInv, ReadEof \/ StartScan \/ UNCHANGED vars
             PROVE  IInv'
  OBVIOUS
<1>1. UNCHANGED <<existing, kept, seen, buffer, pos, literal, run, ready, finished, produced, rebuilt>>
  BY DEF ReadEof, StartScan, vars, sourceVars, matcher, link
<1>2. Typed'
  <2>1. at' \in {"next", "fill", "scan"}
    BY DEF IInv, Typed, ReadEof, StartScan, vars, matcher
  <2> QED
    BY <1>1, <2>1 DEF IInv, Typed
<1>3. Buffered' /\ InARow' /\ Built' /\ Ahead' = Ahead
  BY <1>1 DEF IInv, Buffered, InARow, Built, Reach, Here, Ahead
<1>4. Staged'
  <2>1. CASE at' = at
    BY <1>1, <1>3, <2>1 DEF IInv, Staged
  <2>2. CASE StartScan
    BY <1>1, <1>3, <2>2 DEF IInv, Staged, StartScan
  <2> QED
    BY <2>1, <2>2 DEF ReadEof, vars, matcher
<1> QED
  BY <1>2, <1>3, <1>4 DEF IInv

\* Bytes of the buffer are bytes of the source.
LEMMA InTheBuffer ==
  ASSUME IInv, NEW n \in Nat, n <= Ahead
  PROVE  \A i \in 1..n : buffer[pos + i] = seen[Here + i] /\ pos + i \in 1..Len(buffer)
<1> TAKE i \in 1..n
<1>1. /\ Len(seen) \in Nat /\ Len(buffer) \in Nat /\ pos \in Nat
      /\ Ahead = Len(buffer) - pos /\ Here = Len(seen) - Ahead
  BY Numbers
<1>2. pos + i \in 1..Len(buffer) /\ Len(seen) - Len(buffer) + (pos + i) = Here + i
  BY <1>1
<1> QED
  BY <1>2 DEF IInv, Buffered

\* A ready token more, where the run or the literal was.
LEMMA RunIsToken ==
  ASSUME IInv, run # NoRun
  PROVE  /\ Copy(run.start, run.len) \in Token /\ Length(Copy(run.start, run.len)) = run.len
         /\ RunToken = <<Copy(run.start, run.len)>> /\ run.len > 0
         /\ literal = <<>> /\ LiteralToken = <<>> /\ Len(literal) = 0
<1>1. run.start \in Nat /\ run.len \in Nat
  BY Numbers
<1>2. Copy(run.start, run.len) \in Token /\ Length(Copy(run.start, run.len)) = run.len
  BY <1>1 DEF Token, Copy, Length
<1>3. Spells(Copy(run.start, run.len), Here - Len(literal) - run.len, seen, existing) /\ literal = <<>>
  BY DEF IInv, InARow
<1>4. run.len > 0
  BY <1>2, <1>3 DEF Spells
<1> QED
  BY <1>2, <1>3, <1>4 DEF RunToken, LiteralToken

LEMMA LiteralIsToken ==
  ASSUME NEW bytes \in Seq(Byte)
  PROVE  Literal(bytes) \in Token /\ Length(Literal(bytes)) = Len(bytes)
BY DEF Token, Literal, Length

LEMMA NothingFlushed ==
  ASSUME NEW tokens \in Seq(Token), run = NoRun
  PROVE  RunToken = <<>> /\ tokens \o RunToken = tokens /\ RunToken \o tokens = tokens /\ run.len = 0
BY DEF RunToken, NoRun

\* With the run gone to the ready tokens, these reach to the literal.
LEMMA RunFlushed ==
  ASSUME IInv
  PROVE  /\ ready \o RunToken \in Seq(Token)
         /\ Laid(ready \o RunToken, produced, Here - Len(literal), seen, existing)
<1> DEFINE p == Here - Len(literal) - run.len
<1>1. ready \in Seq(Token) /\ Laid(ready, produced, p, seen, existing) /\ seen \in Seq(Byte)
  BY DEF IInv, Typed, InARow
<1>2. Here \in Int /\ Len(literal) \in Nat /\ run.len \in Nat
  BY Numbers
<1>3. CASE run = NoRun
  <2>1. ready \o RunToken = ready /\ run.len = 0
    BY <1>1, <1>3, NothingFlushed
  <2>2. p = Here - Len(literal)
    BY <1>2, <2>1
  <2> QED
    BY <1>1, <2>1, <2>2
<1>4. CASE run # NoRun
  <2> DEFINE token == Copy(run.start, run.len)
  <2>1. token \in Token /\ Length(token) = run.len /\ RunToken = <<token>>
    BY <1>4, RunIsToken
  <2>2. Spells(token, p, seen, existing)
    BY <1>4 DEF IInv, InARow
  <2> HIDE DEF token
  <2>3. p + run.len = Here - Len(literal)
    BY <1>2
  <2> HIDE DEF p
  <2>4. Laid(Append(ready, token), produced, p + Length(token), seen, existing)
    BY <1>1, <2>1, <2>2, LaidOneMore
  <2>5. ready \o RunToken = Append(ready, token) /\ Append(ready, token) \in Seq(Token)
    BY <1>1, <2>1
  <2>6. p + Length(token) = Here - Len(literal)
    BY <2>1, <2>3
  <2> QED
    BY <2>4, <2>5, <2>6
<1> QED
  BY <1>3, <1>4

\* Both have gone: the ready tokens reach to the window.
LEMMA AllFlushed ==
  ASSUME IInv
  PROVE  /\ ready \o LiteralToken \o RunToken \in Seq(Token)
         /\ Laid(ready \o LiteralToken \o RunToken, produced, Here, seen, existing)
<1>1. ready \in Seq(Token) /\ literal \in Seq(Byte) /\ seen \in Seq(Byte)
  BY DEF IInv, Typed
<1>2. Here \in Int /\ Len(literal) \in Nat
  BY Numbers
<1>3. CASE literal = <<>>
  <2>1. ready \o LiteralToken = ready /\ Len(literal) = 0
    BY <1>1, <1>3 DEF LiteralToken
  <2>2. Here - Len(literal) = Here
    BY <1>2, <2>1
  <2> QED
    BY <2>1, <2>2, RunFlushed
<1>4. CASE literal # <<>>
  <2> DEFINE token == Literal(literal)
             p == Here - Len(literal)
  <2>1. run = NoRun /\ Spells(token, p, seen, existing)
    BY <1>4 DEF IInv, InARow
  <2>2. token \in Token /\ Length(token) = Len(literal)
    BY <1>1, LiteralIsToken
  <2>3. LiteralToken = <<token>>
    BY <1>4 DEF LiteralToken
  <2>4. Laid(ready, produced, p, seen, existing)
    <3>1. ready \o RunToken = ready
      BY <1>1, <2>1, NothingFlushed
    <3> QED
      BY <3>1, RunFlushed
  <2>5. p + Len(literal) = Here
    BY <1>2
  <2> HIDE DEF token, p
  <2>6. Laid(Append(ready, token), produced, p + Length(token), seen, existing)
    BY <1>1, <2>1, <2>2, <2>4, LaidOneMore
  <2>7. ready \o LiteralToken = Append(ready, token) /\ Append(ready, token) \in Seq(Token)
    BY <1>1, <2>2, <2>3
  <2>8. (ready \o LiteralToken) \o RunToken = ready \o LiteralToken
    BY <2>1, <2>7, NothingFlushed
  <2> QED
    BY <2>2, <2>5, <2>6, <2>7, <2>8
<1> QED
  BY <1>3, <1>4

\* The literal, and what of the buffer is put behind it, is the source in front of it.
LEMMA LiteralGoesOn ==
  ASSUME IInv, NEW n \in Nat, n <= Ahead, NEW more \in Seq(Byte), Len(more) = n,
         \A i \in 1..n : more[i] = buffer[pos + i]
  PROVE  /\ literal \o more \in Seq(Byte) /\ Len(literal \o more) = Len(literal) + n
         /\ literal \o more # <<>> => Spells(Literal(literal \o more), Here - Len(literal), seen, existing)
<1> DEFINE bytes == literal \o more
           from == Here - Len(literal)
<1>1. literal \in Seq(Byte)
  BY DEF IInv, Typed
<1>2. /\ bytes \in Seq(Byte) /\ Len(bytes) = Len(literal) + n
      /\ \A i \in 1..Len(literal) : bytes[i] = literal[i]
      /\ \A i \in 1..n : bytes[Len(literal) + i] = more[i]
  BY <1>1
<1>3. /\ Len(seen) \in Nat /\ Len(literal) \in Nat /\ Ahead \in Nat /\ Here = Len(seen) - Ahead /\ Here \in Int
  BY Numbers
<1>4. \A i \in 1..n : more[i] = seen[Here + i]
  BY InTheBuffer
<1>5. \A i \in 1..Len(literal) : literal[i] = seen[from + i]
  <2>1. CASE literal = <<>>
    BY <2>1
  <2>2. CASE literal # <<>>
    BY <2>2 DEF IInv, InARow, Spells, Literal
  <2> QED
    BY <2>1, <2>2
<1> HIDE DEF bytes
<1>6. \A i \in 1..Len(bytes) : bytes[i] = seen[from + i]
  <2> SUFFICES ASSUME NEW i \in 1..Len(bytes)
               PROVE  bytes[i] = seen[from + i]
    OBVIOUS
  <2>1. CASE i <= Len(literal)
    <3>1. i \in 1..Len(literal)
      BY <1>2, <1>3, <2>1
    <3> HIDE DEF from
    <3> QED
      BY <1>2, <1>5, <3>1
  <2>2. CASE i > Len(literal)
    <3> DEFINE j == i - Len(literal)
    <3>1. j \in 1..n /\ i = Len(literal) + j /\ from + i = Here + j
      BY <1>2, <1>3, <2>2
    <3> HIDE DEF j, from
    <3> QED
      BY <1>2, <1>4, <3>1
  <2> QED
    BY <1>2, <1>3, <2>1, <2>2
<1>7. from + Len(bytes) <= Len(seen)
  BY <1>2, <1>3
<1> HIDE DEF from
<1>8. ASSUME bytes # <<>>
      PROVE  Spells(Literal(bytes), from, seen, existing)
  <2>1. Len(bytes) > 0
    BY <1>2, <1>8
  <2>2. /\ Length(Literal(bytes)) = Len(bytes) /\ Literal(bytes).bytes = bytes
        /\ Literal(bytes).kind # "copy"
    BY DEF Length, Literal
  <2> QED
    BY <1>6, <1>7, <2>1, <2>2 DEF Spells
<1> QED
  BY <1>2, <1>8 DEF bytes, from

\* Neither run nor literal is left: the tokens reach to the window.
LEMMA InARowByTokens ==
  ASSUME run' = NoRun, literal' = <<>>, Here' \in Nat, Laid(ready', produced', Here', seen', existing')
  PROVE  InARow'
<1>1. Len(literal') = 0 /\ run'.len = 0
  BY DEF NoRun
<1>2. \A h \in Nat : h - 0 - 0 = h /\ 0 + 0 <= h
  OBVIOUS
<1>3. Here' - Len(literal') - run'.len = Here' /\ Len(literal') + run'.len <= Here'
  BY <1>1, <1>2, Zenon
<1> QED
  BY <1>3 DEF InARow

LEMMA FinishKeeps == IInv /\ Finish => IInv'
<1> SUFFICES ASSUME IInv, Finish
             PROVE  IInv'
  OBVIOUS
<1> DEFINE tail == Beyond(buffer, pos)
           rest == literal \o tail
<1>1. /\ UNCHANGED <<existing, kept, seen, buffer, produced, rebuilt>>
      /\ ready' = RunToken \o (IF rest = <<>> THEN <<>> ELSE <<Literal(rest)>>)
      /\ literal' = <<>> /\ run' = NoRun /\ pos' = Len(buffer) /\ finished' = TRUE /\ at' = "next"
  BY DEF Finish, sourceVars, link
<1>2. /\ ready = <<>> /\ buffer \in Seq(Byte) /\ seen \in Seq(Byte) /\ pos \in 0..Len(buffer)
      /\ Len(buffer) <= Len(seen)
  BY DEF Finish, IInv, Staged, Typed, Buffered
<1>3. Len(seen) \in Nat /\ Len(buffer) \in Nat /\ Len(literal) \in Nat /\ Ahead \in Nat
  BY Numbers
<1>4. Ahead' = 0 /\ Here' = Len(seen)
  BY <1>1, <1>3 DEF Ahead, Here
<1>5. /\ tail \in Seq(Byte) /\ Len(tail) = Ahead
      /\ \A i \in 1..Ahead : tail[i] = buffer[pos + i]
  BY <1>2 DEF Beyond, Ahead
<1> HIDE DEF tail
<1>6. /\ rest \in Seq(Byte) /\ Len(rest) = Len(literal) + Ahead
      /\ rest # <<>> => Spells(Literal(rest), Here - Len(literal), seen, existing)
  BY <1>3, <1>5, LiteralGoesOn
<1>7. RunToken \in Seq(Token) /\ Laid(RunToken, produced, Here - Len(literal), seen, existing)
  <2>1. ready \o RunToken \in Seq(Token) /\ Laid(ready \o RunToken, produced, Here - Len(literal), seen, existing)
    BY RunFlushed
  <2>2. RunToken \in Seq(Token)
    BY LiteralIsToken, RunIsToken DEF RunToken
  <2>3. ready \o RunToken = RunToken
    BY <1>2, <2>2
  <2> QED
    BY <2>1, <2>3
<1> HIDE DEF rest
<1>8. ready' \in Seq(Token) /\ Laid(ready', produced, Len(seen), seen, existing)
  <2> DEFINE from == Here - Len(literal)
  <2>1. from + Len(rest) = Len(seen)
    BY <1>3, <1>6 DEF Here
  <2>2. CASE rest = <<>>
    <3>1. ready' = RunToken
      BY <1>1, <1>7, <2>2
    <3>2. from = Len(seen)
      <4>1. Len(rest) = 0
        BY <2>2
      <4> QED
        BY <1>3, <2>1, <4>1 DEF Here
    <3> QED
      BY <1>7, <3>1, <3>2
  <2>3. CASE rest # <<>>
    <3> DEFINE token == Literal(rest)
    <3>1. token \in Token /\ Length(token) = Len(rest)
      BY <1>6, LiteralIsToken
    <3>2. Spells(token, from, seen, existing) /\ Laid(RunToken, produced, from, seen, existing)
      BY <1>6, <1>7, <2>3
    <3>3. ready' = RunToken \o <<token>>
      BY <1>1, <2>3
    <3> HIDE DEF token, from
    <3>4. Laid(Append(RunToken, token), produced, from + Length(token), seen, existing)
      BY <1>2, <1>7, <3>1, <3>2, LaidOneMore
    <3>5. ready' = Append(RunToken, token) /\ Append(RunToken, token) \in Seq(Token)
      BY <1>7, <3>1, <3>3
    <3> QED
      BY <2>1, <3>1, <3>4, <3>5
  <2> QED
    BY <2>2, <2>3
<1>9. Typed'
  <2>1. literal' \in Seq(Byte) /\ run' \in [start : Nat, len : Nat]
    BY <1>1 DEF NoRun
  <2>2. pos' \in 0..Len(buffer')
    BY <1>1, <1>3
  <2> QED
    BY <1>1, <1>8, <2>1, <2>2 DEF IInv, Typed
<1>10. Buffered' /\ Built'
  BY <1>1 DEF IInv, Buffered, Built, Reach
<1>11. InARow'
  BY <1>1, <1>3, <1>4, <1>8, InARowByTokens
<1>12. Staged'
  BY <1>1, <1>4 DEF Staged
<1> QED
  BY <1>9, <1>10, <1>11, <1>12 DEF IInv

LEMMA MatchBlockKeeps == IInv /\ MatchBlock => IInv'
<1> SUFFICES ASSUME IInv, MatchBlock
             PROVE  IInv'
  OBVIOUS
<1> DEFINE offset == (Min(Matches(Window, rolling)) - 1) * BlockSize
<1>1. /\ UNCHANGED <<existing, kept, seen, buffer, finished, produced, rebuilt>>
      /\ literal' = <<>> /\ pos' = pos + BlockSize /\ at' = "next"
  BY DEF MatchBlock, sourceVars, link
<1>2. \/ /\ run # NoRun /\ run.start + run.len = offset
         /\ run' = [run EXCEPT !.len = @ + BlockSize] /\ ready' = ready \o LiteralToken
      \/ /\ run' = [start |-> offset, len |-> BlockSize] /\ ready' = ready \o LiteralToken \o RunToken
  BY DEF MatchBlock, Extends
<1>3. /\ BlockSize \in Nat /\ BlockSize >= 1 /\ Ahead >= BlockSize /\ ~finished
      /\ Len(seen) \in Nat /\ Len(buffer) \in Nat /\ Len(literal) \in Nat /\ pos \in Nat
      /\ Ahead = Len(buffer) - pos /\ Here = Len(seen) - Ahead /\ Here \in Nat
      /\ run.start \in Nat /\ run.len \in Nat
  BY Numbers DEF MatchBlock, IInv, Staged
<1>4. /\ offset \in Nat /\ offset + BlockSize <= Len(existing)
      /\ Window = SubSeq(existing, offset + 1, offset + BlockSize)
  <2>1. existing \in Seq(Byte) /\ Matches(Window, rolling) # {}
    BY DEF IInv, Typed, MatchBlock
  <2> QED
    BY <2>1, MatchIsABlock
<1> HIDE DEF offset
<1>5. \A i \in 1..BlockSize : existing[offset + i] = seen[Here + i]
  <2> TAKE i \in 1..BlockSize
  <2>1. Window[i] = existing[offset + i]
    <3>1. existing \in Seq(Byte)
      BY DEF IInv, Typed
    <3> HIDE DEF Window
    <3> QED
      BY <1>3, <1>4, <3>1
  <2>2. Window[i] = buffer[pos + i]
    <3>1. buffer \in Seq(Byte)
      BY DEF IInv, Typed
    <3> QED
      BY <1>3, <3>1 DEF Window
  <2>3. buffer[pos + i] = seen[Here + i]
    BY <1>3, InTheBuffer
  <2> QED
    BY <2>1, <2>2, <2>3
<1>6. Ahead' = Ahead - BlockSize /\ Here' = Here + BlockSize /\ pos' \in 0..Len(buffer) /\ Here' <= Len(seen)
  BY <1>1, <1>3 DEF Ahead, Here
<1>7. Buffered' /\ Built' /\ Staged'
  BY <1>1, <1>3 DEF IInv, Buffered, Built, Reach, Staged
<1>8. existing \in Seq(Byte) /\ ready \in Seq(Token) /\ Len(existing) \in Nat /\ seen \in Seq(Byte)
  BY DEF IInv, Typed
\* The run is one block longer, from where it began.
<1>9. CASE /\ run # NoRun /\ run.start + run.len = offset
           /\ run' = [run EXCEPT !.len = @ + BlockSize] /\ ready' = ready \o LiteralToken
  <2> DEFINE from == Here - Len(literal) - run.len
  <2>1. /\ literal = <<>> /\ Len(literal) = 0 /\ ready' = ready
        /\ Spells(Copy(run.start, run.len), from, seen, existing)
        /\ Laid(ready, produced, from, seen, existing) /\ run.len <= Here
    <3>1. literal = <<>> /\ Len(literal) = 0 /\ LiteralToken = <<>>
      BY <1>9, RunIsToken
    <3>2. ready' = ready
      BY <1>8, <1>9, <3>1
    <3>3. Spells(Copy(run.start, run.len), from, seen, existing) /\ Laid(ready, produced, from, seen, existing)
      BY <1>9 DEF IInv, InARow
    <3>4. run.len <= Here
      <4>1. Len(literal) + run.len <= Here
        BY DEF IInv, InARow
      <4> QED
        BY <1>3, <3>1, <4>1
    <3> QED
      BY <3>1, <3>2, <3>3, <3>4
  <2>2. run'.start = run.start /\ run'.len = run.len + BlockSize /\ run' \in [start : Nat, len : Nat]
    <3>1. run' = [run EXCEPT !.len = @ + BlockSize] /\ run \in [start : Nat, len : Nat] /\ BlockSize \in Nat
      BY <1>3, <1>9 DEF IInv, Typed
    <3> QED
      BY <3>1
  <2>3. from = Here - run.len /\ from \in Nat
    BY <1>3, <2>1
  <2>4. Here' - Len(literal') - run'.len = from /\ Len(literal') + run'.len <= Here'
    <3>1. Len(literal') = 0
      BY <1>1
    <3>2. \A h, r, b \in Nat : (h + b) - 0 - (r + b) = h - r /\ (r <= h => 0 + (r + b) <= h + b)
      OBVIOUS
    <3>3. Here' = Here + BlockSize /\ run'.len = run.len + BlockSize /\ run.len <= Here
      BY <1>6, <2>1, <2>2
    <3> HIDE DEF from
    <3>4. Here \in Nat /\ run.len \in Nat /\ BlockSize \in Nat
      BY <1>3
    <3> QED
      BY <2>3, <3>1, <3>2, <3>3, <3>4
  <2> HIDE DEF from
  <2>5. \A i \in 1..run.len : existing[run.start + i] = seen[from + i]
    BY <2>1 DEF Spells, Copy
  <2>6. \A i \in 1..(run.len + BlockSize) : existing[run.start + i] = seen[from + i]
    <3> SUFFICES ASSUME NEW i \in 1..(run.len + BlockSize)
                 PROVE  existing[run.start + i] = seen[from + i]
      OBVIOUS
    <3>1. CASE i <= run.len
      BY <1>3, <2>5, <3>1
    <3>2. CASE i > run.len
      <4> DEFINE j == i - run.len
      <4>1. j \in 1..BlockSize /\ offset + j = run.start + i /\ Here + j = from + i
        <5>1. /\ run.len \in Nat /\ run.start \in Nat /\ BlockSize \in Nat /\ Here \in Nat /\ from \in Nat
              /\ run.start + run.len = offset /\ from = Here - run.len
          BY <1>3, <1>9, <2>3
        <5> QED
          BY <3>2, <5>1
      <4> HIDE DEF j
      <4> QED
        BY <1>5, <4>1
    <3> QED
      BY <1>3, <3>1, <3>2
  <2>7. Spells(Copy(run'.start, run'.len), from, seen, existing)
    <3> DEFINE token == Copy(run'.start, run'.len)
    <3>1. /\ token.kind = "copy" /\ token.offset = run.start /\ token.len = run.len + BlockSize
          /\ Length(token) = run.len + BlockSize
      BY <2>2 DEF Copy, Length
    <3>2. /\ Length(token) > 0 /\ from + Length(token) <= Len(seen)
          /\ token.offset + token.len <= Len(existing)
      <4>1. /\ run.len \in Nat /\ run.start \in Nat /\ BlockSize \in Nat /\ Here \in Nat /\ from \in Nat
            /\ run.start + run.len = offset /\ from = Here - run.len /\ BlockSize >= 1
            /\ Here + BlockSize <= Len(seen) /\ offset + BlockSize <= Len(existing)
            /\ Len(seen) \in Nat /\ Len(existing) \in Nat
        BY <1>3, <1>4, <1>6, <1>8, <1>9, <2>3
      <4> HIDE DEF token
      <4> QED
        BY <3>1, <4>1
    <3> HIDE DEF token
    <3>3. Spells(token, from, seen, existing)
      BY <2>6, <3>1, <3>2 DEF Spells
    <3> QED
      BY <3>3 DEF token
  <2>8. InARow'
    BY <1>1, <2>1, <2>4, <2>7 DEF InARow
  <2>9. Typed'
    BY <1>1, <1>6, <2>1, <2>2 DEF IInv, Typed
  <2> QED
    BY <1>7, <2>8, <2>9 DEF IInv
\* A run begins where the window was.
<1>10. CASE run' = [start |-> offset, len |-> BlockSize] /\ ready' = ready \o LiteralToken \o RunToken
  <2>1. ready' \in Seq(Token) /\ Laid(ready', produced, Here, seen, existing)
    BY <1>10, AllFlushed
  <2>2. run'.start = offset /\ run'.len = BlockSize /\ run' \in [start : Nat, len : Nat]
    BY <1>3, <1>4, <1>10
  <2>3. Here' - Len(literal') - run'.len = Here /\ Len(literal') + run'.len <= Here'
    <3>1. Len(literal') = 0
      BY <1>1
    <3> QED
      BY <1>3, <1>6, <2>2, <3>1
  <2>4. Spells(Copy(run'.start, run'.len), Here, seen, existing)
    <3> DEFINE token == Copy(run'.start, run'.len)
    <3>1. /\ token.kind = "copy" /\ token.offset = offset /\ token.len = BlockSize
          /\ Length(token) = BlockSize
      BY <2>2 DEF Copy, Length
    <3>2. Length(token) > 0 /\ Here + Length(token) <= Len(seen)
      BY <1>3, <1>6, <3>1
    <3> HIDE DEF token
    <3>3. Spells(token, Here, seen, existing)
      BY <1>4, <1>5, <3>1, <3>2 DEF Spells
    <3> QED
      BY <3>3 DEF token
  <2>5. InARow'
    BY <1>1, <2>1, <2>3, <2>4 DEF InARow
  <2>6. Typed'
    BY <1>1, <1>6, <2>1, <2>2 DEF IInv, Typed
  <2> QED
    BY <1>7, <2>5, <2>6 DEF IInv
<1> QED
  BY <1>2, <1>9, <1>10

LEMMA SlideKeeps == IInv /\ Slide => IInv'
<1> SUFFICES ASSUME IInv, Slide
             PROVE  IInv'
  OBVIOUS
<1> DEFINE byte == buffer[pos + 1]
           bytes == Append(literal, byte)
           flushed == ready \o (IF literal = <<>> THEN RunToken ELSE <<>>)
<1>1. /\ UNCHANGED <<existing, kept, seen, buffer, finished, produced, rebuilt>>
      /\ pos' = pos + 1 /\ run' = IF literal = <<>> THEN NoRun ELSE run
  BY DEF Slide, sourceVars, link
<1>2. \/ at' = "next" /\ literal' = bytes /\ ready' = flushed
      \/ at' = "next" /\ literal' = <<>> /\ ready' = flushed \o <<Literal(bytes)>>
      \/ at' = at /\ literal' = bytes /\ ready' = flushed /\ Ahead > BlockSize
  BY Zenon DEF Slide
<1>3. /\ BlockSize \in Nat /\ BlockSize >= 1 /\ Ahead >= BlockSize /\ ~finished /\ at = "scan"
      /\ Len(seen) \in Nat /\ Len(buffer) \in Nat /\ Len(literal) \in Nat /\ pos \in Nat
      /\ Ahead = Len(buffer) - pos /\ Here = Len(seen) - Ahead /\ Here \in Nat
  BY Numbers DEF Slide, IInv, Staged
<1>4. Ahead' = Ahead - 1 /\ Here' = Here + 1 /\ pos' \in 0..Len(buffer) /\ Here' <= Len(seen)
  BY <1>1, <1>3 DEF Ahead, Here
<1>5. Buffered' /\ Built'
  BY <1>1 DEF IInv, Buffered, Built, Reach
<1>6. Staged'
  <2>1. at = "scan" /\ ~finished'
    BY <1>1, <1>3
  <2>2. at' = "next" \/ (at' = "scan" /\ Ahead > BlockSize)
    BY <1>2, <2>1
  <2>3. at' = "scan" => Ahead' >= BlockSize
    BY <1>3, <1>4, <2>2
  <2> QED
    BY <2>1, <2>2, <2>3 DEF Staged
<1>7. run' = NoRun /\ run' \in [start : Nat, len : Nat] /\ run'.len = 0
  BY <1>1 DEF IInv, InARow, NoRun
<1>8. flushed \in Seq(Token) /\ Laid(flushed, produced, Here - Len(literal), seen, existing)
  <2>1. ready \in Seq(Token)
    BY DEF IInv, Typed
  <2>2. ready \o RunToken = flushed
    <3>1. CASE literal = <<>>
      BY <3>1
    <3>2. CASE literal # <<>>
      <4>1. run = NoRun
        BY <3>2 DEF IInv, InARow
      <4>2. ready \o RunToken = ready /\ ready \o <<>> = ready
        BY <2>1, <4>1, NothingFlushed
      <4> QED
        BY <3>2, <4>2
    <3> QED
      BY <3>1, <3>2
  <2> QED
    BY <2>2, RunFlushed
<1>9. /\ bytes \in Seq(Byte) /\ Len(bytes) = Len(literal) + 1 /\ bytes # <<>>
      /\ Spells(Literal(bytes), Here - Len(literal), seen, existing)
  <2>1. byte \in Byte /\ literal \in Seq(Byte)
    <3>1. buffer \in Seq(Byte) /\ literal \in Seq(Byte)
      BY DEF IInv, Typed
    <3>2. pos + 1 \in 1..Len(buffer)
      BY <1>3
    <3> QED
      BY <3>1, <3>2
  <2> DEFINE more == <<byte>>
  <2> HIDE DEF byte
  <2>2. more \in Seq(Byte) /\ Len(more) = 1 /\ literal \o more = bytes /\ more[1] = byte
    BY <2>1
  <2>3. bytes # <<>> /\ bytes \in Seq(Byte) /\ Len(bytes) = Len(literal) + 1
    <3>1. bytes \in Seq(Byte) /\ Len(bytes) = Len(literal) + 1
      BY <2>1
    <3>2. Len(bytes) # 0
      BY <1>3, <3>1
    <3> HIDE DEF bytes
    <3> QED
      BY <3>1, <3>2
  <2>4. \A i \in 1..1 : more[i] = buffer[pos + i]
    BY <2>2 DEF byte
  <2>5. 1 \in Nat /\ 1 <= Ahead
    BY <1>3
  <2> HIDE DEF more, bytes
  <2>6. literal \o more # <<>> => Spells(Literal(literal \o more), Here - Len(literal), seen, existing)
    BY <2>2, <2>4, <2>5, LiteralGoesOn
  <2> QED
    BY <2>2, <2>3, <2>6
<1> HIDE DEF flushed, bytes
<1> DEFINE from == Here - Len(literal)
<1>10. from + Len(bytes) = Here' /\ from \in Int
  BY <1>3, <1>4, <1>9
\* The literal goes on,
<1>11. CASE literal' = bytes /\ ready' = flushed
  <2>0. Len(literal') = Len(literal) + 1 /\ Here' = Here + 1 /\ run'.len = 0
    BY <1>4, <1>7, <1>9, <1>11
  <2>1. Here' - Len(literal') = from /\ Here' - Len(literal') - run'.len = from
    <3>1. \A h, l \in Nat : (h + 1) - (l + 1) = h - l /\ ((h + 1) - (l + 1)) - 0 = h - l
      OBVIOUS
    <3> QED
      BY <1>3, <2>0, <3>1
  <2>2. Len(literal') + run'.len <= Here'
    <3>1. from \in Nat
      <4>1. produced \in Nat /\ run.len \in Nat /\ produced <= Here - Len(literal) - run.len
        BY Numbers
      <4> QED
        BY <1>3, <4>1
    <3>2. \A h, l \in Nat : h - l \in Nat => (l + 1) + 0 <= h + 1
      OBVIOUS
    <3> QED
      BY <1>3, <2>0, <3>1, <3>2
  <2>3. InARow'
    BY <1>1, <1>7, <1>8, <1>9, <1>11, <2>1, <2>2 DEF InARow
  <2>4. Typed'
    <3>1. at' \in {"next", "fill", "scan"}
      BY <1>2 DEF IInv, Typed
    <3> QED
      BY <1>1, <1>4, <1>7, <1>8, <1>9, <1>11, <3>1 DEF IInv, Typed
  <2> QED
    BY <1>5, <1>6, <2>3, <2>4 DEF IInv
\* or is a token with this byte.
<1>12. CASE at' = "next" /\ literal' = <<>> /\ ready' = flushed \o <<Literal(bytes)>>
  <2> DEFINE token == Literal(bytes)
  <2>1. token \in Token /\ Length(token) = Len(bytes) /\ seen \in Seq(Byte)
    BY <1>9, LiteralIsToken DEF IInv, Typed
  <2>2. Spells(token, from, seen, existing) /\ Laid(flushed, produced, from, seen, existing)
    BY <1>8, <1>9
  <2>3. ready' = flushed \o <<token>>
    BY <1>12
  <2> HIDE DEF token, from
  <2>4. Laid(Append(flushed, token), produced, from + Length(token), seen, existing)
    BY <1>8, <2>1, <2>2, LaidOneMore
  <2>5. ready' = Append(flushed, token) /\ ready' \in Seq(Token)
    BY <1>8, <2>1, <2>3
  <2>6. from + Length(token) = Here'
    BY <1>10, <2>1
  <2>7. Laid(ready', produced', Here', seen', existing') /\ Here' \in Nat
    <3>1. Here' \in Nat
      BY <1>3, <1>4
    <3> QED
      BY <1>1, <2>4, <2>5, <2>6, <3>1
  <2>8. InARow'
    BY <1>7, <1>12, <2>7, InARowByTokens
  <2>9. Typed'
    <3>1. literal' \in Seq(Byte)
      BY <1>12
    <3> QED
      BY <1>1, <1>4, <1>7, <1>12, <2>5, <3>1 DEF IInv, Typed
  <2> QED
    BY <1>5, <1>6, <2>8, <2>9 DEF IInv
<1> QED
  BY <1>2, <1>11, <1>12

LEMMA Joined ==
  ASSUME NEW s \in Seq(Byte), NEW t \in Seq(Byte)
  PROVE  /\ s \o t \in Seq(Byte) /\ Len(s \o t) = Len(s) + Len(t)
         /\ \A i \in 1..Len(s) : (s \o t)[i] = s[i]
         /\ \A i \in 1..Len(t) : (s \o t)[Len(s) + i] = t[i]
<1>1. s \o t \in Seq(Byte) /\ Len(s \o t) = Len(s) + Len(t)
  OBVIOUS
<1>2. \A i \in 1..Len(s) : (s \o t)[i] = s[i]
  OBVIOUS
<1>3. \A i \in 1..Len(t) : (s \o t)[Len(s) + i] = t[i]
  <2> TAKE i \in 1..Len(t)
  <2>1. Len(s) \in Nat /\ Len(t) \in Nat
    OBVIOUS
  <2>2. Len(s) + i \in 1..(Len(s) + Len(t)) /\ ~(Len(s) + i <= Len(s)) /\ Len(s) + i - Len(s) = i
    BY <2>1
  <2> QED
    BY <2>1, <2>2
<1> QED
  BY <1>1, <1>2, <1>3

LEMMA Cut ==
  ASSUME NEW s \in Seq(Byte), NEW m \in Nat, NEW n \in Nat, m <= n, n <= Len(s)
  PROVE  /\ SubSeq(s, m + 1, n) \in Seq(Byte) /\ Len(SubSeq(s, m + 1, n)) = n - m
         /\ \A i \in 1..(n - m) : SubSeq(s, m + 1, n)[i] = s[m + i]
<1>1. Len(s) \in Nat
  OBVIOUS
<1>2. \A i \in (m + 1)..n : s[i] \in Byte
  BY <1>1
<1>3. SubSeq(s, m + 1, n) \in Seq(Byte)
  BY <1>1, <1>2
<1>4. Len(SubSeq(s, m + 1, n)) = n - m
  BY <1>1
<1>5. \A i \in 1..(n - m) : SubSeq(s, m + 1, n)[i] = s[m + i]
  <2> TAKE i \in 1..(n - m)
  <2>1. i \in 1..Len(SubSeq(s, m + 1, n)) /\ m + 1 + i - 1 = m + i
    BY <1>4
  <2> QED
    BY <1>1, <1>4, <2>1
<1> QED
  BY <1>3, <1>4, <1>5

\* What is behind the resume point is cut from a token; what is left of it, the agent
\* takes for what the source has there.
LEMMA PieceIsTaken ==
  ASSUME existing \in Seq(Byte), seen \in Seq(Byte), rebuilt \in Seq(Byte), NEW token \in Token, NEW from \in Nat,
         Spells(token, from, seen, existing), NEW skip \in Nat, skip < Length(token)
  PROVE  \E piece \in Seq(Byte) :
           /\ Taken(Trimmed(token, skip)) = rebuilt \o piece /\ Len(piece) = Length(token) - skip
           /\ \A i \in 1..Len(piece) : piece[i] = seen[from + skip + i]
<1>1. CASE token.kind = "copy"
  <2> DEFINE o == token.offset
             l == token.len
             piece == SubSeq(existing, o + skip + 1, o + skip + (l - skip))
  <2>1. /\ o \in Nat /\ l \in Nat /\ skip < l /\ o + l <= Len(existing) /\ Len(existing) \in Nat
        /\ Length(token) = l /\ \A i \in 1..l : existing[o + i] = seen[from + i]
    BY <1>1 DEF Token, Spells, Length
  <2>2. Trimmed(token, skip) = Copy(o + skip, l - skip)
    BY <1>1 DEF Trimmed
  <2>3. Taken(Copy(o + skip, l - skip)) = rebuilt \o piece
    <3> HIDE DEF o, l
    <3>1. (o + skip) + (l - skip) <= Len(existing)
      BY <2>1
    <3>2. /\ Copy(o + skip, l - skip).kind = "copy" /\ Copy(o + skip, l - skip).offset = o + skip
          /\ Copy(o + skip, l - skip).len = l - skip
      BY DEF Copy
    <3> QED
      BY <3>1, <3>2 DEF Taken
  <2>4. /\ piece \in Seq(Byte) /\ Len(piece) = l - skip
        /\ \A i \in 1..(l - skip) : piece[i] = existing[o + (skip + i)]
    <3> HIDE DEF o, l
    <3> DEFINE m == o + skip
               n == o + skip + (l - skip)
    <3>1. /\ m \in Nat /\ n \in Nat /\ m <= n /\ n <= Len(existing) /\ n - m = l - skip
          /\ \A i \in 1..(l - skip) : m + i = o + (skip + i)
      BY <2>1
    <3>2. piece = SubSeq(existing, m + 1, n)
      OBVIOUS
    <3> HIDE DEF m, n, piece
    <3>3. /\ SubSeq(existing, m + 1, n) \in Seq(Byte) /\ Len(SubSeq(existing, m + 1, n)) = n - m
          /\ \A i \in 1..(n - m) : SubSeq(existing, m + 1, n)[i] = existing[m + i]
      BY <3>1, Cut
    <3> QED
      BY <3>1, <3>2, <3>3
  <2> HIDE DEF piece, o, l
  <2>5. \A i \in 1..Len(piece) : piece[i] = seen[from + skip + i]
    <3> TAKE i \in 1..Len(piece)
    <3>1. i \in 1..(l - skip) /\ skip + i \in 1..l /\ from + (skip + i) = from + skip + i
      BY <2>1, <2>4
    <3> QED
      BY <2>1, <2>4, <3>1
  <2> QED
    BY <2>1, <2>2, <2>3, <2>4, <2>5
<1>2. CASE token.kind # "copy"
  <2> DEFINE b == token.bytes
             piece == SubSeq(b, skip + 1, Len(b))
  <2>1. /\ b \in Seq(Byte) /\ Len(b) \in Nat /\ skip < Len(b) /\ Length(token) = Len(b)
        /\ \A i \in 1..Len(b) : b[i] = seen[from + i]
    BY <1>2 DEF Token, Spells, Length
  <2>2. Trimmed(token, skip) = Literal(piece)
    BY <1>2 DEF Trimmed, Beyond
  <2> HIDE DEF b
  <2>3. piece \in Seq(Byte) /\ Len(piece) = Len(b) - skip /\ \A i \in 1..(Len(b) - skip) : piece[i] = b[skip + i]
    BY <2>1
  <2> HIDE DEF piece
  <2>4. Taken(Literal(piece)) = rebuilt \o piece
    BY DEF Taken, Literal
  <2>5. \A i \in 1..Len(piece) : piece[i] = seen[from + skip + i]
    <3> TAKE i \in 1..Len(piece)
    <3>1. i \in 1..(Len(b) - skip) /\ skip + i \in 1..Len(b) /\ from + (skip + i) = from + skip + i
      BY <2>1, <2>3
    <3> QED
      BY <2>1, <2>3, <3>1
  <2> QED
    BY <2>1, <2>2, <2>3, <2>4, <2>5
<1> QED
  BY <1>1, <1>2

LEMMA TrimmedByNothing ==
  ASSUME NEW token \in Token
  PROVE  Trimmed(token, 0) = token
<1>1. CASE token.kind = "copy"
  <2>1. token \in [kind : {"copy"}, offset : Nat, len : Nat]
    BY <1>1 DEF Token
  <2> QED
    BY <1>1, <2>1 DEF Trimmed, Copy
<1>2. CASE token.kind # "copy"
  <2>1. token \in [kind : {"literal"}, bytes : Seq(Byte)]
    BY <1>2 DEF Token
  <2>2. Beyond(token.bytes, 0) = token.bytes
    BY <2>1 DEF Beyond
  <2>3. Literal(token.bytes) = token
    BY <2>1 DEF Literal
  <2> QED
    BY <1>2, <2>2, <2>3 DEF Trimmed
<1> QED
  BY <1>1, <1>2

LEMMA DeliverKeeps == IInv /\ Deliver => IInv'
<1> SUFFICES ASSUME IInv, Deliver
             PROVE  IInv'
  OBVIOUS
<1> DEFINE token == Head(ready)
           size == Length(token)
           k == Len(kept)
<1>1. /\ UNCHANGED <<existing, kept, seen, buffer, pos, literal, run, finished, at>>
      /\ ready # <<>> /\ ready' = Tail(ready) /\ produced' = produced + size /\ at = "next"
  BY DEF Deliver, sourceVars
<1>2. /\ ready \in Seq(Token) /\ existing \in Seq(Byte) /\ kept \in Seq(Byte) /\ seen \in Seq(Byte)
      /\ k \in Nat /\ produced \in Nat
  BY DEF IInv, Typed
<1>3. token \in Token /\ Tail(ready) \in Seq(Token)
  BY <1>1, <1>2
<1>4. size \in Nat
  BY <1>3, TokenLengths
<1>5. /\ Spells(token, produced, seen, existing)
      /\ Laid(Tail(ready), produced', Here - Len(literal) - run.len, seen, existing)
  <2>1. Laid(ready, produced, Here - Len(literal) - run.len, seen, existing)
    BY DEF IInv, InARow
  <2> QED
    BY <1>1, <1>2, <2>1, LaidOneLess
<1>6. size > 0
  BY <1>5 DEF Spells
<1>7. Here' = Here /\ Ahead' = Ahead
  BY <1>1 DEF Here, Ahead
<1>8. Typed' /\ Buffered' /\ Staged'
  <2>1. produced' \in Nat
    BY <1>1, <1>2, <1>4
  <2>2. Typed'
    BY <1>1, <1>3, <2>1 DEF IInv, Typed
  <2>3. Buffered' /\ Staged'
    BY <1>1, <1>7 DEF IInv, Buffered, Staged
  <2> QED
    BY <2>2, <2>3
<1>9. InARow'
  BY <1>1, <1>5, <1>7 DEF IInv, InARow
<1>10. /\ rebuilt \in Seq(Byte) /\ Len(rebuilt) = Reach
       /\ \A i \in 1..k : rebuilt[i] = kept[i]
       /\ \A i \in (k + 1)..produced : rebuilt[i] = seen[i]
  BY DEF IInv, Built
<1> HIDE DEF token, size, k
<1>11. Built'
  <2>1. CASE produced' <= k
    <3>1. UNCHANGED rebuilt
      BY <2>1 DEF Deliver, k
    <3>2. Reach = k /\ Reach' = k
      BY <1>1, <1>2, <1>4, <2>1 DEF Reach, k
    <3>3. \A i \in (k + 1)..produced' : FALSE
      BY <1>1, <1>2, <1>4, <2>1
    <3> QED
      BY <1>1, <1>10, <3>1, <3>2, <3>3 DEF Built, k
  <2>2. CASE ~(produced' <= k)
    <3> DEFINE behind == k - produced
               skip == IF behind > 0 THEN behind ELSE 0
    <3>1. skip \in Nat /\ skip < size /\ produced + skip = Reach
      BY <1>1, <1>2, <1>4, <1>6, <2>2 DEF Reach, k
    <3>2. Reach' = produced' /\ Reach \in Nat /\ k <= Reach
      BY <1>1, <1>2, <1>4, <2>2 DEF Reach, k
    <3>3. rebuilt' = Taken(Trimmed(token, skip))
      <4>1. rebuilt' = Taken(IF behind > 0 THEN Trimmed(token, behind) ELSE token)
        BY <2>2 DEF Deliver, token, k
      <4>2. Trimmed(token, 0) = token
        BY <1>3, TrimmedByNothing
      <4> QED
        BY <4>1, <4>2
    <3> HIDE DEF skip, behind
    <3>4. PICK piece \in Seq(Byte) :
            /\ Taken(Trimmed(token, skip)) = rebuilt \o piece /\ Len(piece) = size - skip
            /\ \A i \in 1..Len(piece) : piece[i] = seen[produced + skip + i]
      BY <1>2, <1>3, <1>5, <1>10, <3>1, PieceIsTaken DEF size
    <3>5. /\ rebuilt' \in Seq(Byte) /\ Len(rebuilt') = Len(rebuilt) + Len(piece)
          /\ \A i \in 1..Len(rebuilt) : rebuilt'[i] = rebuilt[i]
          /\ \A i \in 1..Len(piece) : rebuilt'[Len(rebuilt) + i] = piece[i]
      <4>1. rebuilt' = rebuilt \o piece
        BY <3>3, <3>4
      <4>2. rebuilt \in Seq(Byte)
        BY <1>10
      <4> HIDE DEF k
      <4>3. rebuilt \o piece \in Seq(Byte) /\ Len(rebuilt \o piece) = Len(rebuilt) + Len(piece)
        BY <4>2, Joined
      <4>4. \A i \in 1..Len(rebuilt) : (rebuilt \o piece)[i] = rebuilt[i]
        BY <4>2, Joined
      <4>5. \A i \in 1..Len(piece) : (rebuilt \o piece)[Len(rebuilt) + i] = piece[i]
        BY <4>2, Joined
      <4> QED
        BY <4>1, <4>3, <4>4, <4>5
    <3>6. Len(rebuilt') = Reach'
      BY <1>1, <1>2, <1>4, <1>10, <3>1, <3>2, <3>4, <3>5
    <3>7. \A i \in 1..k : rebuilt'[i] = kept'[i]
      <4>1. \A i \in 1..k : i \in 1..Len(rebuilt)
        BY <1>2, <1>10, <3>2
      <4> QED
        BY <1>1, <1>10, <3>5, <4>1
    <3>8. \A i \in (k + 1)..produced' : rebuilt'[i] = seen'[i]
      <4> SUFFICES ASSUME NEW i \in (k + 1)..produced'
                   PROVE  rebuilt'[i] = seen[i]
        BY <1>1
      <4>1. i \in Nat /\ i >= k + 1 /\ i <= produced' /\ produced' \in Nat
        BY <1>1, <1>2, <1>4
      <4>2. CASE i <= Reach
        <5>1. i \in 1..Len(rebuilt) /\ i \in (k + 1)..produced
          BY <1>2, <1>10, <3>2, <4>1, <4>2 DEF Reach, k
        <5> QED
          BY <1>10, <3>5, <5>1
      <4>3. CASE i > Reach
        <5> DEFINE j == i - Reach
        <5>1. j \in 1..Len(piece) /\ i = Len(rebuilt) + j /\ i = produced + skip + j
          <6>1. Len(piece) = produced' - Reach
            BY <1>1, <1>2, <1>4, <3>1, <3>4
          <6>2. Reach \in Nat /\ i \in Nat /\ i > Reach /\ i <= produced' /\ produced' \in Nat
            BY <3>2, <4>1, <4>3
          <6>3. \A r, h, p \in Nat : h > r /\ h <= p => h - r \in 1..(p - r) /\ h = r + (h - r)
            OBVIOUS
          <6>4. j \in 1..Len(piece) /\ i = Reach + j
            BY <6>1, <6>2, <6>3
          <6> QED
            BY <1>10, <3>1, <6>4
        <5> HIDE DEF j
        <5> QED
          BY <3>4, <3>5, <5>1
      <4> QED
        BY <3>2, <4>1, <4>2, <4>3
    <3> QED
      BY <1>1, <3>5, <3>6, <3>7, <3>8 DEF Built, k
  <2> QED
    BY <2>1, <2>2
<1> QED
  BY <1>8, <1>9, <1>11 DEF IInv

LEMMA Inductive == IInv /\ [Next]_vars => IInv'
BY StartStepKeeps, ReadKeeps, OthersKeep, MatchBlockKeeps, SlideKeeps, FinishKeeps, DeliverKeeps DEF Next

LEMMA RebuildsImplied == IInv => Rebuilds
<1> SUFFICES ASSUME IInv
             PROVE  Rebuilds
  OBVIOUS
<1>1. /\ kept \in Seq(Byte) /\ seen \in Seq(Byte) /\ rebuilt \in Seq(Byte) /\ produced \in Nat
      /\ Len(kept) \in Nat /\ Len(seen) \in Nat /\ produced <= Len(seen)
  BY Numbers DEF IInv, Typed, Built
<1>2. rebuilt = kept \o SubSeq(seen, Len(kept) + 1, produced)
  <2> DEFINE piece == SubSeq(seen, Len(kept) + 1, produced)
             both == kept \o piece
  <2>1. /\ piece \in Seq(Byte) /\ Len(piece) = Reach - Len(kept)
        /\ \A i \in 1..(Reach - Len(kept)) : piece[i] = seen[Len(kept) + i]
    BY <1>1 DEF Reach
  <2> HIDE DEF piece
  <2>2. /\ both \in Seq(Byte) /\ Len(both) = Len(kept) + Len(piece)
        /\ \A i \in 1..Len(kept) : both[i] = kept[i]
        /\ \A i \in 1..Len(piece) : both[Len(kept) + i] = piece[i]
    BY <1>1, <2>1, Joined
  <2> HIDE DEF both
  <2>3. Len(both) = Len(rebuilt) /\ Reach \in Nat /\ Reach >= Len(kept) /\ Len(rebuilt) = Reach
    BY <1>1, <2>1, <2>2 DEF IInv, Built, Reach
  <2>4. \A i \in 1..Len(rebuilt) : rebuilt[i] = both[i]
    <3> TAKE i \in 1..Len(rebuilt)
    <3>1. CASE i <= Len(kept)
      <4>1. i \in 1..Len(kept)
        BY <1>1, <2>3, <3>1
      <4> QED
        BY <2>2, <4>1 DEF IInv, Built
    <3>2. CASE i > Len(kept)
      <4> DEFINE j == i - Len(kept)
      <4>1. j \in 1..Len(piece) /\ i = Len(kept) + j /\ i \in (Len(kept) + 1)..produced
        BY <1>1, <2>1, <2>3, <3>2 DEF Reach
      <4>2. rebuilt[i] = seen[i]
        BY <4>1 DEF IInv, Built
      <4> HIDE DEF j
      <4> QED
        BY <2>1, <2>2, <4>1, <4>2
    <3> QED
      BY <1>1, <2>3, <3>1, <3>2
  <2>5. rebuilt = both
    BY <1>1, <2>2, <2>3, <2>4
  <2> QED
    BY <2>5 DEF both, piece
<1>3. finished /\ ready = <<>> => produced = Len(seen)
  <2> SUFFICES ASSUME finished, ready = <<>>
               PROVE  produced = Len(seen)
    OBVIOUS
  <2>1. run.len = 0 /\ Len(literal) = 0 /\ Ahead = 0
    BY DEF IInv, Staged, NoRun
  <2>2. Laid(<<>>, produced, Here - Len(literal) - run.len, seen, existing)
    BY DEF IInv, InARow
  <2>3. produced = Here - Len(literal) - run.len
    BY <2>2, LaidIsNothing
  <2> QED
    BY <1>1, <2>1, <2>3 DEF Here
<1> QED
  BY <1>2, <1>3 DEF Rebuilds

\* The agent's file is what was kept and then, byte for byte, what the client has read
\* beyond it, and in the end the whole source.
THEOREM DeltaRebuilds == Spec => []Rebuilds
BY Initially, Inductive, RebuildsImplied, PTL DEF Spec

-----------------------------------------------------------------------------
(* Memory, and the checksum carried along *)

\* A checksum that has been computed is that of the window as it is.
Carried ==
  /\ at = "scan" => rolling # NoSum
  /\ rolling # NoSum => Ahead >= BlockSize /\ rolling = Sum(Window)

\* What the window has passed is dropped before more is read.
Filled ==
  /\ Ahead < BlockSize + 2 * ReadAhead /\ Len(buffer) < BlockSize + 3 * ReadAhead
  /\ at = "fill" => pos <= ReadAhead

\* A literal is flushed when it is full; but not at the end of what has been read, where
\* it takes in one byte more, and at the end of the source another.
Gathered ==
  /\ Len(literal) <= LiteralFlush + 1
  /\ Len(literal) = LiteralFlush + 1 => eof /\ Ahead < BlockSize
  /\ Len(literal) = LiteralFlush /\ at # "fill" =>
       eof \/ Ahead < BlockSize \/ Ahead >= BlockSize + ReadAhead

\* So many tokens, none of a longer literal.
Few(tokens, n) ==
  /\ tokens \in Seq(Token) /\ Len(tokens) <= n
  /\ \A k \in 1..Len(tokens) :
       tokens[k].kind = "literal" => Len(tokens[k].bytes) <= LiteralFlush + BlockSize

\* While the window moves on, one at the most, and that is the run.
Queued ==
  /\ Few(ready, 2)
  /\ at = "scan" => Few(ready, 1)
  /\ at = "scan" /\ ready # <<>> => run = NoRun

Delivered ==
  /\ eof \in BOOLEAN /\ sent \in Seq(Token)
  /\ \A k \in 1..Len(sent) : Length(sent[k]) > 0

BInv == Carried /\ Filled /\ Gathered /\ Queued /\ Delivered

LEMMA Sizes ==
  /\ BlockSize \in Nat /\ BlockSize >= 1 /\ ReadAhead \in Nat /\ ReadAhead >= 1
  /\ LiteralFlush \in Nat /\ LiteralFlush >= 1 /\ WeakBase \in Nat \ {0}
BY SizesAssumption

LEMMA BytesAreNumbers == \A bytes \in Seq(Byte) : bytes \in Seq(Nat)
<1> TAKE bytes \in Seq(Byte)
<1>1. Len(bytes) \in Nat /\ bytes \in [1..Len(bytes) -> Byte]
  OBVIOUS
<1>2. bytes \in [1..Len(bytes) -> Nat]
  BY <1>1, ByteAssumption
<1> QED
  BY <1>1, <1>2

LEMMA SumIsSome ==
  ASSUME NEW window \in Seq(Nat)
  PROVE  Sum(window) # NoSum
<1> DEFINE s == Sums(window)
           n == Len(window)
<1>1. s[n].a \in Int
  <2>1. Loop(s, window, n) /\ n \in 0..n
    BY SumsIsTheLoop
  <2> HIDE DEF s, n
  <2> QED
    BY <2>1 DEF Loop
<1>2. WeakBase \in Nat \ {0}
  BY Sizes
<1>3. Sum(window).a = s[n].a % WeakBase
  BY DEF Sum
<1> DEFINE a == s[n].a
<1> HIDE DEF a
<1>4. a % WeakBase \in 0..(WeakBase - 1)
  BY <1>1, <1>2, Division DEF a
<1>5. a % WeakBase # -1
  BY <1>2, <1>4
<1> QED
  BY <1>3, <1>5 DEF NoSum, a

\* The window is what lies there.
LEMMA WindowIs ==
  ASSUME NEW bytes \in Seq(Byte), NEW n \in Nat, n + BlockSize <= Len(bytes)
  PROVE  /\ SubSeq(bytes, n + 1, n + BlockSize) \in Seq(Byte)
         /\ Len(SubSeq(bytes, n + 1, n + BlockSize)) = BlockSize
         /\ \A i \in 1..BlockSize : SubSeq(bytes, n + 1, n + BlockSize)[i] = bytes[n + i]
<1> DEFINE m == n + BlockSize
<1>1. m \in Nat /\ n <= m /\ m <= Len(bytes) /\ m - n = BlockSize
  BY Sizes
<1> HIDE DEF m
<1>2. /\ SubSeq(bytes, n + 1, m) \in Seq(Byte) /\ Len(SubSeq(bytes, n + 1, m)) = m - n
      /\ \A i \in 1..(m - n) : SubSeq(bytes, n + 1, m)[i] = bytes[n + i]
  BY <1>1, Cut
<1> QED
  BY <1>1, <1>2 DEF m

LEMMA SameWindow ==
  ASSUME NEW bytes \in Seq(Byte), NEW n \in Nat, n + BlockSize <= Len(bytes),
         NEW others \in Seq(Byte), NEW o \in Nat, o + BlockSize <= Len(others),
         \A i \in 1..BlockSize : bytes[n + i] = others[o + i]
  PROVE  SubSeq(bytes, n + 1, n + BlockSize) = SubSeq(others, o + 1, o + BlockSize)
<1> DEFINE s == SubSeq(bytes, n + 1, n + BlockSize)
           t == SubSeq(others, o + 1, o + BlockSize)
<1>1. s \in Seq(Byte) /\ Len(s) = BlockSize /\ \A i \in 1..BlockSize : s[i] = bytes[n + i]
  BY WindowIs
<1>2. t \in Seq(Byte) /\ Len(t) = BlockSize /\ \A i \in 1..BlockSize : t[i] = others[o + i]
  BY WindowIs
<1> HIDE DEF s, t
<1>3. \A i \in 1..BlockSize : s[i] = t[i]
  BY <1>1, <1>2
<1>4. s = t
  BY <1>1, <1>2, <1>3
<1> QED
  BY <1>4 DEF s, t

LEMMA FewJoined ==
  ASSUME NEW m \in Nat, NEW n \in Nat, NEW s, NEW t, Few(s, m), Few(t, n)
  PROVE  Few(s \o t, m + n)
<1>1. s \in Seq(Token) /\ t \in Seq(Token) /\ Len(s) \in Nat /\ Len(t) \in Nat /\ Len(s) <= m /\ Len(t) <= n
  BY DEF Few
<1>2. s \o t \in Seq(Token) /\ Len(s \o t) = Len(s) + Len(t)
  BY <1>1
<1>3. ASSUME NEW k \in 1..Len(s \o t), (s \o t)[k].kind = "literal"
      PROVE  Len((s \o t)[k].bytes) <= LiteralFlush + BlockSize
  <2>1. CASE k <= Len(s)
    <3>1. k \in 1..Len(s) /\ (s \o t)[k] = s[k]
      BY <1>1, <1>2, <2>1
    <3> QED
      BY <1>3, <3>1 DEF Few
  <2>2. CASE k > Len(s)
    <3>1. k - Len(s) \in 1..Len(t) /\ (s \o t)[k] = t[k - Len(s)]
      BY <1>1, <1>2, <2>2
    <3> QED
      BY <1>3, <3>1 DEF Few
  <2> QED
    BY <1>1, <1>2, <2>1, <2>2
<1> QED
  BY <1>1, <1>2, <1>3 DEF Few

LEMMA FewIsMonotonic ==
  ASSUME NEW m \in Nat, NEW n \in Nat, m <= n, NEW s, Few(s, m)
  PROVE  Few(s, n)
BY DEF Few

LEMMA NoneIsFew == Few(<<>>, 0)
BY DEF Few

LEMMA LiteralIsFew ==
  ASSUME NEW bytes \in Seq(Byte), Len(bytes) <= LiteralFlush + BlockSize
  PROVE  Few(<<Literal(bytes)>>, 1)
<1> DEFINE token == Literal(bytes)
<1>1. token \in Token /\ token.bytes = bytes
  BY LiteralIsToken DEF Literal
<1> HIDE DEF token
<1> DEFINE s == <<token>>
<1>2. s \in Seq(Token) /\ Len(s) = 1 /\ s[1] = token
  BY <1>1
<1> HIDE DEF s
<1>3. Few(s, 1)
  BY <1>1, <1>2 DEF Few
<1> QED
  BY <1>3 DEF s, token

LEMMA RunIsFew ==
  ASSUME IInv
  PROVE  Few(RunToken, 1) /\ (run = NoRun => Few(RunToken, 0))
<1>1. CASE run = NoRun
  <2>1. RunToken = <<>>
    BY <1>1 DEF RunToken
  <2>2. Few(<<>>, 0) /\ Few(<<>>, 1)
    BY NoneIsFew, FewIsMonotonic
  <2> QED
    BY <2>1, <2>2
<1>2. CASE run # NoRun
  <2> DEFINE token == Copy(run.start, run.len)
  <2>1. token \in Token /\ RunToken = <<token>> /\ token.kind # "literal"
    BY <1>2, RunIsToken DEF Copy
  <2> HIDE DEF token
  <2> DEFINE s == <<token>>
  <2>2. s \in Seq(Token) /\ Len(s) = 1 /\ s[1] = token
    BY <2>1
  <2> HIDE DEF s
  <2>3. Few(s, 1)
    BY <2>1, <2>2 DEF Few
  <2> QED
    BY <1>2, <2>1, <2>3 DEF s
<1> QED
  BY <1>1, <1>2

LEMMA TrimmedIsToken ==
  ASSUME NEW token \in Token, NEW skip \in Nat, skip < Length(token)
  PROVE  Trimmed(token, skip) \in Token /\ Length(Trimmed(token, skip)) > 0
<1>1. CASE token.kind = "copy"
  <2>1. token.offset \in Nat /\ token.len \in Nat /\ skip < token.len
    BY <1>1 DEF Token, Length
  <2>2. Trimmed(token, skip) = Copy(token.offset + skip, token.len - skip)
    BY <1>1 DEF Trimmed
  <2> QED
    BY <2>1, <2>2 DEF Copy, Token, Length
<1>2. CASE token.kind # "copy"
  <2> DEFINE b == token.bytes
  <2>1. b \in Seq(Byte) /\ Len(b) \in Nat /\ skip < Len(b)
    BY <1>2 DEF Token, Length
  <2>2. Trimmed(token, skip) = Literal(SubSeq(b, skip + 1, Len(b)))
    BY <1>2 DEF Trimmed, Beyond
  <2> HIDE DEF b
  <2> DEFINE piece == SubSeq(b, skip + 1, Len(b))
  <2>3. piece \in Seq(Byte) /\ Len(piece) = Len(b) - skip
    BY <2>1, Cut
  <2> HIDE DEF piece
  <2>4. Literal(piece) \in Token /\ Length(Literal(piece)) > 0
    BY <2>1, <2>3, LiteralIsToken
  <2> QED
    BY <2>2, <2>4 DEF piece
<1> QED
  BY <1>1, <1>2

LEMMA ReverseIs ==
  ASSUME NEW s \in Seq(Byte)
  PROVE  /\ Reverse(s) \in Seq(Byte) /\ Len(Reverse(s)) = Len(s)
         /\ \A i \in 1..Len(s) : Reverse(s)[i] = s[Len(s) - i + 1]
<1>1. Len(s) \in Nat /\ \A i \in 1..Len(s) : Len(s) - i + 1 \in 1..Len(s)
  OBVIOUS
<1>2. \A i \in 1..Len(s) : s[Len(s) - i + 1] \in Byte
  BY <1>1
<1> QED
  BY <1>1, <1>2 DEF Reverse

LEMMA BInitially == Init => BInv
<1> SUFFICES ASSUME Init
             PROVE  BInv
  OBVIOUS
<1>1. Len(literal) = 0 /\ Len(buffer) = 0 /\ Ahead = 0 /\ at = "next" /\ rolling = NoSum
  BY DEF Init, Ahead
<1>2. Carried /\ Filled /\ Gathered
  BY <1>1, Sizes DEF Carried, Filled, Gathered
<1>3. Queued
  <2>1. Few(<<>>, 2)
    BY NoneIsFew, FewIsMonotonic
  <2> QED
    BY <1>1, <2>1 DEF Init, Queued
<1>4. Delivered
  <2>1. eof \in BOOLEAN /\ sent = <<>>
    BY Zenon DEF Init
  <2>2. sent \in Seq(Token) /\ Len(sent) = 0
    BY <2>1
  <2>3. \A k \in 1..Len(sent) : FALSE
    BY <2>2
  <2> QED
    BY <2>1, <2>2, <2>3 DEF Delivered
<1> QED
  BY <1>2, <1>3, <1>4 DEF BInv

\* The steps at the head of the loop leave what is gathered as it is.
LEMMA BStartStep == IInv /\ BInv /\ StartStep => BInv'
<1> SUFFICES ASSUME IInv, BInv, StartStep
             PROVE  BInv'
  OBVIOUS
<1>1. /\ at = "next" /\ ready = <<>> /\ at' = "fill"
      /\ UNCHANGED <<eof, literal, rolling, run, ready, sent>>
  BY DEF StartStep, link
<1>2. /\ buffer \in Seq(Byte) /\ pos \in Nat /\ Len(buffer) \in Nat /\ Ahead = Len(buffer) - pos /\ pos <= Len(buffer)
  BY Numbers DEF IInv, Typed
<1>3. /\ buffer' \in Seq(Byte) /\ pos' \in Nat /\ pos' <= ReadAhead /\ Ahead' = Ahead
      /\ Len(buffer') <= Len(buffer) /\ Len(buffer') \in Nat /\ Len(buffer') = pos' + Ahead
      /\ \A i \in 1..Ahead : buffer'[pos' + i] = buffer[pos + i]
  <2>1. CASE UNCHANGED <<buffer, pos>> /\ pos <= ReadAhead
    BY <1>2, <2>1 DEF Ahead
  <2>2. CASE buffer' = Beyond(buffer, pos) /\ pos' = 0
    <3>1. /\ buffer' \in Seq(Byte) /\ Len(buffer') = Len(buffer) - pos
          /\ \A i \in 1..Len(buffer') : buffer'[i] = buffer[pos + i]
      BY <1>2, <2>2 DEF Beyond
    <3>2. Ahead' = Ahead
      BY <1>2, <2>2, <3>1 DEF Ahead
    <3> QED
      BY <1>2, <2>2, <3>1, <3>2, Sizes
  <2> QED
    BY <1>2, <2>1, <2>2, Sizes DEF StartStep
<1>4. Carried'
  <2> SUFFICES ASSUME rolling # NoSum
               PROVE  Ahead' >= BlockSize /\ rolling = Sum(Window')
    BY <1>1 DEF Carried
  <2>1. Ahead >= BlockSize /\ rolling = Sum(Window)
    BY DEF BInv, Carried
  <2>2. \A i \in 1..BlockSize : buffer'[pos' + i] = buffer[pos + i]
    <3>1. \A i \in 1..BlockSize : i \in 1..Ahead
      BY <1>2, <2>1, Sizes
    <3> QED
      BY <1>3, <3>1
  <2>3. Window' = Window
    <3>1. pos + BlockSize <= Len(buffer) /\ pos' + BlockSize <= Len(buffer')
      BY <1>2, <1>3, <2>1, Sizes
    <3>2. SubSeq(buffer', pos' + 1, pos' + BlockSize) = SubSeq(buffer, pos + 1, pos + BlockSize)
      <4> DEFINE b == buffer'
                 p == pos'
      <4>1. b \in Seq(Byte) /\ p \in Nat /\ p + BlockSize <= Len(b) /\ \A i \in 1..BlockSize : b[p + i] = buffer[pos + i]
        BY <1>3, <2>2, <3>1
      <4>2. buffer \in Seq(Byte) /\ pos \in Nat /\ pos + BlockSize <= Len(buffer)
        BY <1>2, <3>1
      <4> HIDE DEF b, p
      <4>3. SubSeq(b, p + 1, p + BlockSize) = SubSeq(buffer, pos + 1, pos + BlockSize)
        BY <4>1, <4>2, SameWindow
      <4> QED
        BY <4>3 DEF b, p
    <3> QED
      BY <3>2 DEF Window
  <2> QED
    BY <1>3, <2>1, <2>3
<1>5. Filled'
  BY <1>1, <1>2, <1>3, Sizes DEF BInv, Filled
<1>6. Gathered'
  BY <1>1, <1>3 DEF BInv, Gathered
<1>7. Queued' /\ Delivered'
  BY <1>1 DEF BInv, Queued, Delivered
<1> QED
  BY <1>4, <1>5, <1>6, <1>7 DEF BInv

LEMMA BRead == IInv /\ BInv /\ Read => BInv'
<1> SUFFICES ASSUME IInv, BInv, Read
             PROVE  BInv'
  OBVIOUS
<1>1. /\ at = "fill" /\ ~eof /\ Ahead < BlockSize + ReadAhead
      /\ UNCHANGED <<eof, pos, literal, rolling, run, ready, at, sent>>
  BY DEF Read, Wanting, link
<1>2. PICK n \in 1..ReadAhead : \E bytes \in [1..n -> Byte] : buffer' = buffer \o bytes
  BY DEF Read
<1>3. PICK bytes \in [1..n -> Byte] : buffer' = buffer \o bytes
  BY <1>2
<1>4. n \in Nat /\ n <= ReadAhead /\ bytes \in Seq(Byte) /\ Len(bytes) = n
  BY <1>2, <1>3, Sizes
<1>5. /\ buffer \in Seq(Byte) /\ pos \in Nat /\ Len(buffer) \in Nat /\ Ahead = Len(buffer) - pos /\ pos <= Len(buffer)
  BY Numbers DEF IInv, Typed
<1>6. /\ buffer' \in Seq(Byte) /\ Len(buffer') = Len(buffer) + n
      /\ \A i \in 1..Len(buffer) : buffer'[i] = buffer[i]
  BY <1>3, <1>4, <1>5, Joined
<1>7. Ahead' = Ahead + n
  BY <1>1, <1>4, <1>5, <1>6 DEF Ahead
<1>8. Carried'
  <2> SUFFICES ASSUME rolling # NoSum
               PROVE  Ahead' >= BlockSize /\ rolling = Sum(Window')
    BY <1>1 DEF Carried
  <2>1. Ahead >= BlockSize /\ rolling = Sum(Window)
    BY DEF BInv, Carried
  <2>2. \A i \in 1..BlockSize : pos + i \in 1..Len(buffer)
    BY <1>5, <2>1, Sizes
  <2>3. Window' = Window
    <3>1. pos + BlockSize <= Len(buffer) /\ pos + BlockSize <= Len(buffer')
      BY <1>4, <1>5, <1>6, <2>1, Sizes
    <3>2. \A i \in 1..BlockSize : buffer'[pos + i] = buffer[pos + i]
      BY <1>6, <2>2
    <3> QED
      BY <1>1, <1>5, <1>6, <3>1, <3>2, SameWindow DEF Window
  <2> QED
    BY <1>4, <1>5, <1>7, <2>1, <2>3, Sizes
<1>9. Filled'
  <2>1. pos <= ReadAhead
    BY <1>1 DEF BInv, Filled
  <2> QED
    BY <1>1, <1>4, <1>5, <1>6, <1>7, <2>1, Sizes DEF Filled
<1>10. Gathered'
  BY <1>1 DEF BInv, Gathered
<1>11. Queued' /\ Delivered'
  BY <1>1 DEF BInv, Queued, Delivered
<1> QED
  BY <1>8, <1>9, <1>10, <1>11 DEF BInv

LEMMA BStartScan == IInv /\ BInv /\ StartScan => BInv'
<1> SUFFICES ASSUME IInv, BInv, StartScan
             PROVE  BInv'
  OBVIOUS
<1>1. /\ at = "fill" /\ at' = "scan" /\ ~Wanting /\ Ahead >= BlockSize
      /\ UNCHANGED <<eof, buffer, pos, literal, run, ready, sent>>
      /\ rolling' = IF rolling = NoSum THEN Sum(Window) ELSE rolling
  BY DEF StartScan, link
<1>2. Ahead' = Ahead /\ Window' = Window
  BY <1>1 DEF Ahead, Window
<1>3. ready = <<>>
  BY <1>1 DEF IInv, Staged
<1>4. Carried'
  <2>1. /\ buffer \in Seq(Byte) /\ pos \in Nat /\ Len(buffer) \in Nat /\ Ahead = Len(buffer) - pos
        /\ pos + BlockSize <= Len(buffer)
    BY <1>1, Numbers DEF IInv, Typed
  <2>2. Window \in Seq(Byte)
    BY <2>1, WindowIs DEF Window
  <2>3. Sum(Window) # NoSum
    BY <2>2, BytesAreNumbers, SumIsSome
  <2>4. rolling' # NoSum /\ rolling' = Sum(Window)
    BY <1>1, <2>3 DEF BInv, Carried
  <2> QED
    BY <1>1, <1>2, <2>4 DEF Carried
<1>5. Filled' /\ Delivered'
  BY <1>1, <1>2 DEF BInv, Filled, Delivered
<1>6. Gathered'
  <2>1. eof \/ Ahead >= BlockSize + ReadAhead
    <3>1. Ahead \in Int /\ BlockSize + ReadAhead \in Int
      BY Numbers, Sizes
    <3> QED
      BY <1>1, <3>1 DEF Wanting
  <2> QED
    BY <1>1, <1>2, <2>1 DEF BInv, Gathered
<1>7. Queued'
  <2>1. Few(ready, 1) /\ Few(ready, 2)
    BY <1>3, NoneIsFew, FewIsMonotonic
  <2> QED
    BY <1>1, <1>3, <2>1 DEF Queued
<1> QED
  BY <1>4, <1>5, <1>6, <1>7 DEF BInv

LEMMA BOthers == IInv /\ BInv /\ (ReadEof \/ UNCHANGED vars) => BInv'
<1> SUFFICES ASSUME IInv, BInv, ReadEof \/ UNCHANGED vars
             PROVE  BInv'
  OBVIOUS
<1>1. UNCHANGED <<buffer, pos, literal, rolling, run, ready, at, sent>>
  BY DEF ReadEof, vars, matcher, link
<1>2. eof' = eof \/ (at = "fill" /\ ~eof /\ eof' = TRUE)
  BY DEF ReadEof, Wanting, vars, matcher
<1>3. Ahead' = Ahead /\ Window' = Window
  BY <1>1 DEF Ahead, Window
<1>4. Carried' /\ Filled' /\ Queued'
  BY <1>1, <1>3 DEF BInv, Carried, Filled, Queued
<1>5. Gathered'
  BY <1>1, <1>2, <1>3 DEF BInv, Gathered
<1>6. Delivered'
  BY <1>1, <1>2 DEF BInv, Delivered
<1> QED
  BY <1>4, <1>5, <1>6 DEF BInv

LEMMA BFinish == IInv /\ BInv /\ Finish => BInv'
<1> SUFFICES ASSUME IInv, BInv, Finish
             PROVE  BInv'
  OBVIOUS
<1> DEFINE tail == Beyond(buffer, pos)
           rest == literal \o tail
           last == IF rest = <<>> THEN <<>> ELSE <<Literal(rest)>>
<1>1. /\ UNCHANGED <<eof, buffer, rolling, sent>> /\ ready' = RunToken \o last
      /\ Ahead < BlockSize /\ literal' = <<>> /\ pos' = Len(buffer) /\ at = "fill" /\ at' = "next"
  BY DEF Finish, link
<1>2. /\ buffer \in Seq(Byte) /\ literal \in Seq(Byte) /\ pos \in Nat /\ Len(buffer) \in Nat
      /\ Len(literal) \in Nat /\ Ahead = Len(buffer) - pos /\ Ahead \in Nat /\ pos <= Len(buffer)
  BY Numbers DEF IInv, Typed
<1>3. Ahead' = 0
  BY <1>1, <1>2 DEF Ahead
<1>4. Carried'
  <2>1. rolling = NoSum
    BY <1>1, <1>2, Sizes DEF BInv, Carried
  <2> QED
    BY <1>1, <2>1 DEF Carried
<1>5. Filled' /\ Delivered'
  BY <1>1, <1>3, Sizes DEF BInv, Filled, Delivered
<1>6. Gathered'
  BY <1>1, Sizes DEF Gathered
<1>7. Queued'
  <2>1. tail \in Seq(Byte) /\ Len(tail) = Ahead
    BY <1>2 DEF Beyond
  <2> HIDE DEF tail
  <2>2. rest \in Seq(Byte) /\ Len(rest) = Len(literal) + Ahead
    BY <1>2, <2>1, Joined
  <2> HIDE DEF rest
  <2>3. Len(rest) <= LiteralFlush + BlockSize
    BY <1>1, <1>2, <2>2, Sizes DEF BInv, Gathered
  <2>4. Few(last, 1)
    BY <2>2, <2>3, LiteralIsFew, NoneIsFew, FewIsMonotonic
  <2> HIDE DEF last
  <2>5. Few(RunToken \o last, 1 + 1)
    BY <2>4, RunIsFew, FewJoined
  <2> QED
    BY <1>1, <2>5 DEF Queued
<1> QED
  BY <1>4, <1>5, <1>6, <1>7 DEF BInv

LEMMA BMatchBlock == IInv /\ BInv /\ MatchBlock => BInv'
<1> SUFFICES ASSUME IInv, BInv, MatchBlock
             PROVE  BInv'
  OBVIOUS
<1>1. /\ UNCHANGED <<eof, buffer, sent>> /\ at = "scan" /\ at' = "next" /\ rolling' = NoSum
      /\ literal' = <<>> /\ pos' = pos + BlockSize
      /\ ready' = ready \o LiteralToken \/ ready' = ready \o LiteralToken \o RunToken
  BY Zenon DEF MatchBlock, link
<1>2. /\ literal \in Seq(Byte) /\ pos \in Nat /\ Len(buffer) \in Nat
      /\ Len(literal) \in Nat /\ Ahead = Len(buffer) - pos /\ Ahead >= BlockSize
  BY <1>1, Numbers DEF IInv, Typed, Staged
<1>3. Ahead' = Ahead - BlockSize
  BY <1>1, <1>2, Sizes DEF Ahead
<1>4. Carried' /\ Delivered'
  BY <1>1 DEF BInv, Carried, Delivered
<1>5. Filled'
  BY <1>1, <1>2, <1>3, Sizes DEF BInv, Filled
<1>6. Gathered'
  BY <1>1, Sizes DEF Gathered
<1>7. Queued'
  <2>1. Few(LiteralToken, 1)
    <3>1. Len(literal) <= LiteralFlush + BlockSize
      BY <1>2, Sizes DEF BInv, Gathered
    <3> QED
      BY <1>2, <3>1, LiteralIsFew, NoneIsFew, FewIsMonotonic DEF LiteralToken
  <2>2. Few(ready, 1)
    BY <1>1 DEF BInv, Queued
  <2>3. Few(ready \o LiteralToken, 1 + 1)
    BY <2>1, <2>2, FewJoined
  <2>4. Few(ready \o LiteralToken \o RunToken, 2)
    <3>1. CASE run = NoRun
      <4>1. Few(RunToken, 0)
        BY <3>1, RunIsFew
      <4>2. Few(ready \o LiteralToken \o RunToken, (1 + 1) + 0)
        BY <2>3, <4>1, FewJoined
      <4> QED
        BY <4>2
    <3>2. CASE run # NoRun
      <4>1. ready = <<>> /\ LiteralToken = <<>>
        BY <1>1, <3>2, RunIsToken DEF BInv, Queued
      <4>2. Few(ready, 0) /\ Few(LiteralToken, 0) /\ Few(RunToken, 1)
        BY <4>1, NoneIsFew, RunIsFew
      <4>3. Few(ready \o LiteralToken, 0 + 0)
        BY <4>2, FewJoined
      <4>4. Few(ready \o LiteralToken \o RunToken, (0 + 0) + 1)
        BY <4>2, <4>3, FewJoined
      <4> QED
        BY <4>4, FewIsMonotonic
    <3> QED
      BY <3>1, <3>2
  <2>5. Few(ready', 2)
    <3>1. 1 + 1 = 2
      OBVIOUS
    <3>2. Few(ready \o LiteralToken, 2)
      BY <2>3, <3>1
    <3> QED
      BY <1>1, <2>4, <3>2
  <2> QED
    BY <1>1, <2>5 DEF Queued
<1> QED
  BY <1>4, <1>5, <1>6, <1>7 DEF BInv

\* The only step that gathers a literal, and the only one that rolls the checksum.
LEMMA BSlide == IInv /\ BInv /\ Slide => BInv'
<1> SUFFICES ASSUME IInv, BInv, Slide
             PROVE  BInv'
  OBVIOUS
<1> DEFINE byte == buffer[pos + 1]
           bytes == Append(literal, byte)
           flushed == ready \o (IF literal = <<>> THEN RunToken ELSE <<>>)
<1>1. /\ UNCHANGED <<eof, buffer, sent>> /\ at = "scan" /\ pos' = pos + 1
      /\ run' = IF literal = <<>> THEN NoRun ELSE run
  BY DEF Slide, link
<1>2. \/ /\ Ahead = BlockSize /\ rolling' = NoSum /\ at' = "next"
         /\ literal' = bytes /\ ready' = flushed
      \/ /\ Ahead > BlockSize /\ rolling' = Roll(rolling, byte, buffer[pos + BlockSize + 1])
         /\ Len(bytes) >= LiteralFlush
         /\ literal' = <<>> /\ ready' = flushed \o <<Literal(bytes)>> /\ at' = "next"
      \/ /\ Ahead > BlockSize /\ rolling' = Roll(rolling, byte, buffer[pos + BlockSize + 1])
         /\ ~(Len(bytes) >= LiteralFlush)
         /\ literal' = bytes /\ ready' = flushed /\ at' = at
  BY Zenon DEF Slide
<1>3. /\ buffer \in Seq(Byte) /\ literal \in Seq(Byte) /\ pos \in Nat /\ Len(buffer) \in Nat
      /\ Len(literal) \in Nat /\ Ahead = Len(buffer) - pos /\ Ahead >= BlockSize
  BY <1>1, Numbers DEF IInv, Typed, Staged
<1>4. Ahead' = Ahead - 1
  BY <1>1, <1>3 DEF Ahead
<1>5. byte \in Byte
  <2>1. pos + 1 \in 1..Len(buffer)
    BY <1>3, Sizes
  <2> QED
    BY <1>3, <2>1
<1>6. bytes \in Seq(Byte) /\ Len(bytes) = Len(literal) + 1
  <2> HIDE DEF byte
  <2> QED
    BY <1>3, <1>5
<1>7. ASSUME Ahead > BlockSize
      PROVE  /\ Roll(rolling, byte, buffer[pos + BlockSize + 1]) = Sum(Window')
             /\ Sum(Window') # NoSum
  <2> DEFINE next == buffer[pos + BlockSize + 1]
             w == Window
             v == SubSeq(buffer, pos + 1 + 1, pos + 1 + BlockSize)
  <2>1. Window' = v
    BY <1>1 DEF Window
  <2>2. pos + 1 \in Nat /\ pos + 1 + BlockSize <= Len(buffer) /\ pos + BlockSize <= Len(buffer)
    BY <1>3, <1>7, Sizes
  <2>3. w \in Seq(Byte) /\ Len(w) = BlockSize /\ \A i \in 1..BlockSize : w[i] = buffer[pos + i]
    BY <1>3, <2>2, WindowIs DEF Window
  <2>4. v \in Seq(Byte) /\ Len(v) = BlockSize /\ \A i \in 1..BlockSize : v[i] = buffer[pos + 1 + i]
    BY <1>3, <2>2, WindowIs
  <2>5. next \in Nat
    <3>1. pos + BlockSize + 1 \in 1..Len(buffer)
      BY <1>3, <2>2, Sizes
    <3>2. next \in Byte
      BY <1>3, <3>1
    <3> QED
      BY <3>2, ByteAssumption
  <2>6. rolling = Sum(w)
    BY <1>1 DEF BInv, Carried
  <2>7. w[1] = byte
    BY <2>3, Sizes
  <2> HIDE DEF w, v, next, byte
  <2>8. v[BlockSize] = next
    <3>1. BlockSize \in 1..BlockSize /\ pos + 1 + BlockSize = pos + BlockSize + 1
      BY <1>3, Sizes
    <3> QED
      BY <2>4, <3>1 DEF next
  <2>9. \A i \in 1..(BlockSize - 1) : v[i] = w[i + 1]
    <3> TAKE i \in 1..(BlockSize - 1)
    <3>1. i \in 1..BlockSize /\ i + 1 \in 1..BlockSize /\ pos + 1 + i = pos + (i + 1)
      BY <1>3, Sizes
    <3> QED
      BY <2>3, <2>4, <3>1
  <2>10. Moves(w, v, next)
    BY <2>3, <2>4, <2>8, <2>9 DEF Moves
  <2>11. w \in Seq(Nat) /\ v \in Seq(Nat)
    BY <2>3, <2>4, BytesAreNumbers
  <2>12. Roll(Sum(w), w[1], next) = Sum(v)
    BY <2>3, <2>5, <2>10, <2>11, RollIsTheNextSum
  <2>13. Sum(v) # NoSum
    BY <2>11, SumIsSome
  <2> QED
    BY <2>1, <2>6, <2>7, <2>12, <2>13 DEF next
<1>8. Carried'
  <2>1. CASE rolling' = NoSum /\ at' = "next"
    BY <2>1 DEF Carried
  <2>2. CASE Ahead > BlockSize /\ rolling' = Roll(rolling, byte, buffer[pos + BlockSize + 1])
    <3>1. rolling' = Sum(Window') /\ rolling' # NoSum
      BY <1>7, <2>2
    <3>2. Ahead' >= BlockSize
      BY <1>3, <1>4, <2>2, Sizes
    <3> QED
      BY <3>1, <3>2 DEF Carried
  <2> QED
    BY <1>2, <2>1, <2>2
<1>9. Filled' /\ Delivered'
  <2>1. at' # "fill"
    BY <1>1, <1>2
  <2> QED
    BY <1>1, <1>3, <1>4, <2>1, Sizes DEF BInv, Filled, Delivered
<1>10. /\ Len(literal) <= LiteralFlush
       /\ Len(literal) = LiteralFlush => eof \/ Ahead >= BlockSize + ReadAhead
  BY <1>1, <1>3, Sizes DEF BInv, Gathered
<1>11. Gathered'
  <2> HIDE DEF bytes
  <2>1. CASE Ahead = BlockSize /\ literal' = bytes
    <3>1. Len(literal') = Len(literal) + 1 /\ Ahead' < BlockSize
      BY <1>3, <1>4, <1>6, <2>1, Sizes
    <3>2. Len(literal) = LiteralFlush => eof
      BY <1>10, <2>1, Sizes
    <3> QED
      BY <1>1, <1>3, <1>10, <3>1, <3>2, Sizes DEF Gathered
  <2>2. CASE literal' = <<>>
    BY <2>2, Sizes DEF Gathered
  <2>3. CASE ~(Len(bytes) >= LiteralFlush) /\ literal' = bytes
    <3>1. Len(literal') < LiteralFlush /\ Len(literal') \in Nat
      BY <1>3, <1>6, <2>3, Sizes
    <3> QED
      BY <3>1, Sizes DEF Gathered
  <2> QED
    BY <1>2, <2>1, <2>2, <2>3
<1>12. Queued'
  <2>1. run' = NoRun
    BY <1>1 DEF IInv, InARow
  <2>2. Few(ready, 1) /\ (ready # <<>> => run = NoRun)
    BY <1>1 DEF BInv, Queued
  <2>3. Few(flushed, 1)
    <3>1. CASE literal # <<>>
      <4>1. Few(ready \o <<>>, 1 + 0)
        BY <2>2, NoneIsFew, FewJoined
      <4> QED
        BY <3>1, <4>1
    <3>2. CASE literal = <<>> /\ run = NoRun
      <4>1. Few(ready \o RunToken, 1 + 0)
        BY <2>2, <3>2, RunIsFew, FewJoined
      <4> QED
        BY <3>2, <4>1
    <3>3. CASE literal = <<>> /\ run # NoRun
      <4>1. Few(ready, 0)
        BY <2>2, <3>3, NoneIsFew
      <4>2. Few(ready \o RunToken, 0 + 1)
        BY <4>1, RunIsFew, FewJoined
      <4> QED
        BY <3>3, <4>2
    <3> QED
      BY <3>1, <3>2, <3>3
  <2> HIDE DEF flushed, bytes
  <2>4. Few(<<Literal(bytes)>>, 1)
    <3>1. Len(bytes) <= LiteralFlush + BlockSize
      BY <1>3, <1>6, <1>10, Sizes
    <3> QED
      BY <1>6, <3>1, LiteralIsFew
  <2>5. Few(flushed \o <<Literal(bytes)>>, 2)
    <3>1. Few(flushed \o <<Literal(bytes)>>, 1 + 1)
      BY <2>3, <2>4, FewJoined
    <3>2. 1 + 1 = 2
      OBVIOUS
    <3> QED
      BY <3>1, <3>2
  <2>6. Few(flushed, 2)
    BY <2>3, FewIsMonotonic
  <2> QED
    BY <1>1, <1>2, <2>1, <2>3, <2>5, <2>6 DEF Queued
<1> QED
  BY <1>8, <1>9, <1>11, <1>12 DEF BInv

LEMMA BDeliver == IInv /\ BInv /\ Deliver => BInv'
<1> SUFFICES ASSUME IInv, BInv, Deliver
             PROVE  BInv'
  OBVIOUS
<1> DEFINE token == Head(ready)
           behind == Len(kept) - produced
<1>1. /\ UNCHANGED <<eof, buffer, pos, literal, rolling, run, at>> /\ at = "next" /\ ready # <<>>
      /\ ready' = Tail(ready) /\ produced' = produced + Length(token)
      /\ \/ UNCHANGED sent
         \/ /\ ~(produced' <= Len(kept))
            /\ sent' = Append(sent, IF behind > 0 THEN Trimmed(token, behind) ELSE token)
  BY DEF Deliver
<1>2. Ahead' = Ahead /\ Window' = Window
  BY <1>1 DEF Ahead, Window
<1>3. Carried' /\ Filled' /\ Gathered'
  BY <1>1, <1>2 DEF BInv, Carried, Filled, Gathered
<1>4. ready \in Seq(Token) /\ token \in Token /\ Length(token) \in Nat
  BY <1>1, TokenLengths DEF IInv, Typed
<1>5. Queued'
  <2>1. /\ Tail(ready) \in Seq(Token) /\ Len(Tail(ready)) = Len(ready) - 1
        /\ \A k \in 1..Len(Tail(ready)) : Tail(ready)[k] = ready[k + 1]
    BY <1>1, <1>4
  <2> DEFINE rest == Tail(ready)
  <2> HIDE DEF rest
  <2>2. \A k \in 1..Len(rest) : k + 1 \in 1..Len(ready) /\ rest[k] = ready[k + 1]
    BY <1>4, <2>1 DEF rest
  <2>3. Few(ready, 2)
    BY DEF BInv, Queued
  <2>4. Len(rest) <= 2
    BY <1>4, <2>1, <2>3 DEF Few, rest
  <2>5. Few(rest, 2)
    BY <2>1, <2>2, <2>3, <2>4 DEF Few, rest
  <2> QED
    BY <1>1, <2>5 DEF Queued, rest
<1>6. Delivered'
  <2>1. sent \in Seq(Token) /\ eof \in BOOLEAN /\ \A k \in 1..Len(sent) : Length(sent[k]) > 0
    BY DEF BInv, Delivered
  <2>2. CASE UNCHANGED sent
    BY <1>1, <2>1, <2>2 DEF Delivered
  <2>3. CASE ~(produced' <= Len(kept)) /\ sent' = Append(sent, IF behind > 0 THEN Trimmed(token, behind) ELSE token)
    <3> DEFINE last == IF behind > 0 THEN Trimmed(token, behind) ELSE token
    <3>1. behind \in Int /\ Length(token) > 0 /\ (behind > 0 => behind < Length(token))
      <4>1. produced \in Nat /\ Len(kept) \in Nat
        BY Numbers
      <4>2. Length(token) > 0
        <5>1. Laid(ready, produced, Here - Len(literal) - run.len, seen, existing)
          BY DEF IInv, InARow
        <5>2. seen \in Seq(Byte)
          BY DEF IInv, Typed
        <5>3. Spells(token, produced, seen, existing)
          BY <1>1, <1>4, <5>1, <5>2, LaidOneLess
        <5> QED
          BY <5>3 DEF Spells
      <4>3. produced + Length(token) > Len(kept)
        BY <1>1, <1>4, <2>3, <4>1
      <4> QED
        BY <1>4, <4>1, <4>2, <4>3
    <3>2. last \in Token /\ Length(last) > 0
      <4>1. CASE behind > 0
        <5> DEFINE skip == behind
        <5>1. skip \in Nat /\ skip < Length(token)
          BY <3>1, <4>1
        <5> HIDE DEF skip
        <5>2. Trimmed(token, skip) \in Token /\ Length(Trimmed(token, skip)) > 0
          BY <1>4, <5>1, TrimmedIsToken
        <5> QED
          BY <4>1, <5>2 DEF skip
      <4>2. CASE ~(behind > 0)
        BY <1>4, <3>1, <4>2
      <4> QED
        BY <4>1, <4>2
    <3> HIDE DEF last
    <3>3. sent' = Append(sent, last)
      BY <2>3 DEF last
    <3>4. /\ sent' \in Seq(Token) /\ Len(sent') = Len(sent) + 1 /\ sent'[Len(sent) + 1] = last
          /\ \A k \in 1..Len(sent) : sent'[k] = sent[k]
      BY <2>1, <3>2, <3>3
    <3>5. \A k \in 1..Len(sent') : Length(sent'[k]) > 0
      <4> TAKE k \in 1..Len(sent')
      <4>1. k \in 1..Len(sent) \/ k = Len(sent) + 1
        BY <2>1, <3>4
      <4> QED
        BY <2>1, <3>2, <3>4, <4>1
    <3> QED
      BY <1>1, <2>1, <3>4, <3>5 DEF Delivered
  <2> QED
    BY <1>1, <2>2, <2>3
<1> QED
  BY <1>3, <1>5, <1>6 DEF BInv

LEMMA BInductive == IInv /\ BInv /\ [Next]_vars => BInv'
BY BStartStep, BRead, BOthers, BStartScan, BMatchBlock, BSlide, BFinish, BDeliver DEF Next

\* What is gathered and what lies ahead end what has been read.
LEMMA GatheredIsSuffix == IInv => IsSuffix(literal \o Beyond(buffer, pos), seen)
<1> SUFFICES ASSUME IInv
             PROVE  IsSuffix(literal \o Beyond(buffer, pos), seen)
  OBVIOUS
<1> DEFINE tail == Beyond(buffer, pos)
           held == literal \o tail
           l == Len(literal)
<1>1. /\ seen \in Seq(Byte) /\ buffer \in Seq(Byte) /\ literal \in Seq(Byte) /\ pos \in Nat
      /\ Len(buffer) \in Nat /\ Len(seen) \in Nat /\ l \in Nat /\ pos <= Len(buffer)
      /\ Ahead = Len(buffer) - pos /\ Ahead \in Nat /\ Here = Len(seen) - Ahead /\ Here \in Nat /\ l <= Here
  <2>1. seen \in Seq(Byte) /\ buffer \in Seq(Byte) /\ literal \in Seq(Byte)
    BY DEF IInv, Typed
  <2>2. Len(literal) + run.len <= Here
    BY DEF IInv, InARow
  <2>3. /\ run.len \in Nat /\ pos \in Nat /\ Len(literal) \in Nat /\ Len(buffer) \in Nat /\ Len(seen) \in Nat
        /\ Ahead = Len(buffer) - pos /\ Ahead \in 0..Len(buffer)
        /\ Here = Len(seen) - Ahead /\ Here \in 0..Len(seen)
    BY Numbers
  <2>4. Ahead \in Nat /\ Ahead <= Len(buffer) /\ Here \in Nat
    BY <2>3
  <2>5. pos <= Len(buffer)
    BY <2>3, <2>4
  <2>6. Len(literal) <= Here
    <3> DEFINE along == run.len
               gathered == Len(literal)
    <3>1. gathered + along <= Here /\ along \in Nat /\ gathered \in Nat /\ Here \in Nat
      BY <2>2, <2>3, <2>4
    <3> HIDE DEF along, gathered
    <3>2. gathered <= Here
      BY <3>1
    <3> QED
      BY <3>2 DEF gathered
  <2> QED
    BY <2>1, <2>3, <2>4, <2>5, <2>6
<1>2. tail \in Seq(Byte) /\ Len(tail) = Ahead /\ \A i \in 1..Ahead : tail[i] = buffer[pos + i]
  BY <1>1 DEF Beyond
<1> HIDE DEF tail
<1>3. /\ held \in Seq(Byte) /\ Len(held) = l + Ahead
      /\ \A i \in 1..l : held[i] = literal[i]
      /\ \A i \in 1..Ahead : held[l + i] = tail[i]
  <2>1. held \in Seq(Byte) /\ Len(held) = Len(literal) + Len(tail)
    BY <1>1, <1>2, Joined
  <2>2. \A i \in 1..Len(literal) : held[i] = literal[i]
    BY <1>1, <1>2, Joined
  <2>3. \A i \in 1..Len(tail) : held[Len(literal) + i] = tail[i]
    BY <1>1, <1>2, Joined
  <2> QED
    BY <1>2, <2>1, <2>2, <2>3
<1>4. \A i \in 1..l : literal[i] = seen[Here - l + i]
  <2>1. CASE literal = <<>>
    BY <2>1
  <2>2. CASE literal # <<>>
    <3>1. Spells(Literal(literal), Here - l, seen, existing)
      BY <2>2 DEF IInv, InARow
    <3> QED
      BY <3>1 DEF Spells, Literal
  <2> QED
    BY <2>1, <2>2
<1>5. \A i \in 1..Ahead : buffer[pos + i] = seen[Here + i]
  <2> DEFINE n == Ahead
  <2>1. n \in Nat /\ n <= Ahead
    BY <1>1
  <2> HIDE DEF n
  <2>2. \A i \in 1..n : buffer[pos + i] = seen[Here + i]
    BY <2>1, InTheBuffer
  <2> QED
    BY <2>2 DEF n
<1> HIDE DEF held, l
<1>6. /\ Len(held) \in Nat /\ Len(held) <= Len(seen)
      /\ \A i \in 1..Len(held) : held[i] = seen[Len(seen) - Len(held) + i]
  <2>1. Len(held) \in Nat /\ Len(held) <= Len(seen) /\ Len(seen) - Len(held) = Here - l
    BY <1>1, <1>3
  <2> SUFFICES ASSUME NEW i \in 1..Len(held)
               PROVE  held[i] = seen[Len(seen) - Len(held) + i]
    BY <2>1
  <2>2. CASE i <= l
    <3>1. i \in 1..l
      BY <1>1, <1>3, <2>2
    <3> QED
      BY <1>3, <1>4, <2>1, <3>1
  <2>3. CASE i > l
    <3> DEFINE j == i - l
    <3>1. j \in 1..Ahead /\ i = l + j /\ Here - l + i = Here + j
      BY <1>1, <1>3, <2>3
    <3> HIDE DEF j
    <3> QED
      BY <1>2, <1>3, <1>5, <2>1, <3>1
  <2> QED
    BY <1>1, <1>3, <2>2, <2>3
<1>7. SubSeq(Reverse(held), 1, Len(held)) = SubSeq(Reverse(seen), 1, Len(held))
  <2> DEFINE s == Reverse(held)
             t == Reverse(seen)
  <2>1. /\ s \in Seq(Byte) /\ Len(s) = Len(held) /\ \A i \in 1..Len(held) : s[i] = held[Len(held) - i + 1]
    BY <1>3, ReverseIs
  <2>2. /\ t \in Seq(Byte) /\ Len(t) = Len(seen) /\ \A i \in 1..Len(seen) : t[i] = seen[Len(seen) - i + 1]
    BY <1>1, ReverseIs
  <2> HIDE DEF s, t
  <2>3. \A i \in 1..Len(held) : s[i] = t[i]
    <3> TAKE i \in 1..Len(held)
    <3> DEFINE j == Len(held) - i + 1
    <3>1. j \in 1..Len(held) /\ i \in 1..Len(seen) /\ Len(seen) - Len(held) + j = Len(seen) - i + 1
      BY <1>1, <1>6
    <3>2. s[i] = held[j] /\ t[i] = seen[Len(seen) - i + 1]
      BY <2>1, <2>2, <3>1
    <3> HIDE DEF j
    <3> QED
      BY <1>6, <3>1, <3>2
  <2> DEFINE u == SubSeq(s, 1, Len(held))
             v == SubSeq(t, 1, Len(held))
  <2>4. u \in Seq(Byte) /\ Len(u) = Len(held) /\ \A i \in 1..Len(held) : u[i] = s[i]
    BY <1>6, <2>1
  <2>5. v \in Seq(Byte) /\ Len(v) = Len(held) /\ \A i \in 1..Len(held) : v[i] = t[i]
    BY <1>1, <1>6, <2>2
  <2> HIDE DEF u, v
  <2>6. u = v
    BY <2>3, <2>4, <2>5
  <2> QED
    BY <2>6 DEF u, v, s, t
<1>8. Len(Reverse(held)) = Len(held) /\ Len(Reverse(seen)) = Len(seen)
  BY <1>1, <1>3, ReverseIs
<1>9. IsSuffix(held, seen)
  BY <1>6, <1>7, <1>8 DEF IsSuffix, IsPrefix
<1> QED
  BY <1>9 DEF held, tail

LEMMA TypesImplied == IInv /\ BInv => TypeOK
<1> SUFFICES ASSUME IInv, BInv
             PROVE  TypeOK
  OBVIOUS
<1>1. /\ {existing, kept, seen, buffer, literal} \subseteq Seq(Byte) /\ pos \in 0..Len(buffer)
      /\ finished \in BOOLEAN /\ at \in {"next", "fill", "scan"}
  BY DEF IInv, Typed
<1>2. produced \in 0..Len(seen)
  BY Numbers
<1>3. eof \in BOOLEAN /\ (rolling # NoSum => rolling = Sum(Window))
  BY DEF BInv, Carried, Delivered
<1>4. \A token \in Range(sent) : Length(token) > 0
  BY DEF BInv, Delivered, Range
<1>5. \A token \in Range(ready) : Length(token) > 0
  <2>1. Laid(ready, produced, Here - Len(literal) - run.len, seen, existing) /\ ready \in Seq(Token)
    BY DEF IInv, InARow, Typed
  <2>2. \A k \in 1..Len(ready) : Length(ready[k]) > 0
    BY <2>1 DEF Laid, Spells
  <2> QED
    BY <2>1, <2>2 DEF Range
<1>6. Bounded
  <2>1. Few(ready, 2) /\ Len(buffer) < BlockSize + 3 * ReadAhead
    BY DEF BInv, Queued, Filled
  <2>2. \A token \in Range(ready) : token.kind = "literal" => Len(token.bytes) <= LiteralFlush + BlockSize
    BY <2>1 DEF Few, Range
  <2> QED
    BY <2>1, <2>2 DEF Bounded, Few
<1> QED
  BY <1>1, <1>2, <1>3, <1>4, <1>5, <1>6, GatheredIsSuffix DEF TypeOK

\* The types, the place of what is gathered, the buffers' bounds, and: rolled from window
\* to window, or broken off and taken up again, a checksum is the one that
\* would be computed afresh.
THEOREM DeltaTypes == Spec => []TypeOK
BY Initially, BInitially, Inductive, BInductive, TypesImplied, PTL DEF Spec

-----------------------------------------------------------------------------
(* What an unchanged file costs *)

\* Nothing has been resumed, and the source has been the target's file so far.
SoFarSame ==
  /\ kept = <<>> /\ Len(seen) <= Len(existing)
  /\ \A i \in 1..Len(seen) : seen[i] = existing[i]

Rest == Len(seen) % BlockSize
CopiesOnly ==
  /\ \A i \in 1..Len(sent) :
       sent[i].kind = "literal" =>
         finished /\ ready = <<>> /\ i = Len(sent) /\ Len(sent[i].bytes) = Rest
  /\ \A i \in 1..Len(ready) :
       ready[i].kind = "literal" => finished /\ i = Len(ready) /\ Len(ready[i].bytes) = Rest

\* Where no block repeats, one run grows from the start, and is one token in the end.
OneRun ==
  /\ ~finished => sent = <<>> /\ ready = <<>> /\ run = [start |-> 0, len |-> Here]
  /\ \/ sent = <<>> /\ \A i \in 1..Len(ready) : ready[i].kind = "copy" => i = 1
     \/ /\ \A i \in 1..Len(ready) : ready[i].kind # "copy"
        /\ \A i \in 1..Len(sent) : sent[i].kind = "copy" => i = 1

\* The window goes from block to block and finds each where it lies.
Aligned == \E n \in Nat : Here = n * BlockSize

CInv ==
  SoFarSame => literal = <<>> /\ CopiesOnly /\ (~finished => Aligned) /\ (Repeating \/ OneRun)

LEMMA CInitially == Init => CInv
<1> SUFFICES ASSUME Init
             PROVE  literal = <<>> /\ CopiesOnly /\ Aligned /\ OneRun
  BY DEF CInv
<1>1. /\ literal = <<>> /\ sent = <<>> /\ ready = <<>> /\ seen = <<>> /\ buffer = <<>> /\ pos = 0
      /\ run = [start |-> 0, len |-> 0] /\ ~finished
  BY DEF Init, NoRun
<1>2. Here = 0
  BY <1>1 DEF Here, Ahead
<1>3. Aligned
  BY <1>2, Sizes DEF Aligned
<1>4. CopiesOnly /\ OneRun
  BY <1>1, <1>2 DEF CopiesOnly, OneRun
<1> QED
  BY <1>1, <1>3, <1>4

\* Steps that send, queue and gather nothing and leave the window where it is.
LEMMA CStays ==
  ASSUME CInv, UNCHANGED <<existing, literal, run, ready, finished, sent>>,
         Here' = Here, SoFarSame' => SoFarSame, seen' = seen \/ ~finished
  PROVE  CInv'
<1> SUFFICES ASSUME SoFarSame'
             PROVE  literal' = <<>> /\ CopiesOnly' /\ (~finished' => Aligned') /\ (Repeating' \/ OneRun')
  BY DEF CInv
<1>1. literal = <<>> /\ CopiesOnly /\ (~finished => Aligned) /\ (Repeating \/ OneRun)
  BY DEF CInv
<1>2. Repeating' = Repeating
  BY DEF Repeating, Blocks, Block
<1>3. Aligned => Aligned'
  BY DEF Aligned
<1>4. OneRun => OneRun'
  BY DEF OneRun
<1>5. CopiesOnly'
  <2>1. CASE seen' = seen
    BY <1>1, <2>1 DEF CopiesOnly, Rest
  <2>2. CASE ~finished
    BY <1>1, <2>2 DEF CopiesOnly
  <2> QED
    BY <2>1, <2>2
<1> QED
  BY <1>1, <1>2, <1>3, <1>4, <1>5

LEMMA CStartStep == IInv /\ CInv /\ StartStep => CInv'
<1> SUFFICES ASSUME IInv, CInv, StartStep
             PROVE  CInv'
  OBVIOUS
<1>1. UNCHANGED <<existing, kept, seen, literal, run, ready, finished, sent>>
  BY DEF StartStep, sourceVars, link
<1>2. buffer \in Seq(Byte) /\ pos \in 0..Len(buffer)
  BY DEF IInv, Typed
<1>3. Here' = Here
  <2>1. CASE UNCHANGED <<buffer, pos>>
    BY <1>1, <2>1 DEF Here, Ahead
  <2>2. CASE buffer' = Beyond(buffer, pos) /\ pos' = 0
    <3>1. Len(buffer') = Len(buffer) - pos
      BY <1>2, <2>2 DEF Beyond
    <3> QED
      BY <1>1, <1>2, <2>2, <3>1 DEF Here, Ahead
  <2> QED
    BY <2>1, <2>2 DEF StartStep
<1>4. SoFarSame' => SoFarSame
  BY <1>1 DEF SoFarSame
<1> QED
  BY <1>1, <1>3, <1>4, CStays

LEMMA CRead == IInv /\ CInv /\ Read => CInv'
<1> SUFFICES ASSUME IInv, CInv, Read
             PROVE  CInv'
  OBVIOUS
<1>1. PICK n \in 1..ReadAhead : \E bytes \in [1..n -> Byte] : seen' = seen \o bytes /\ buffer' = buffer \o bytes
  BY DEF Read
<1>2. PICK bytes \in [1..n -> Byte] : seen' = seen \o bytes /\ buffer' = buffer \o bytes
  BY <1>1
<1>3. n \in Nat /\ bytes \in Seq(Byte) /\ Len(bytes) = n
  BY SizesAssumption
<1>4. UNCHANGED <<existing, kept, pos, literal, run, ready, finished, sent>> /\ ~finished
  BY DEF Read, sourceVars, link, IInv, Staged
<1>5. seen \in Seq(Byte) /\ buffer \in Seq(Byte) /\ pos \in 0..Len(buffer)
  BY DEF IInv, Typed
<1>6. /\ Len(seen') = Len(seen) + n /\ Len(buffer') = Len(buffer) + n
      /\ \A i \in 1..Len(seen) : seen'[i] = seen[i]
  BY <1>2, <1>3, <1>5, Joined
<1>7. Here' = Here
  BY <1>3, <1>4, <1>5, <1>6 DEF Here, Ahead
<1>8. SoFarSame' => SoFarSame
  <2> SUFFICES ASSUME SoFarSame'
               PROVE  SoFarSame
    OBVIOUS
  <2>1. Len(seen) \in Nat /\ Len(seen) <= Len(seen')
    BY <1>3, <1>5, <1>6
  <2>2. \A i \in 1..Len(seen) : i \in 1..Len(seen')
    BY <1>3, <1>5, <1>6
  <2>3. kept = <<>> /\ \A i \in 1..Len(seen) : seen[i] = existing[i]
    BY <1>4, <1>6, <2>2 DEF SoFarSame
  <2>4. Len(seen) <= Len(existing)
    <3>1. existing \in Seq(Byte) /\ Len(seen') <= Len(existing)
      BY <1>4 DEF SoFarSame, IInv, Typed
    <3>2. Len(existing) \in Nat
      BY <3>1
    <3> QED
      BY <1>3, <1>5, <1>6, <3>1, <3>2
  <2> QED
    BY <2>3, <2>4 DEF SoFarSame
<1> QED
  BY <1>4, <1>7, <1>8, CStays

LEMMA COthers == CInv /\ (ReadEof \/ StartScan \/ UNCHANGED vars) => CInv'
<1> SUFFICES ASSUME CInv, ReadEof \/ StartScan \/ UNCHANGED vars
             PROVE  CInv'
  OBVIOUS
<1>1. UNCHANGED <<existing, kept, seen, buffer, pos, literal, run, ready, finished, sent>>
  BY DEF ReadEof, StartScan, vars, sourceVars, matcher, link
<1>2. Here' = Here /\ (SoFarSame' => SoFarSame)
  BY <1>1 DEF Here, Ahead, SoFarSame
<1> QED
  BY <1>1, <1>2, CStays

\* So many whole blocks are there.
LEMMA Whole ==
  ASSUME NEW size \in Nat \ {0}, NEW m \in Nat, NEW k \in Nat, k * size <= m
  PROVE  k <= m \div size
<1> DEFINE d == m \div size
           r == m % size
<1>1. d \in Int /\ r \in 0..(size - 1) /\ m = size * d + r
  BY Division
<1> HIDE DEF d, r
<1> SUFFICES ASSUME ~(k <= d)
             PROVE  FALSE
  BY DEF d
<1>2. k - d - 1 \in Nat
  BY <1>1
<1>3. \A a, b \in Nat : a * b >= 0
  OBVIOUS
<1>4. size * (k - d - 1) >= 0
  BY <1>2, <1>3
<1>5. size * (k - d - 1) = k * size - size * d - size
  BY <1>1
<1> QED
  BY <1>1, <1>4, <1>5

\* The block that lies where the window is: one of the matches, and where no block repeats
\* the only one.
LEMMA OwnBlock ==
  ASSUME IInv, BInv, SoFarSame, at = "scan", NEW n \in Nat, Here = n * BlockSize
  PROVE  /\ n + 1 \in Matches(Window, rolling)
         /\ ~Repeating => Matches(Window, rolling) = {n + 1}
<1>1. /\ buffer \in Seq(Byte) /\ seen \in Seq(Byte) /\ existing \in Seq(Byte)
      /\ pos \in Nat /\ Len(buffer) \in Nat /\ Len(seen) \in Nat /\ Len(existing) \in Nat
      /\ Ahead = Len(buffer) - pos /\ Here = Len(seen) - Ahead /\ Here \in 0..Len(seen)
      /\ BlockSize \in Nat \ {0}
  BY Numbers, Sizes DEF IInv, Typed
<1>2. Ahead >= BlockSize /\ rolling = Sum(Window)
  BY DEF BInv, Carried
<1>3. Here + BlockSize <= Len(seen) /\ Len(seen) <= Len(existing)
  BY <1>1, <1>2 DEF SoFarSame
<1>4. (n + 1) * BlockSize = Here + BlockSize
  BY <1>1
<1>5. n + 1 \in 1..Blocks
  <2>1. n + 1 \in Nat /\ (n + 1) * BlockSize <= Len(existing)
    BY <1>1, <1>3, <1>4
  <2>2. n + 1 <= Len(existing) \div BlockSize
    BY <1>1, <2>1, Whole
  <2>3. Len(existing) \div BlockSize \in Int
    BY <1>1
  <2> QED
    BY <2>1, <2>2, <2>3 DEF Blocks
<1>6. Window = Block(n + 1)
  <2>1. \A i \in 1..BlockSize : buffer[pos + i] = existing[Here + i]
    <3> TAKE i \in 1..BlockSize
    <3>1. buffer[pos + i] = seen[Here + i]
      BY <1>1, <1>2, InTheBuffer
    <3>2. Here + i \in 1..Len(seen)
      BY <1>1, <1>3
    <3> QED
      BY <3>1, <3>2 DEF SoFarSame
  <2>2. SubSeq(buffer, pos + 1, pos + BlockSize) = SubSeq(existing, Here + 1, Here + BlockSize)
    <3>1. pos + BlockSize <= Len(buffer) /\ Here \in Nat /\ Here + BlockSize <= Len(existing)
      BY <1>1, <1>2, <1>3
    <3> DEFINE p == pos
               h == Here
    <3>2. /\ buffer \in Seq(Byte) /\ p \in Nat /\ p + BlockSize <= Len(buffer)
          /\ existing \in Seq(Byte) /\ h \in Nat /\ h + BlockSize <= Len(existing)
          /\ \A i \in 1..BlockSize : buffer[p + i] = existing[h + i]
      BY <1>1, <2>1, <3>1
    <3> HIDE DEF p, h
    <3>3. SubSeq(buffer, p + 1, p + BlockSize) = SubSeq(existing, h + 1, h + BlockSize)
      BY <3>2, SameWindow
    <3> QED
      BY <3>3 DEF p, h
  <2>3. ((n + 1) - 1) * BlockSize + 1 = Here + 1
    BY <1>1
  <2> QED
    BY <1>4, <2>2, <2>3 DEF Window, Block
<1>7. n + 1 \in Matches(Window, rolling)
  BY <1>2, <1>5, <1>6 DEF Matches
<1>8. ASSUME ~Repeating, NEW i \in Matches(Window, rolling)
      PROVE  i = n + 1
  <2>1. i \in 1..Blocks /\ Block(i) = Window
    BY <1>8 DEF Matches
  <2> QED
    BY <1>5, <1>6, <1>8, <2>1 DEF Repeating
<1> QED
  BY <1>7, <1>8

\* The window never slides.
LEMMA CSlide == IInv /\ BInv /\ CInv /\ Slide => CInv'
<1> SUFFICES ASSUME IInv, BInv, CInv, Slide, SoFarSame'
             PROVE  FALSE
  BY DEF CInv
<1>1. /\ at = "scan" /\ Matches(Window, rolling) = {} /\ UNCHANGED <<existing, kept, seen>>
  BY DEF Slide, sourceVars
<1>2. SoFarSame /\ ~finished
  BY <1>1 DEF SoFarSame, IInv, Staged
<1>3. PICK n \in Nat : Here = n * BlockSize
  BY <1>2 DEF CInv, Aligned
<1> QED
  BY <1>1, <1>2, <1>3, OwnBlock

LEMMA CMatchBlock == IInv /\ BInv /\ CInv /\ MatchBlock => CInv'
<1> SUFFICES ASSUME IInv, BInv, CInv, MatchBlock, SoFarSame'
             PROVE  literal' = <<>> /\ CopiesOnly' /\ Aligned' /\ (Repeating' \/ OneRun')
  BY DEF CInv
<1> DEFINE found == Matches(Window, rolling)
           offset == (Min(found) - 1) * BlockSize
<1>1. /\ UNCHANGED <<existing, kept, seen, buffer, finished, sent>> /\ at = "scan"
      /\ literal' = <<>> /\ pos' = pos + BlockSize
      /\ IF Extends(offset)
         THEN run' = [run EXCEPT !.len = @ + BlockSize] /\ ready' = ready \o LiteralToken
         ELSE run' = [start |-> offset, len |-> BlockSize] /\ ready' = ready \o LiteralToken \o RunToken
  BY DEF MatchBlock, sourceVars, link
<1>2. SoFarSame /\ ~finished
  BY <1>1 DEF SoFarSame, IInv, Staged
<1>3. literal = <<>> /\ CopiesOnly /\ Aligned /\ (Repeating \/ OneRun)
  BY <1>2 DEF CInv
<1>4. PICK n \in Nat : Here = n * BlockSize
  BY <1>3 DEF Aligned
<1>5. /\ pos \in Nat /\ Len(buffer) \in Nat /\ Len(seen) \in Nat /\ Here \in Nat
      /\ BlockSize \in Nat /\ BlockSize >= 1 /\ ready \in Seq(Token) /\ run.start \in Nat /\ run.len \in Nat
      /\ run \in [start : Nat, len : Nat]
  BY Numbers DEF IInv, Typed
<1>6. Here' = Here + BlockSize
  BY <1>1, <1>5 DEF Here, Ahead
<1>7. Aligned'
  <2>1. n + 1 \in Nat /\ Here + BlockSize = (n + 1) * BlockSize
    BY <1>4, <1>5
  <2> QED
    BY <1>6, <2>1 DEF Aligned
<1>8. ready' = ready \/ ready' = ready \o RunToken
  <2>1. LiteralToken = <<>> /\ ready \o <<>> = ready
    BY <1>3, <1>5 DEF LiteralToken
  <2> QED
    BY <1>1, <2>1
<1>9. CopiesOnly'
  <2>1. \A i \in 1..Len(ready) : ready[i].kind # "literal"
    BY <1>2, <1>3 DEF CopiesOnly
  <2>2. \A i \in 1..Len(ready') : ready'[i].kind # "literal"
    <3>1. CASE ready' = ready
      BY <2>1, <3>1
    <3>2. CASE ready' = ready \o RunToken /\ run # NoRun
      <4>1. RunToken = <<Copy(run.start, run.len)>> /\ Copy(run.start, run.len) \in Token
        BY <3>2, RunIsToken
      <4>2. Copy(run.start, run.len).kind # "literal"
        BY DEF Copy
      <4> DEFINE token == Copy(run.start, run.len)
      <4> HIDE DEF token
      <4>3. ready' = ready \o <<token>> /\ token \in Token /\ token.kind # "literal"
        BY <3>2, <4>1, <4>2 DEF token
      <4>4. /\ Len(ready \o <<token>>) = Len(ready) + 1
            /\ \A i \in 1..(Len(ready) + 1) :
                 (ready \o <<token>>)[i] = IF i <= Len(ready) THEN ready[i] ELSE token
        BY <1>5, <4>3
      <4> QED
        BY <1>5, <2>1, <4>3, <4>4
    <3>3. CASE ready' = ready \o RunToken /\ run = NoRun
      BY <1>5, <2>1, <3>3, NothingFlushed
    <3> QED
      BY <1>8, <3>1, <3>2, <3>3
  <2>3. \A i \in 1..Len(sent) : sent[i].kind # "literal"
    BY <1>2, <1>3 DEF CopiesOnly
  <2> QED
    BY <1>1, <2>2, <2>3 DEF CopiesOnly
<1>10. ASSUME ~Repeating
       PROVE  OneRun'
  <2>1. sent = <<>> /\ ready = <<>> /\ run = [start |-> 0, len |-> Here]
    BY <1>2, <1>3, <1>10 DEF OneRun
  <2>2. offset = Here
    <3>1. found = {n + 1}
      BY <1>1, <1>2, <1>4, <1>10, OwnBlock
    <3> HIDE DEF found
    <3>2. Min(found) = n + 1
      <4>1. found \in SUBSET Nat /\ found # {}
        BY <3>1
      <4> QED
        BY <3>1, <4>1, MinIsOne
    <3>3. (n + 1) - 1 = n
      OBVIOUS
    <3> QED
      BY <1>4, <3>2, <3>3
  <2> HIDE DEF offset, found
  <2>3. run' = [start |-> 0, len |-> Here + BlockSize] /\ ready' = <<>>
    <3>1. LiteralToken = <<>>
      BY <1>3 DEF LiteralToken
    <3>2. CASE Here = 0
      <4>1. run = NoRun /\ RunToken = <<>>
        BY <2>1, <3>2 DEF NoRun, RunToken
      <4>2. ~Extends(offset)
        BY <4>1 DEF Extends
      <4> QED
        BY <1>1, <1>5, <2>1, <2>2, <3>1, <3>2, <4>1, <4>2
    <3>3. CASE Here # 0
      <4>1. run # NoRun /\ run.start + run.len = Here
        BY <1>5, <2>1, <3>3 DEF NoRun
      <4>2. Extends(offset)
        BY <2>2, <4>1 DEF Extends
      <4>3. run' = [run EXCEPT !.len = @ + BlockSize] /\ ready' = ready \o LiteralToken
        BY <1>1, <4>2
      <4> QED
        BY <2>1, <3>1, <4>3
    <3> QED
      BY <3>2, <3>3
  <2> QED
    BY <1>1, <1>6, <2>1, <2>3 DEF OneRun
<1>11. Repeating' = Repeating
  BY <1>1 DEF Repeating, Blocks, Block
<1> QED
  BY <1>1, <1>7, <1>9, <1>10, <1>11

LEMMA TwoInARow ==
  ASSUME NEW a, NEW b
  PROVE  Len(<< a >> \o << b >>) = 2 /\ (<< a >> \o << b >>)[1] = a /\ (<< a >> \o << b >>)[2] = b
OBVIOUS

\* What is left over is less than a block, and is the only literal.
LEMMA CFinish == IInv /\ CInv /\ Finish => CInv'
<1> DEFINE tail == Beyond(buffer, pos)
           rest == literal \o tail
           last == IF rest = <<>> THEN <<>> ELSE <<Literal(rest)>>
<1> SUFFICES ASSUME IInv, CInv, Finish, SoFarSame'
             PROVE  literal' = <<>> /\ CopiesOnly' /\ finished' /\ (Repeating' \/ OneRun')
  BY DEF CInv
<1>1. /\ UNCHANGED <<existing, kept, seen, sent>> /\ at = "fill" /\ Ahead < BlockSize
      /\ literal' = <<>> /\ ready' = RunToken \o last /\ finished'
  BY DEF Finish, sourceVars, link
<1>2. SoFarSame /\ ~finished
  BY <1>1 DEF SoFarSame, IInv, Staged
<1>3. literal = <<>> /\ CopiesOnly /\ Aligned /\ (Repeating \/ OneRun)
  BY <1>2 DEF CInv
<1>4. /\ buffer \in Seq(Byte) /\ pos \in Nat /\ Len(buffer) \in Nat /\ Len(seen) \in Nat
      /\ BlockSize \in Nat \ {0} /\ Ahead \in Nat /\ Ahead = Len(buffer) - pos /\ Here = Len(seen) - Ahead
  BY Numbers, Sizes DEF IInv, Typed
<1>5. rest \in Seq(Byte) /\ Len(rest) = Ahead
  <2>1. tail \in Seq(Byte) /\ Len(tail) = Ahead
    BY <1>4 DEF Beyond
  <2> HIDE DEF tail
  <2> QED
    BY <1>3, <2>1
<1>6. Rest = Ahead
  <2>1. PICK n \in Nat : Here = n * BlockSize
    BY <1>3 DEF Aligned
  <2> DEFINE u == Len(seen)
             r == Ahead
  <2>2. u \in Int /\ n \in Int /\ r \in 0..(BlockSize - 1) /\ u = BlockSize * n + r
    BY <1>1, <1>4, <2>1
  <2> HIDE DEF u, r
  <2>3. u % BlockSize = r
    BY <1>4, <2>2, RemainderIsUnique
  <2> QED
    BY <2>3 DEF Rest, u, r
<1> HIDE DEF rest
<1>7. \A i \in 1..Len(ready') :
        /\ ready'[i].kind = "literal" => i = Len(ready') /\ Len(ready'[i].bytes) = Rest
        /\ ready'[i].kind = "copy" => i = 1
  <2> DEFINE token == Copy(run.start, run.len)
             left == Literal(rest)
  <2>1. token.kind = "copy" /\ left.kind = "literal" /\ Len(left.bytes) = Rest
    BY <1>5, <1>6 DEF Copy, Literal
  <2>2. RunToken = <<>> \/ RunToken = <<token>>
    BY DEF RunToken
  <2>3. last = <<>> \/ last = <<left>>
    OBVIOUS
  <2> HIDE DEF token, left, last
  <2>4. CASE RunToken = <<>>
    <3>1. CASE last = <<>>
      BY <1>1, <2>4, <3>1
    <3>2. CASE last = <<left>>
      <4>1. ready' = <<left>>
        BY <1>1, <2>4, <3>2
      <4> QED
        BY <2>1, <4>1
    <3> QED
      BY <2>3, <3>1, <3>2
  <2>5. CASE RunToken = <<token>> /\ last = <<>>
    <3>1. ready' = <<token>>
      BY <1>1, <2>5
    <3> QED
      BY <2>1, <3>1
  <2>6. CASE RunToken = <<token>> /\ last = <<left>>
    <3>1. ready' = <<token>> \o <<left>>
      BY <1>1, <2>6
    <3>2. Len(ready') = 2 /\ ready'[1] = token /\ ready'[2] = left
      BY <3>1, TwoInARow
    <3> QED
      BY <2>1, <3>2
  <2> QED
    BY <2>2, <2>3, <2>4, <2>5, <2>6
<1>8. Rest' = Rest
  BY <1>1 DEF Rest
<1>9. CopiesOnly'
  <2>1. \A i \in 1..Len(sent) : sent[i].kind # "literal"
    BY <1>2, <1>3 DEF CopiesOnly
  <2> QED
    BY <1>1, <1>7, <1>8, <2>1 DEF CopiesOnly
<1>10. ASSUME ~Repeating
       PROVE  OneRun'
  <2>1. sent = <<>>
    BY <1>2, <1>3, <1>10 DEF OneRun
  <2> QED
    BY <1>1, <1>7, <2>1 DEF OneRun
<1>11. Repeating' = Repeating
  BY <1>1 DEF Repeating, Blocks, Block
<1> QED
  BY <1>1, <1>9, <1>10, <1>11

LEMMA CDeliver == IInv /\ BInv /\ CInv /\ Deliver => CInv'
<1> SUFFICES ASSUME IInv, BInv, CInv, Deliver, SoFarSame'
             PROVE  literal' = <<>> /\ CopiesOnly' /\ (~finished' => Aligned') /\ (Repeating' \/ OneRun')
  BY DEF CInv
<1> DEFINE token == Head(ready)
           n == Len(sent)
<1>1. /\ UNCHANGED <<existing, kept, seen, buffer, pos, literal, run, finished>>
      /\ ready # <<>> /\ ready' = Tail(ready) /\ produced' = produced + Length(token)
  BY DEF Deliver, sourceVars
<1>2. SoFarSame
  BY <1>1 DEF SoFarSame
<1>3. literal = <<>> /\ CopiesOnly /\ (~finished => Aligned) /\ (Repeating \/ OneRun)
  BY <1>2 DEF CInv
<1>4. /\ ready \in Seq(Token) /\ sent \in Seq(Token) /\ n \in Nat /\ Len(ready) \in Nat /\ Len(ready) >= 1
      /\ token = ready[1] /\ token \in Token
      /\ Len(Tail(ready)) = Len(ready) - 1 /\ \A i \in 1..(Len(ready) - 1) : Tail(ready)[i] = ready[i + 1]
  BY <1>1 DEF IInv, Typed, BInv, Delivered
<1>5. sent' = Append(sent, token)
  <2>1. Len(kept) = 0
    BY <1>2 DEF SoFarSame
  <2>2. produced \in Nat /\ Length(token) \in Nat /\ Length(token) > 0
    <3>1. Laid(ready, produced, Here - Len(literal) - run.len, seen, existing) /\ seen \in Seq(Byte)
      BY DEF IInv, InARow, Typed
    <3>2. Spells(token, produced, seen, existing)
      BY <1>1, <1>4, <3>1, LaidOneLess
    <3> QED
      BY <1>4, <3>2, TokenLengths DEF Spells, IInv, Typed
  <2>3. ~(produced' <= Len(kept)) /\ ~(Len(kept) - produced > 0)
    BY <1>1, <2>1, <2>2
  <2> QED
    BY <2>3 DEF Deliver
<1>6. Len(sent') = n + 1 /\ sent'[n + 1] = token /\ \A i \in 1..n : sent'[i] = sent[i]
  BY <1>4, <1>5
<1>7. Len(ready') = Len(ready) - 1 /\ \A i \in 1..Len(ready') : ready'[i] = ready[i + 1] /\ i + 1 \in 1..Len(ready)
  BY <1>1, <1>4
<1>8. \A i \in 1..Len(sent') : i = n + 1 \/ i \in 1..n
  BY <1>4, <1>6
<1>9. \A i \in 1..n : sent[i].kind # "literal"
  BY <1>1, <1>3 DEF CopiesOnly
<1>10. Rest' = Rest /\ Repeating' = Repeating
  BY <1>1 DEF Rest, Repeating, Blocks, Block
<1> HIDE DEF n, token
<1>11. CopiesOnly'
  <2>1. ASSUME NEW i \in 1..Len(sent'), sent'[i].kind = "literal"
        PROVE  finished /\ ready' = <<>> /\ i = Len(sent') /\ Len(sent'[i].bytes) = Rest
    <3>1. i = n + 1 /\ sent'[i] = token
      BY <1>6, <1>8, <1>9, <2>1
    <3>2. 1 \in 1..Len(ready) /\ ready[1].kind = "literal"
      BY <1>4, <2>1, <3>1
    <3>3. finished /\ 1 = Len(ready) /\ Len(ready[1].bytes) = Rest
      BY <1>3, <3>2 DEF CopiesOnly
    <3>4. ready' = <<>>
      BY <1>1, <1>4, <3>3
    <3> QED
      BY <1>4, <1>6, <3>1, <3>3, <3>4
  <2>2. ASSUME NEW i \in 1..Len(ready'), ready'[i].kind = "literal"
        PROVE  finished /\ i = Len(ready') /\ Len(ready'[i].bytes) = Rest
    <3>1. ready'[i] = ready[i + 1] /\ i + 1 \in 1..Len(ready)
      BY <1>7
    <3>2. finished /\ i + 1 = Len(ready) /\ Len(ready[i + 1].bytes) = Rest
      BY <1>3, <2>2, <3>1 DEF CopiesOnly
    <3> QED
      BY <1>4, <1>7, <3>1, <3>2
  <2> QED
    BY <1>1, <1>10, <2>1, <2>2 DEF CopiesOnly
<1>12. ASSUME ~Repeating
       PROVE  OneRun'
  <2>1. OneRun /\ finished
    BY <1>1, <1>3, <1>12 DEF OneRun
  <2>2. CASE sent = <<>> /\ \A i \in 1..Len(ready) : ready[i].kind = "copy" => i = 1
    <3>1. \A i \in 1..Len(ready') : ready'[i].kind # "copy"
      <4> TAKE i \in 1..Len(ready')
      <4>1. ready'[i] = ready[i + 1] /\ i + 1 \in 1..Len(ready) /\ i + 1 # 1
        BY <1>4, <1>7
      <4> QED
        BY <2>2, <4>1
    <3>2. \A i \in 1..Len(sent') : i = 1
      BY <1>8, <2>2 DEF n
    <3> QED
      BY <1>1, <2>1, <3>1, <3>2 DEF OneRun
  <2>3. CASE /\ \A i \in 1..Len(ready) : ready[i].kind # "copy"
             /\ \A i \in 1..Len(sent) : sent[i].kind = "copy" => i = 1
    <3>1. \A i \in 1..Len(ready') : ready'[i].kind # "copy"
      BY <1>7, <2>3
    <3>2. \A i \in 1..Len(sent') : sent'[i].kind = "copy" => i = 1
      <4>1. token.kind # "copy"
        BY <1>4, <2>3
      <4>2. \A i \in 1..n : sent[i].kind = "copy" => i = 1
        BY <2>3 DEF n
      <4> QED
        BY <1>6, <1>8, <4>1, <4>2
    <3> QED
      BY <1>1, <2>1, <3>1, <3>2 DEF OneRun
  <2> QED
    BY <2>1, <2>2, <2>3 DEF OneRun
<1>13. ~finished' => Aligned'
  BY <1>1, <1>3 DEF Aligned, Here, Ahead
<1> QED
  BY <1>1, <1>3, <1>10, <1>11, <1>12, <1>13

LEMMA CInductive == IInv /\ BInv /\ CInv /\ [Next]_vars => CInv'
BY CStartStep, CRead, COthers, CFinish, CMatchBlock, CSlide, CDeliver DEF Next

LEMMA CheapImplied == IInv /\ BInv /\ CInv => UnchangedIsCheap
<1> SUFFICES ASSUME IInv, BInv, CInv, Unchanged
             PROVE  /\ \A i \in DOMAIN sent :
                         sent[i].kind = "literal" =>
                           i = Len(sent) /\ Len(sent[i].bytes) = Len(seen) % BlockSize
                    /\ Repeating \/ OneCopy
  BY DEF UnchangedIsCheap
<1>1. /\ existing \in Seq(Byte) /\ sent \in Seq(Token) /\ finished /\ ready = <<>>
      /\ kept = <<>> /\ seen = existing
  BY DEF IInv, Typed, BInv, Delivered, Unchanged
<1>2. SoFarSame /\ DOMAIN sent = 1..Len(sent)
  BY <1>1 DEF SoFarSame
<1>3. CopiesOnly /\ (Repeating \/ OneRun)
  BY <1>2 DEF CInv
<1>4. \A i \in DOMAIN sent :
        sent[i].kind = "literal" => i = Len(sent) /\ Len(sent[i].bytes) = Len(seen) % BlockSize
  BY <1>2, <1>3 DEF CopiesOnly, Rest
<1>5. OneRun => OneCopy
  <2>1. OneRun => \A i \in 1..Len(sent) : sent[i].kind = "copy" => i = 1
    BY DEF OneRun
  <2> QED
    BY <1>2, <2>1 DEF OneCopy
<1> QED
  BY <1>3, <1>4, <1>5

\* An unchanged file costs at most the bytes its signature leaves out at the end, and
\* where no two of its blocks are equal one copy, however the reads fall and whatever the
\* weak checksums collide with: the window never leaves the blocks.
THEOREM DeltaIsCheap == Spec => []UnchangedIsCheap
BY Initially, BInitially, CInitially, Inductive, BInductive, CInductive, CheapImplied, PTL DEF Spec
=============================================================================
