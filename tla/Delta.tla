------------------------------- MODULE Delta -------------------------------
(***************************************************************************)
(* A changed file as the difference from what the target has: the blocks   *)
(* the agent describes, the matcher that slides a window over the source,  *)
(* the trimming of what a resumed transfer has already delivered, and the  *)
(* agent that builds the file from the tokens.  One step is a read of the  *)
(* source, a position of the window, or a token sent and taken.            *)
(*                                                                         *)
(* The source is whatever the reads return, in pieces of any length.  A    *)
(* byte is a number, a strong hash is the block it is of; the weak one is  *)
(* computed, modulo a base that is small enough to collide.                *)
(***************************************************************************)
EXTENDS Integers, SequencesExt, FiniteSetsExt

CONSTANTS
  Byte,
  Target,       \* what the target's file may hold
  Kept,         \* what an interrupted attempt may have left
  BlockSize,
  ReadAhead,    \* READ_AHEAD
  LiteralFlush, \* LITERAL_FLUSH
  WeakBase,     \* 2^16 in the code: the halves of the weak checksum wrap there
  MaxLength     \* bound: the length of the source

ASSUME ByteAssumption == Byte \subseteq Nat
ASSUME FilesAssumption == Target \cup Kept \subseteq Seq(Byte)
ASSUME SizesAssumption ==
  {BlockSize, ReadAhead, LiteralFlush, WeakBase} \subseteq Nat \ {0} /\ MaxLength \in Nat

\* Not a variable of the program: "sent".
VARIABLES
  existing,   \* the file the target has, as it was described and as it is
  kept,       \* what is left of an interrupted attempt, trimmed to the resume point
  seen,       \* the source as read so far: what the hash covers
  eof,
  buffer, pos, literal, rolling, run, ready, finished,  \* the matcher's fields
  at,         \* where next_token stands
  produced,   \* where in the source the next token starts
  sent,       \* the tokens that went over the link
  rebuilt     \* the agent's temporary, or Refused

sourceVars == <<existing, kept>>
matcher == <<seen, eof, buffer, pos, literal, rolling, run, ready, finished, at>>
link == <<produced, sent, rebuilt>>
vars == <<sourceVars, matcher, link>>

NoRun == [start |-> 0, len |-> 0]
NoSum == [a |-> -1, b |-> -1]
Refused == <<-1>>

Literal(bytes) == [kind |-> "literal", bytes |-> bytes]
Copy(offset, len) == [kind |-> "copy", offset |-> offset, len |-> len]

Prefix(seq, n) == SubSeq(seq, 1, n)
Beyond(seq, n) == SubSeq(seq, n + 1, Len(seq))

-----------------------------------------------------------------------------
(* The weak checksum *)

\* Rolling::new: the sum of the window, and the sum weighted by the distance to its end.
Sums(window) ==
  LET upTo[i \in 0..Len(window)] ==
        IF i = 0 THEN [a |-> 0, b |-> 0]
        ELSE [a |-> upTo[i - 1].a + window[i],
              b |-> upTo[i - 1].b + (Len(window) - i + 1) * window[i]]
  IN upTo
Sum(window) ==
  [a |-> Sums(window)[Len(window)].a % WeakBase, b |-> Sums(window)[Len(window)].b % WeakBase]

\* Variant: the second half takes in the first as it was before.
RollStale(sum, out, inbound) ==
  [a |-> (sum.a - out + inbound) % WeakBase, b |-> (sum.b - BlockSize * out + sum.a) % WeakBase]

\* Rolling::roll, one byte on.
Roll(sum, out, inbound) ==
  LET a == (sum.a - out + inbound) % WeakBase
  IN [a |-> a, b |-> (sum.b - BlockSize * out + a) % WeakBase]

-----------------------------------------------------------------------------
(* The agent's description *)

\* signature_of: the whole blocks; a shorter one at the end is not described.
Blocks == Len(existing) \div BlockSize
Block(i) == SubSeq(existing, (i - 1) * BlockSize + 1, i * BlockSize)

\* match_at: those of equal weak checksum whose strong hash is equal too.
Matches(window, sum) == {i \in 1..Blocks : Sum(Block(i)) = sum /\ Block(i) = window}

-----------------------------------------------------------------------------
(* The matcher *)

Window == SubSeq(buffer, pos + 1, pos + BlockSize)
Ahead == Len(buffer) - pos

\* What goes into the queue of ready tokens when the run, or the literal, is flushed.
RunToken == IF run = NoRun THEN <<>> ELSE <<Copy(run.start, run.len)>>
LiteralToken == IF literal = <<>> THEN <<>> ELSE <<Literal(literal)>>

\* next_token has none ready and takes a step: fill first drops what the window has
\* passed.
StartStep ==
  /\ at = "next" /\ ready = <<>> /\ ~finished
  /\ at' = "fill"
  /\ IF pos > ReadAhead THEN buffer' = Beyond(buffer, pos) /\ pos' = 0 ELSE UNCHANGED <<buffer, pos>>
  /\ UNCHANGED <<sourceVars, seen, eof, literal, rolling, run, ready, finished, link>>

Wanting == ~eof /\ Ahead < BlockSize + ReadAhead

\* A read returns some bytes, not as many as there is room for.
Read ==
  /\ at = "fill" /\ Wanting
  /\ \E n \in 1..ReadAhead : \E bytes \in [1..n -> Byte] :
       /\ Len(seen) + n <= MaxLength
       /\ seen' = seen \o bytes /\ buffer' = buffer \o bytes
  /\ UNCHANGED <<sourceVars, eof, pos, literal, rolling, run, ready, finished, at, link>>

ReadEof ==
  /\ at = "fill" /\ Wanting
  /\ eof' = TRUE
  /\ UNCHANGED <<sourceVars, seen, buffer, pos, literal, rolling, run, ready, finished, at, link>>

\* Less than a block is left, which matches nothing.  At most one of the two flushes
\* before the tail is taken has anything to flush.
Finish ==
  /\ at = "fill" /\ ~Wanting /\ Ahead < BlockSize
  /\ LET tail == Beyond(buffer, pos)
         rest == literal \o tail
     IN ready' = RunToken \o (IF rest = <<>> THEN <<>> ELSE <<Literal(rest)>>)
  /\ literal' = <<>> /\ run' = NoRun /\ pos' = Len(buffer)
  /\ finished' = TRUE /\ at' = "next"
  /\ UNCHANGED <<sourceVars, seen, eof, buffer, rolling, link>>

\* The checksum is carried over from a step that was broken off, or computed.
StartScan ==
  /\ at = "fill" /\ ~Wanting /\ Ahead >= BlockSize
  /\ rolling' = IF rolling = NoSum THEN Sum(Window) ELSE rolling
  /\ at' = "scan"
  /\ UNCHANGED <<sourceVars, seen, eof, buffer, pos, literal, run, ready, finished, link>>

\* Variant: every match is a copy of its own.
ExtendsNever(offset) == FALSE
\* extend_run: by the block that follows it in the target.
Extends(offset) == run # NoRun /\ run.start + run.len = offset

\* The window is a block of the target, the first of those equal to it.
MatchBlock ==
  /\ at = "scan" /\ Matches(Window, rolling) # {}
  /\ LET offset == (Min(Matches(Window, rolling)) - 1) * BlockSize
     IN IF Extends(offset)
        THEN run' = [run EXCEPT !.len = @ + BlockSize] /\ ready' = ready \o LiteralToken
        ELSE run' = [start |-> offset, len |-> BlockSize] /\ ready' = ready \o LiteralToken \o RunToken
  /\ literal' = <<>> /\ pos' = pos + BlockSize /\ rolling' = NoSum /\ at' = "next"
  /\ UNCHANGED <<sourceVars, seen, eof, buffer, finished, link>>

\* It is none: its first byte is sent as it is, and the window moves on by one, to
\* be filled again where it runs out and to be flushed where enough has come together.
Slide ==
  /\ at = "scan" /\ Matches(Window, rolling) = {}
  /\ pos' = pos + 1
  /\ run' = IF literal = <<>> THEN NoRun ELSE run
  /\ LET flushed == ready \o (IF literal = <<>> THEN RunToken ELSE <<>>)
         bytes == Append(literal, buffer[pos + 1])
     IN \/ /\ Ahead = BlockSize
           /\ rolling' = NoSum /\ at' = "next"
           /\ literal' = bytes /\ ready' = flushed
        \/ /\ Ahead > BlockSize
           /\ rolling' = Roll(rolling, buffer[pos + 1], buffer[pos + BlockSize + 1])
           /\ IF Len(bytes) >= LiteralFlush
              THEN literal' = <<>> /\ ready' = flushed \o <<Literal(bytes)>> /\ at' = "next"
              ELSE literal' = bytes /\ ready' = flushed /\ at' = at
  /\ UNCHANGED <<sourceVars, seen, eof, buffer, finished, link>>

-----------------------------------------------------------------------------
(* send_patch, and the agent *)

Length(token) == IF token.kind = "copy" THEN token.len ELSE Len(token.bytes)

\* Variant: a copy is trimmed in its length and begins where it did.
TrimmedAtEnd(token, skip) ==
  IF token.kind = "copy" THEN Copy(token.offset, token.len - skip) ELSE Literal(Beyond(token.bytes, skip))

\* What of a token lies beyond the resume point.
Trimmed(token, skip) ==
  IF token.kind = "copy"
  THEN Copy(token.offset + skip, token.len - skip)
  ELSE Literal(Beyond(token.bytes, skip))

\* receive_patch: a copy past the end of what is there is refused.
Taken(token) ==
  CASE token.kind = "literal" -> rebuilt \o token.bytes
    [] token.kind = "copy" /\ token.offset + token.len <= Len(existing) ->
         rebuilt \o SubSeq(existing, token.offset + 1, token.offset + token.len)
    [] OTHER -> Refused

\* Wholly behind the resume point a token is dropped, and trimmed where it straddles it.
Deliver ==
  /\ at = "next" /\ ready # <<>>
  /\ ready' = Tail(ready)
  /\ produced' = produced + Length(Head(ready))
  /\ IF produced' <= Len(kept)
     THEN UNCHANGED <<sent, rebuilt>>
     ELSE LET behind == Len(kept) - produced
              token == IF behind > 0 THEN Trimmed(Head(ready), behind) ELSE Head(ready)
          IN sent' = Append(sent, token) /\ rebuilt' = Taken(token)
  /\ UNCHANGED <<sourceVars, seen, eof, buffer, pos, literal, rolling, run, finished, at>>

Init ==
  /\ existing \in Target
  /\ kept \in Kept
  /\ seen = <<>> /\ eof = FALSE
  /\ buffer = <<>> /\ pos = 0 /\ literal = <<>> /\ rolling = NoSum /\ run = NoRun
  /\ ready = <<>> /\ finished = FALSE /\ at = "next"
  /\ produced = 0 /\ sent = <<>> /\ rebuilt = kept

Next ==
  \/ StartStep \/ Read \/ ReadEof \/ StartScan \/ MatchBlock \/ Slide \/ Finish
  \/ Deliver

Spec == Init /\ [][Next]_vars

-----------------------------------------------------------------------------
(* Properties *)

\* Memory is bounded by the constants and not by the file: the window and twice what is
\* read ahead of it, what it has passed, and a literal.
Bounded ==
  /\ Len(buffer) < BlockSize + 3 * ReadAhead
  /\ \A token \in Range(ready) : token.kind = "literal" => Len(token.bytes) <= LiteralFlush + BlockSize
  /\ Len(ready) <= 2

\* Every variable keeps its type; the buffer and what is gathered in it are what was read
\* last and not yet produced; a checksum carried along is the window's; and the
\* buffers stay within their bounds.
TypeOK ==
  /\ {existing, kept, seen, buffer, literal} \subseteq Seq(Byte) /\ pos \in 0..Len(buffer)
  /\ eof \in BOOLEAN /\ finished \in BOOLEAN /\ at \in {"next", "fill", "scan"}
  /\ produced \in 0..Len(seen)
  /\ \A token \in Range(sent) \cup Range(ready) : Length(token) > 0
  /\ IsSuffix(literal \o Beyond(buffer, pos), seen)
  /\ rolling # NoSum => rolling = Sum(Window)
  /\ Bounded

\* The agent's file is what was kept and then, byte for byte, what the client has read
\* beyond it, however reads fall, blocks repeat, checksums collide and wherever the
\* interrupted attempt had stopped; no copy reaches past the target's file.  In
\* the end that is the whole source, so that hashes differ only if the source does.
Rebuilds ==
  /\ rebuilt = kept \o SubSeq(seen, Len(kept) + 1, produced)
  /\ finished /\ ready = <<>> => produced = Len(seen)

Unchanged == finished /\ ready = <<>> /\ kept = <<>> /\ seen = existing
Repeating == \E i, j \in 1..Blocks : i # j /\ Block(i) = Block(j)
OneCopy ==
  \A i, j \in DOMAIN sent : sent[i].kind = "copy" /\ sent[j].kind = "copy" => i = j

\* A file that has not changed costs no more than what its signature leaves out at the
\* end, as the last token; and as long as no two of its blocks are equal, one copy.
UnchangedIsCheap ==
  Unchanged =>
    /\ \A i \in DOMAIN sent :
         sent[i].kind = "literal" =>
           i = Len(sent) /\ Len(sent[i].bytes) = Len(seen) % BlockSize
    /\ Repeating \/ OneCopy

\* As documented, an unchanged region is one copy whatever it holds.
UnchangedIsOneCopy == Unchanged => OneCopy
=============================================================================
