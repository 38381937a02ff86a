------------------------------- MODULE Chunker -------------------------------
(***************************************************************************)
(* ChunkDocumentWithPolicy of src/internal/indexing/chunker.go: a document *)
(* is cut into chunks of consecutive lines, bounded in lines and in        *)
(* characters, each chunk starting some lines before the end of the one    *)
(* before it.  One action takes a line into the current chunk, one cuts    *)
(* the chunk and finds where the next one starts.                          *)
(***************************************************************************)
EXTENDS Integers, Sequences

CONSTANTS
  Documents,        \* documents, as sequences of lines
  Policies,         \* chunk policies, as the caller gives them
  DefaultMaxChars,
  DefaultMaxLines

\* A line: its length with its newline, and whether it is only white space.
Line   == [len : Nat \ {0}, blank : BOOLEAN]
Policy == [maxChars : Int, maxLines : Int, overlapLines : Int]

ASSUME ChunkerAssumption ==
  /\ Documents \subseteq Seq(Line)
  /\ Policies \subseteq Policy
  /\ DefaultMaxChars \in Nat \ {0}
  /\ DefaultMaxLines \in Nat \ {0}

VARIABLES
  lines,    \* the document
  policy,   \* the policy with its defaults
  pc,       \* "take", "cut" or "done"
  start,    \* lines before the current chunk
  end,      \* lines up to the end of the current chunk
  chars,    \* charCount
  chunks    \* the chunks: lines from + 1 .. to of the document

vars == <<lines, policy, pc, start, end, chars, chunks>>

-----------------------------------------------------------------------------
\* Mutant: the overlap is not kept below the lines of a chunk.
WithDefaultsUncapped(p) ==
  [maxChars     |-> IF p.maxChars <= 0 THEN DefaultMaxChars ELSE p.maxChars,
   maxLines     |-> IF p.maxLines <= 0 THEN DefaultMaxLines ELSE p.maxLines,
   overlapLines |-> IF p.overlapLines < 0 THEN 0 ELSE p.overlapLines]

\* ChunkPolicy.withDefaults.
WithDefaults(p) ==
  LET maxLines == IF p.maxLines <= 0 THEN DefaultMaxLines ELSE p.maxLines
      overlap  == IF p.overlapLines < 0 THEN 0
                  ELSE IF p.overlapLines >= maxLines THEN maxLines - 1
                  ELSE p.overlapLines
  IN [maxChars |-> IF p.maxChars <= 0 THEN DefaultMaxChars ELSE p.maxChars,
      maxLines |-> maxLines, overlapLines |-> overlap]

BlankSpan(from, to) == \A k \in from + 1 .. to : lines[k].blank

\* Mutant: only the lines are counted.
OverflowsByLines(size, count) == end > start /\ count > policy.maxLines

\* The next line does not fit; the first line of a chunk always does.
Overflows(size, count) ==
  end > start /\ (size > policy.maxChars \/ count > policy.maxLines)

Full(size, count) == size >= policy.maxChars \/ count >= policy.maxLines

\* The inner loop, one line.
TakeLine ==
  LET size  == chars + lines[end + 1].len
      count == end - start + 1
  IN /\ pc = "take" /\ end < Len(lines)
     /\ IF Overflows(size, count)
        THEN pc' = "cut" /\ UNCHANGED <<end, chars>>
        ELSE /\ chars' = size
             /\ end' = end + 1
             /\ pc' = IF Full(size, count) \/ end + 1 = Len(lines) THEN "cut" ELSE "take"
     /\ UNCHANGED <<lines, policy, start, chunks>>

\* Mutant: the overlap is taken as it is.
NextStartUnchecked(e) == e - policy.overlapLines

\* Mutant: starting again at the same line passes for progress.
NextStartAgain(e) == IF e - policy.overlapLines < start THEN e ELSE e - policy.overlapLines

\* Mutant: one line is skipped.
NextStartSkips(e) ==
  IF e - policy.overlapLines <= start THEN e + 1 ELSE e - policy.overlapLines

\* Back by the overlap, unless that is no progress.
NextStart(e) == IF e - policy.overlapLines <= start THEN e ELSE e - policy.overlapLines

AtEnd(e) == e >= Len(lines)

\* The outer loop after the inner one, and its condition.
CutChunk ==
  LET e == IF end = start THEN start + 1 ELSE end IN
  /\ pc = "cut"
  /\ chunks' = IF BlankSpan(start, e) THEN chunks
               ELSE Append(chunks, [from |-> start, to |-> e])
  /\ IF AtEnd(e)
     THEN pc' = "done" /\ UNCHANGED <<start, end, chars>>
     ELSE /\ pc' = IF NextStart(e) < Len(lines) THEN "take" ELSE "done"
          /\ start' = NextStart(e)
          /\ end' = NextStart(e)
          /\ chars' = 0
  /\ UNCHANGED <<lines, policy>>

-----------------------------------------------------------------------------
\* Blank content has no chunks.
Init ==
  /\ lines \in Documents
  /\ policy \in {WithDefaults(p) : p \in Policies}
  /\ pc = IF BlankSpan(0, Len(lines)) THEN "done" ELSE "take"
  /\ start = 0 /\ end = 0 /\ chars = 0
  /\ chunks = <<>>

Next == TakeLine \/ CutChunk

Spec == Init /\ [][Next]_vars

\* The function runs to its end.
FairSpec == Spec /\ WF_vars(Next)

-----------------------------------------------------------------------------
Chunk == [from : Nat, to : Nat]

(* Every variable has its type; the cursors stay within the document and   *)
(* the overlap is smaller than a chunk may be long.                        *)
TypeOK ==
  /\ lines \in Seq(Line)
  /\ policy \in Policy
  /\ policy.maxLines > 0 /\ policy.maxChars > 0
  /\ policy.overlapLines \in 0 .. policy.maxLines - 1
  /\ pc \in {"take", "cut", "done"}
  /\ start \in 0 .. Len(lines)
  /\ end \in start .. Len(lines)
  /\ chars \in Nat
  /\ chunks \in Seq(Chunk)

InChunk(k) == \E i \in DOMAIN chunks : chunks[i].from < k /\ k <= chunks[i].to

(* No text is lost: in the end every line that is not blank is in a chunk, *)
(* wherever the limits cut and however far the overlap goes back.          *)
Coverage ==
  pc = "done" => \A k \in 1 .. Len(lines) : lines[k].blank \/ InChunk(k)

\* The characters of the lines from + 1 .. to.
Chars(from, to) ==
  LET sum[n \in 0 .. Len(lines)] == IF n = 0 THEN 0 ELSE sum[n - 1] + lines[n].len
  IN sum[to] - sum[from]

(* A chunk respects both limits of the policy; only a single line may be   *)
(* longer than the limit on characters.                                    *)
SizeBound ==
  \A i \in DOMAIN chunks :
    LET c == chunks[i] IN
    /\ c.to - c.from <= policy.maxLines
    /\ Chars(c.from, c.to) <= policy.maxChars \/ c.to = c.from + 1

(* Every cut moves on: the next chunk starts after the start of this one,  *)
(* and not after its end.                                                  *)
CutAdvances ==
  [][pc = "cut" /\ pc' = "take" => start < start' /\ start' <= end]_vars

(* The chunker ends for every document and policy.                         *)
Termination == <>(pc = "done")

=============================================================================
