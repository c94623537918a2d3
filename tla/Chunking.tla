------------------------------- MODULE Chunking -------------------------------
(***************************************************************************)
(* miner.ChunkText (internal/miner/chunker.go): the window that is moved   *)
(* over the text of a file. A text is a sequence of letters, blanks and    *)
(* newlines; a piece is the interval of positions a chunk is cut from.     *)
(***************************************************************************)
EXTENDS Integers, Sequences

CONSTANTS
    ChunkSize, ChunkOverlap, MinChunkSize,
    ChunkedTexts    \* the texts there are, trimmed

Characters == {"a", " ", "\n"}

ASSUME ChunkAssumption ==
    /\ ChunkSize \in Nat \ {0} /\ ChunkOverlap \in Nat /\ MinChunkSize \in Nat
    /\ 2 * ChunkOverlap <= ChunkSize
    /\ ChunkedTexts \subseteq Seq(Characters)

VARIABLES
    content,        \* never changes
    start,          \* how many positions are before the window
    end,            \* where the last window ended
    pieces          \* the windows' texts, trimmed
chunkVars == <<content, start, end, pieces>>

Interval == [from : Int, to : Int]
Within(i, c) == c.from <= i /\ i <= c.to
Letter(i) == content[i] = "a"

ChunkTypeOK ==
    /\ content \in Seq(Characters)
    /\ start \in 0..Len(content) /\ end \in start..Len(content)
    /\ pieces \in Seq(Interval)

ChunkInit ==
    /\ content \in ChunkedTexts
    /\ start = 0 /\ end = 0 /\ pieces = <<>>

-----------------------------------------------------------------------------
FullEnd == IF start + ChunkSize < Len(content) THEN start + ChunkSize ELSE Len(content)

\* The newlines, or the first ones of two in a row, in the second half of the
\* window, before which it may be cut.
Breaks(double) ==
    {i \in (start + (ChunkSize \div 2) + 2)..FullEnd :
        /\ content[i] = "\n"
        /\ double => i < FullEnd /\ content[i + 1] = "\n"}

IsLast(i, S) == i \in S /\ \A j \in S : j <= i

\* The window ends before its last paragraph break, or else before its last
\* line break, or else at its full size; the last one ends with the text.
EndsWindow(e) ==
    IF FullEnd = Len(content) \/ (Breaks(TRUE) = {} /\ Breaks(FALSE) = {})
    THEN e = FullEnd
    ELSE IF Breaks(TRUE) # {} THEN IsLast(e + 1, Breaks(TRUE)) ELSE IsLast(e + 1, Breaks(FALSE))

\* c is the window up to e without the blanks on both sides.
IsTrimmed(c, e) ==
    /\ \A i \in (start + 1)..e : Letter(i) => Within(i, c)
    /\ IF \E i \in (start + 1)..e : Letter(i)
       THEN {c.from, c.to} \subseteq (start + 1)..e /\ Letter(c.from) /\ Letter(c.to)
       ELSE c.from = start + 1 /\ c.to = start

\* Mutant: the overlap is skipped, not repeated.
NextStartSkips(e) == IF e + ChunkOverlap < Len(content) THEN e + ChunkOverlap ELSE e

NextStart(e) == IF e < Len(content) THEN e - ChunkOverlap ELSE e

MoreText == start < Len(content)

\* One turn of the loop. Of the pieces, those of MinChunkSize and more become
\* chunks.
CutChunk ==
    /\ MoreText
    /\ \E e \in start..Len(content) :
         /\ EndsWindow(e)
         /\ \E from, to \in start..(e + 1) :
              /\ IsTrimmed([from |-> from, to |-> to], e)
              /\ pieces' = Append(pieces, [from |-> from, to |-> to])
         /\ end' = e /\ start' = NextStart(e)
    /\ UNCHANGED content

Chunks == SelectSeq(pieces, LAMBDA c : c.to - c.from + 1 >= MinChunkSize)

ChunkFairness == WF_chunkVars(CutChunk)
ChunkSpec == ChunkInit /\ [][CutChunk]_chunkVars /\ ChunkFairness

-----------------------------------------------------------------------------
(* Properties. *)

\* Whatever stretch of a text is no longer than the overlap, and is not made of
\* blanks at its ends, is whole in one piece: no hard boundary splits it
\* (chunker.go:12), and nothing is left out between pieces. What is lost is the
\* pieces that are shorter than MinChunkSize.
StretchesAreWhole ==
    \A i, k \in 1..end : i <= k /\ k - i <= ChunkOverlap /\ Letter(i) /\ Letter(k) =>
        \E n \in DOMAIN pieces : Within(i, pieces[n]) /\ Within(k, pieces[n])

\* No chunk is longer than ChunkSize ("the upper bound on a single drawer's
\* document length", chunker.go:9), and none starts before the one before it.
ChunksAreBounded ==
    /\ \A n \in DOMAIN pieces : pieces[n].to - pieces[n].from + 1 <= ChunkSize
    /\ \A m, n \in DOMAIN pieces : m < n => pieces[m].from <= pieces[n].from

\* The loop ends: each turn moves the window on.
ChunkingEnds == <>(start = Len(content))

\* A text is in its pieces: in small ones, in order, with nothing split or skipped
\* (chunker.go:31-66).
TextIsInPieces == ChunkTypeOK /\ StretchesAreWhole /\ ChunksAreBounded
=============================================================================
