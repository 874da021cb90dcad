------------------------------- MODULE Chunking -------------------------------
(***************************************************************************)
(* chunk_text of app/services/chunking.py: how a text is split into the    *)
(* overlapping chunks that become the points of a resume or a transcript.  *)
(*                                                                         *)
(* Only positions matter: a text is its number of words, a chunk the       *)
(* half-open interval of the positions it holds.  One step is one pass of  *)
(* the loop.                                                               *)
(***************************************************************************)
EXTENDS Integers, Sequences

CONSTANTS
  Lengths,   \* numbers of words of a text
  Sizes,     \* values of chunk_size
  Overlaps   \* values of overlap; nothing refuses a negative one

ASSUME InputsAssumption == Lengths \subseteq Nat /\ Sizes \subseteq Nat /\ Overlaps \subseteq Int

VARIABLES
  len,      \* len(words)
  size,     \* chunk_size
  overlap,  \* overlap
  stage,    \* where the call is
  start,    \* the loop variable
  chunks    \* the chunks so far

arguments == <<len, size, overlap>>
chunkVars == <<arguments, stage, start, chunks>>

Chunk == [first : Nat, last : Nat]

ChunkTypeOK ==
  /\ len \in Nat /\ size \in Nat /\ overlap \in Int
  /\ stage \in {"called", "looping", "returned", "rejected"}
  /\ start \in Nat
  /\ chunks \in Seq(Chunk)

ChunkInit ==
  /\ len \in Lengths /\ size \in Sizes /\ overlap \in Overlaps
  /\ stage = "called"
  /\ start = 0
  /\ chunks = <<>>

step == size - overlap

Minimum(a, b) == IF a <= b THEN a ELSE b

\* words[start : start + chunk_size]
Slice == [first |-> start, last |-> Minimum(start + size, len)]

\* ValueError: the window would never advance.
Reject ==
  /\ stage = "called"
  /\ overlap >= size
  /\ stage' = "rejected"
  /\ UNCHANGED <<arguments, start, chunks>>

\* No words: the empty list.
Begin ==
  /\ stage = "called"
  /\ overlap < size
  /\ stage' = IF len = 0 THEN "returned" ELSE "looping"
  /\ UNCHANGED <<arguments, start, chunks>>

\* Faulty variant: the window advances by the whole chunk.
TakeDisjoint ==
  /\ stage = "looping" /\ start < len
  /\ chunks' = Append(chunks, Slice)
  /\ stage' = IF start + size >= len THEN "returned" ELSE "looping"
  /\ start' = IF start + size >= len THEN start ELSE start + size
  /\ UNCHANGED arguments

\* Faulty variant: the loop only ends with its range.
TakeToTheEnd ==
  /\ stage = "looping" /\ start < len
  /\ chunks' = Append(chunks, Slice)
  /\ start' = start + step
  /\ UNCHANGED <<arguments, stage>>

\* Faulty variant: the step has the wrong sign.
TakeBackwards ==
  /\ stage = "looping" /\ start < len
  /\ chunks' = Append(chunks, Slice)
  /\ stage' = IF start + size >= len THEN "returned" ELSE "looping"
  /\ start' = IF start + size >= len THEN start ELSE start - step
  /\ UNCHANGED arguments

\* A pass that takes a chunk, and breaks if it reaches the end of the text.
Take ==
  /\ stage = "looping" /\ start < len /\ Slice.first < Slice.last
  /\ chunks' = Append(chunks, Slice)
  /\ IF start + size >= len
     THEN stage' = "returned" /\ UNCHANGED start
     ELSE start' = start + step /\ UNCHANGED stage
  /\ UNCHANGED arguments

\* An empty slice, or the range is used up.
Stop ==
  /\ stage = "looping"
  /\ start >= len \/ Slice.first >= Slice.last
  /\ stage' = "returned"
  /\ UNCHANGED <<arguments, start, chunks>>

ChunkNext == Reject \/ Begin \/ Take \/ Stop

ChunkSpec == ChunkInit /\ [][ChunkNext]_chunkVars

(***************************************************************************)
(* Properties.                                                             *)
(***************************************************************************)
Last == chunks[Len(chunks)]

\* The chunks taken so far hold every phrase of up to overlap + 1 words that
\* ends within them: no such phrase is cut by a boundary, and no word is lost.
Intact(from, upto) ==
  \E i \in 1 .. Len(chunks) : chunks[i].first <= from /\ upto <= chunks[i].last
PhrasesIntactUpTo(end) ==
  \A from, upto \in 0 .. end :
    from < upto /\ upto <= from + overlap + 1 => Intact(from, upto)

\* A phrase short enough to fit the overlap is retrievable: when the call has
\* returned, some chunk holds it whole.  A negative overlap is the exception.
PhrasesIntact == stage = "returned" /\ overlap >= 0 => PhrasesIntactUpTo(len)

\* Consecutive chunks share exactly `overlap` words and all but the last are
\* full.
Windows ==
  \A i \in 1 .. Len(chunks) - 1 :
    /\ chunks[i].last = chunks[i].first + size
    /\ chunks[i + 1].first = chunks[i].first + size - overlap

\* So chunk_index says where in the text a point comes from.
IndexLocates == \A i \in 1 .. Len(chunks) : chunks[i].first = (i - 1) * step

\* A text is never cut into more chunks than it has words, whatever the window.
ChunksBounded == Len(chunks) <= len

\* The break avoids a last chunk that only repeats words of the one before it.
NoRedundantChunk ==
  overlap >= 0 =>
    \A i \in 1 .. Len(chunks) - 1 : chunks[i + 1].last > chunks[i].last
=============================================================================
