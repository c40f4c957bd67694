----------------------------- MODULE ArrayChunk -----------------------------
(***************************************************************************)
(* An uncompressed chunk (chunk.c): an array of samples that every         *)
(* operation has to keep sorted, with a copy of its first timestamp.       *)
(*                                                                         *)
(* samples are the first num_samples cells; what the cells behind them     *)
(* hold is never defined.  size is the number of cells.                    *)
(***************************************************************************)
EXTENDS Samples, Sequences, SequencesExt

CONSTANTS
  SHORT,   \* the number of values of a short (2^16)
  Junk     \* the samples an undefined cell may hold

ASSUME ShortAssumption == SHORT \in Nat /\ SHORT % 2 = 0

NewUncompressed(size) == [base_timestamp |-> 0, size |-> size, samples |-> <<>>]

IsChunkFull(c) == Len(c.samples) = c.size

Uncompressed_AddSample(c, s) ==
  IF IsChunkFull(c) THEN [ok |-> FALSE, chunk |-> c]
  ELSE [ok |-> TRUE,
        chunk |-> [c EXCEPT !.base_timestamp = IF c.samples = <<>> THEN s.timestamp ELSE @,
                            !.samples = Append(@, s)]]

\* The two chunks SplitChunk makes of c: c itself shortened, and a new one.
Uncompressed_SplitChunk(c) ==
  LET n     == Len(c.samples)
      split == n \div 2
      keep  == n - split
      add(chunk, s) == Uncompressed_AddSample(chunk, s).chunk
  IN <<[c EXCEPT !.size = keep, !.samples = SubSeq(@, 1, keep)],
       FoldLeft(add, NewUncompressed(split), SubSeq(c.samples, keep + 1, n))>>

\* The number of samples in a short, compared with a size_t: a negative short
\* becomes larger than any index.
SearchBound(n) ==
  LET short == IF n % SHORT < SHORT \div 2 THEN n % SHORT ELSE (n % SHORT) - SHORT
  IN IF short < 0 THEN n + 1 ELSE short

\* The index of the first sample at or after ts that the search meets, or where
\* it gives up.
Place(samples, ts) ==
  LET found == {i \in 0 .. SearchBound(Len(samples)) - 1 :
                  i < Len(samples) /\ ts <= samples[i + 1].timestamp}
  IN IF found = {} THEN SearchBound(Len(samples)) ELSE Min(found)

\* upsertChunk at an index of the array: make room and move the rest up.
upsertChunk(c, idx, s) ==
  [c EXCEPT !.size = IF IsChunkFull(c) THEN @ + 1 ELSE @,
            !.samples = InsertAt(@, idx + 1, s)]

\* The chunks an upsert may leave; the duplicate policy decides what is stored
\* when the timestamp is taken.  A search that leaves the array (SearchBound) reads
\* cells that hold anything: it ends right behind the samples or further on,
\* and then an undefined cell is counted in place of the new sample.
Uncompressed_UpsertSample(c, s, policy) ==
  LET i == Place(c.samples, s.timestamp)
      n == Len(c.samples)
      based == [c EXCEPT !.base_timestamp = IF i = 0 THEN s.timestamp ELSE @]
  IN IF i < n /\ i < SearchBound(n) /\ c.samples[i + 1].timestamp = s.timestamp
     THEN {[c EXCEPT !.samples[i + 1].value = HandleDuplicateSample(policy, @, s.value)]}
     ELSE IF i <= n THEN {upsertChunk(based, i, s)}
     ELSE {upsertChunk(based, n, x) : x \in Junk \cup {s}}

\* The chunks a deletion may leave: when no sample is left, base_timestamp is
\* read from an undefined cell.
Uncompressed_DelRange(c, start, end) ==
  LET outside(s) == ~(start <= s.timestamp /\ s.timestamp <= end)
      left == SelectSeq(c.samples, outside)
  IN {[c EXCEPT !.samples = left, !.base_timestamp = b] :
        b \in IF left = <<>> THEN {0} \cup {x.timestamp : x \in Junk} ELSE {left[1].timestamp}}

\* The samples with a timestamp from start to end, oldest first.
Uncompressed_ProcessChunk(c, start, end) ==
  LET s     == c.samples
      n     == Len(s)
      from  == {i \in 1 .. n : s[i].timestamp >= start}
      past  == {i \in 1 .. n : i >= Min(from) /\ s[i].timestamp > end}
  IN IF \/ n = 0 \/ end < start \/ c.base_timestamp > end \/ s[n].timestamp < start
        \/ from = {}
     THEN <<>>
     ELSE SubSeq(s, Min(from), IF past = {} THEN n ELSE Min(past) - 1)

Uncompressed_Serialize(c) == <<c.base_timestamp, Len(c.samples), c.size, c.samples>>
Uncompressed_Deserialize(r) ==
  [base_timestamp |-> r[1], size |-> r[3], samples |-> SubSeq(r[4], 1, r[2])]
=============================================================================
