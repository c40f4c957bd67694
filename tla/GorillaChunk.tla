---------------------------- MODULE GorillaChunk ----------------------------
(***************************************************************************)
(* A compressed chunk, bit by bit (gorilla.c, compressed_chunk.c).         *)
(*                                                                         *)
(* The first sample is kept as it is; every later one is a run of bits in  *)
(* an array of words: the difference of two timestamp differences in the   *)
(* smallest of six widths, then the XOR with the previous value, cut down  *)
(* to a window of the word that is either written out or reused.  The      *)
(* writer and the reader each keep the previous timestamp, difference,     *)
(* value and window, and stay in step only if every append, also one that  *)
(* fails for lack of space and is rolled back, changes exactly what the    *)
(* reader will see.                                                        *)
(*                                                                         *)
(* The widths are constants so that TLC can use short words.  A value is   *)
(* its bit pattern; differences wrap around as uint64_t does.              *)
(***************************************************************************)
EXTENDS Samples, Sequences, SequencesExt, Bitwise

CONSTANTS
  BINW,               \* the bits of a word and of a value (64)
  BYTE,               \* the bits of a byte (8); a word has BINW / BYTE of them
  CMPR,               \* the widths CMPR_L1 .. CMPR_L5 (5, 8, 11, 15, 32)
  DOUBLE_LEADING,     \* the bits that count leading zeros (5)
  DOUBLE_BLOCK_SIZE,  \* the bits that hold a block's size less one (6)
  CHUNK_RESIZE_STEP   \* the bytes a chunk grows by while it is rewritten (32)

ASSUME WidthAssumption ==
  /\ BINW \in Nat /\ BYTE \in Nat \ {0} /\ BINW % BYTE = 0
  /\ 2 ^ DOUBLE_BLOCK_SIZE = BINW /\ 2 ^ (DOUBLE_LEADING + 1) = BINW
  /\ \A i \in 1 .. Len(CMPR) : CMPR[i] < BINW
  /\ CHUNK_RESIZE_STEP % (BINW \div BYTE) = 0

BinSize == BINW \div BYTE

LSB(x, bits) == x % 2 ^ bits
ShiftLeft(x, n) == (x * 2 ^ n) % 2 ^ BINW
ShiftRight(x, n) == x \div 2 ^ n
LeadingZeros(x) == BINW - Min({n \in 1 .. BINW : x < 2 ^ n})
TrailingZeros(x) == Max({n \in 0 .. BINW - 1 : x % 2 ^ n = 0})

\* Two's complement in l bits, and back.
int2bin(x, l) == LSB(x, l)
bin2int(bin, l) == IF bin < 2 ^ (l - 1) THEN bin ELSE bin - 2 ^ l
Bin_InRange(x, nbits) == -(2 ^ (nbits - 1)) <= x /\ x <= 2 ^ (nbits - 1) - 1

----------------------------------------------------------------------------
\* n words of zeros (a tuple rather than a function expression, for TLC).
Zeros(n) == <<>> \o [i \in 1 .. n |-> 0]

NewCompressed(size) ==
  [size |-> size, count |-> 0, idx |-> 0,
   baseValue |-> 0, baseTimestamp |-> 0,
   data |-> Zeros(size \div BinSize),
   prevTimestamp |-> 0, prevTimestampDelta |-> 0, prevValue |-> 0,
   prevLeading |-> BINW \div 2, prevTrailing |-> BINW \div 2]

isSpaceAvailable(c, bits) == bits <= c.size * BYTE - c.idx

\* Write len bits behind the ones already there, in one word or across two.
appendBits(c, bits, len) ==
  LET bin       == c.idx \div BINW + 1
      lbit      == c.idx % BINW
      available == BINW - lbit
  IN [c EXCEPT !.idx  = @ + len,
               !.data = IF available >= len
                        THEN [@ EXCEPT ![bin] = @ | ShiftLeft(LSB(bits, len), lbit)]
                        ELSE [@ EXCEPT ![bin] = @ | ShiftLeft(bits, lbit),
                                       ![bin + 1] = @ | LSB(ShiftRight(bits, available), lbit)]]

\* The result of an append: the chunk as it is left, and whether it succeeded.
Ok(c)  == [ok |-> TRUE, chunk |-> c]
Err(c) == [ok |-> FALSE, chunk |-> c]

\* The narrowest width that holds the difference of differences dd; one more
\* than there are widths when it takes a whole word.
Level(dd) ==
  Min({i \in 1 .. Len(CMPR) : Bin_InRange(dd, CMPR[i])} \cup {Len(CMPR) + 1})

\* The announcement of a width and dd in it, behind the bits of c; prev is c with
\* the timestamp noted.  One bit is kept free for the value.
appendLevel(c, prev, dd, level) ==
  LET wide   == level > Len(CMPR)
      prefix == IF wide THEN level ELSE level + 1
      width  == IF wide THEN BINW ELSE CMPR[level]
  IN IF isSpaceAvailable(c, prefix + width + 1)
     THEN Ok(appendBits(appendBits(prev, 2 ^ level - 1, prefix), int2bin(dd, width), width))
     ELSE Err(c)

\* The timestamp: a 0 when the difference is that of the previous sample, else
\* as many ones as the width's place in CMPR (one more for a whole word), a
\* zero behind them, and the difference of differences.
appendInteger(c, timestamp) ==
  LET curDelta == (timestamp - c.prevTimestamp) % 2 ^ BINW
      dd       == bin2int((curDelta - c.prevTimestampDelta) % 2 ^ BINW, BINW)
      prev     == [c EXCEPT !.prevTimestampDelta = curDelta, !.prevTimestamp = timestamp]
  IN IF dd = 0
     THEN IF isSpaceAvailable(c, 1 + 1) THEN Ok(appendBits(prev, 0, 1)) ELSE Err(c)
     ELSE appendLevel(c, prev, dd, Level(dd))

\* A value that differs, behind the 1 of marked: its bits in the window of the
\* previous one (0), or in one of its own (1).
appendXor(marked, value, xor, leading, trailing) ==
  LET blockSize == BINW - leading - trailing
      expected  == DOUBLE_LEADING + DOUBLE_BLOCK_SIZE + blockSize
      prevBlock == BINW - marked.prevLeading - marked.prevTrailing
      window    == appendBits(appendBits(appendBits(marked, 1, 1), leading, DOUBLE_LEADING),
                              blockSize - 1, DOUBLE_BLOCK_SIZE)
  IN IF leading >= marked.prevLeading /\ trailing >= marked.prevTrailing /\ expected > prevBlock
     THEN IF ~isSpaceAvailable(marked, prevBlock + 1) THEN Err(marked)
          ELSE Ok([appendBits(appendBits(marked, 0, 1), ShiftRight(xor, marked.prevTrailing), prevBlock)
                     EXCEPT !.prevValue = value])
     ELSE IF ~isSpaceAvailable(marked, expected + 1) THEN Err(marked)
          ELSE Ok([appendBits(window, ShiftRight(xor, trailing), blockSize)
                     EXCEPT !.prevLeading = leading, !.prevTrailing = trailing, !.prevValue = value])

\* The value: a 0 when it is the previous one, else a 1 and the bits in which
\* they differ.
appendFloat(c, value) ==
  LET xor == value ^^ c.prevValue
  IN IF xor = 0 THEN Ok(appendBits(c, 0, 1))
     ELSE appendXor(appendBits(c, 1, 1), value, xor,
                    Min({LeadingZeros(xor), 2 ^ DOUBLE_LEADING - 1}), TrailingZeros(xor))

\* Mutant: the bits of the failed append stay in the array.
zero_bitsNot(data, size, start, end) == data

\* Clear the bits from start on, up to the end of the word that holds end.
zero_bits(data, size, start, end) ==
  LET firstBin == start \div BINW + 1
      lastBin  == Min({end \div BYTE, size - 1}) \div BinSize + 1
  IN IF start = end THEN data
     ELSE [i \in DOMAIN data |-> IF i = firstBin THEN LSB(data[i], start % BINW)
                                 ELSE IF firstBin < i /\ i <= lastBin THEN 0 ELSE data[i]]

appendValue(int, value) == IF int.ok THEN appendFloat(int.chunk, value) ELSE int

\* The sample is counted, or the bits and the timestamp of c come back.
Concluded(c, res) ==
  IF res.ok THEN Ok([res.chunk EXCEPT !.count = @ + 1])
  ELSE Err([res.chunk EXCEPT !.data = zero_bits(@, c.size, c.idx, res.chunk.idx),
                             !.idx = c.idx, !.prevTimestamp = c.prevTimestamp,
                             !.prevTimestampDelta = c.prevTimestampDelta])

\* Add a sample at the end, or leave the chunk as it was (CR_END).
Compressed_Append(c, s) ==
  IF c.count = 0
  THEN Ok([c EXCEPT !.baseValue = s.value, !.prevValue = s.value, !.baseTimestamp = s.timestamp,
                    !.prevTimestamp = s.timestamp, !.prevTimestampDelta = 0, !.count = 1])
  ELSE Concluded(c, appendValue(appendInteger(c, s.timestamp), s.value))

----------------------------------------------------------------------------
(***************************************************************************)
(* Reading.                                                                *)
(***************************************************************************)
Iterator(c) ==
  [idx |-> 0, prevTS |-> c.baseTimestamp, prevDelta |-> 0, prevValue |-> c.baseValue,
   leading |-> BINW \div 2, trailing |-> BINW \div 2, blocksize |-> 0]

readBits(bins, start, len) ==
  LET lbit      == start % BINW
      available == BINW - lbit
      bin       == start \div BINW + 1
  IN IF available >= len THEN LSB(ShiftRight(bins[bin], lbit), len)
     ELSE LSB(ShiftRight(bins[bin], lbit), available)
            | ShiftLeft(LSB(bins[bin + 1], len - available), available)

bitoff(bins, bit) == readBits(bins, bit, 1) = 0

\* Behind the bit that announced it: the width in ones up to a zero, then the
\* change of the difference.
readInteger(it, bins) ==
  LET ones  == Min({n \in 0 .. Len(CMPR) - 1 : bitoff(bins, it.idx + n)} \cup {Len(CMPR)})
      width == IF ones = Len(CMPR) THEN BINW ELSE CMPR[ones + 1]
      at    == it.idx + Min({ones + 1, Len(CMPR)})
      bits  == readBits(bins, at, width)
  IN [it EXCEPT !.prevDelta = (@ + bin2int(bits, width)) % 2 ^ BINW, !.idx = at + width]

\* Behind the bit that announced it: the same window again, or a new one.
readFloat(it, bins) ==
  LET same      == bitoff(bins, it.idx)
      leading   == IF same THEN it.leading ELSE readBits(bins, it.idx + 1, DOUBLE_LEADING)
      blocksize == IF same THEN it.blocksize
                   ELSE readBits(bins, it.idx + 1 + DOUBLE_LEADING, DOUBLE_BLOCK_SIZE) + 1
      trailing  == IF same THEN it.trailing ELSE BINW - leading - blocksize
      at        == it.idx + 1 + (IF same THEN 0 ELSE DOUBLE_LEADING + DOUBLE_BLOCK_SIZE)
      xor       == ShiftLeft(readBits(bins, at, blocksize), trailing)
  IN [it EXCEPT !.leading = leading, !.blocksize = blocksize, !.trailing = trailing,
                !.prevValue = @ ^^ xor, !.idx = at + blocksize]

\* The iterator behind the timestamp, and behind the value, of the next sample.
NextTimestamp(it, bins) ==
  LET past     == [it EXCEPT !.idx = @ + 1]
      moved(i) == [i EXCEPT !.prevTS = (@ + i.prevDelta) % 2 ^ BINW]
  IN moved(IF bitoff(bins, it.idx) THEN past ELSE readInteger(past, bins))

NextValue(it, bins) ==
  LET past == [it EXCEPT !.idx = @ + 1]
  IN IF bitoff(bins, it.idx) THEN past ELSE readFloat(past, bins)

\* The iterator after the next sample; that sample is its prevTS and prevValue.
GetNext(it, bins) == NextValue(NextTimestamp(it, bins), bins)

\* All the samples Compressed_ChunkIteratorGetNext returns before CR_END.
Decoded(c) ==
  LET sample(it) == [timestamp |-> it.prevTS, value |-> it.prevValue]
      given(out, it) == [it |-> it, out |-> Append(out, sample(it))]
      step(acc, n) == given(acc.out, IF n = 1 THEN acc.it ELSE GetNext(acc.it, c.data))
  IN FoldLeft(step, [it |-> Iterator(c), out |-> <<>>], [n \in 1 .. c.count |-> n]).out

----------------------------------------------------------------------------
(***************************************************************************)
(* The operations that rewrite the chunk sample by sample.                 *)
(***************************************************************************)
Grown(c) ==
  [c EXCEPT !.size = @ + CHUNK_RESIZE_STEP,
            !.data = @ \o Zeros(CHUNK_RESIZE_STEP \div BinSize)]

ensureAddSample(c, s) ==
  LET resized(res) == IF res.ok THEN res.chunk ELSE Compressed_Append(Grown(res.chunk), s).chunk
  IN resized(Compressed_Append(c, s))

\* A fresh chunk of the given size that the samples are added to.
Rewritten(size, samples) == FoldLeft(ensureAddSample, NewCompressed(size), samples)

trimChunk(c) ==
  LET excess  == (c.size * BYTE - c.idx) \div BYTE
      tight   == c.size - excess + 1
      newSize == tight + (BinSize - (tight % BinSize))
  IN IF excess > 1
     THEN [c EXCEPT !.size = newSize, !.data = SubSeq(@, 1, newSize \div BinSize)]
     ELSE c

\* The two chunks Compressed_SplitChunk makes of c.
Compressed_SplitChunk(c) ==
  LET s    == Decoded(c)
      keep == c.count - c.count \div 2
  IN <<trimChunk(Rewritten(c.size, SubSeq(s, 1, keep))),
       trimChunk(Rewritten(c.size, SubSeq(s, keep + 1, c.count)))>>

Compressed_DelRange(c, start, end) ==
  LET outside(s) == ~(start <= s.timestamp /\ s.timestamp <= end)
  IN Rewritten(c.size, SelectSeq(Decoded(c), outside))

\* Insert s, or replace the sample of its timestamp by what the duplicate policy
\* makes of the old and the new value.
Compressed_UpsertSample(c, s, policy) ==
  LET old       == Decoded(c)
      before(x) == x.timestamp < s.timestamp
      after(x)  == x.timestamp > s.timestamp
      same      == {x \in ToSet(old) : x.timestamp = s.timestamp}
      stored    == {[s EXCEPT !.value = HandleDuplicateSample(policy, x.value, @)] : x \in same}
      new       == IF same = {} THEN s ELSE CHOOSE x \in stored : TRUE
  IN Rewritten(c.size, SelectSeq(old, before) \o <<new>> \o SelectSeq(old, after))

\* Mutant: the reader does not step back from the last four samples.
LastKeptAhead(s, end, k0) ==
  LET n == IF Len(s) >= 4 THEN Len(s) - 4 ELSE 0
      one[k \in 1 .. Len(s)] ==
        IF k = Len(s) THEN k ELSE IF s[k + 1].timestamp > end THEN k ELSE one[k + 1]
      four[k \in 1 .. Len(s)] == IF k >= n THEN one[k] ELSE four[k + 4]
  IN IF Last(s).timestamp > end THEN four[k0] ELSE Len(s)

\* decompressChunk reads past the end of the range four samples at a time while
\* at least five are left, and steps back; the last samples one by one.  The
\* index of the last sample it keeps, having kept those up to the k-th.
LastKept(s, end, k0) ==
  LET n == IF Len(s) >= 4 THEN Len(s) - 4 ELSE 0
      back(k) == Max({j \in 1 .. k : s[j].timestamp <= end})
      one[k \in 1 .. Len(s)] ==
        IF k = Len(s) THEN k ELSE IF s[k + 1].timestamp > end THEN k ELSE one[k + 1]
      four[k \in 1 .. Len(s)] ==
        IF k >= n THEN one[k] ELSE IF s[k + 4].timestamp > end THEN back(k + 4) ELSE four[k + 4]
  IN IF Last(s).timestamp > end THEN four[k0] ELSE Len(s)

\* The samples of c with a timestamp from start to end, oldest first; the
\* reverse reader writes the same samples from the other end of its buffer.
Compressed_ProcessChunk(c, start, end) ==
  LET s     == Decoded(c)
      first == Min({i \in 1 .. Len(s) : s[i].timestamp >= start})
  IN IF \/ c.count = 0 \/ end < start
        \/ c.baseTimestamp > end \/ c.prevTimestamp < start
        \/ s[first].timestamp > end
     THEN <<>>
     ELSE SubSeq(s, first, LastKept(s, end, first))

----------------------------------------------------------------------------
(***************************************************************************)
(* The RDB and LibMR format: the fields in a fixed order.                  *)
(***************************************************************************)
Compressed_Serialize(c) ==
  <<c.size, c.count, c.idx, c.baseValue, c.baseTimestamp, c.prevTimestamp,
    c.prevTimestampDelta, c.prevValue, c.prevLeading, c.prevTrailing, c.data>>

Compressed_Deserialize(r) ==
  [size |-> r[1], count |-> r[2], idx |-> r[3], baseValue |-> r[4], baseTimestamp |-> r[5],
   prevTimestamp |-> r[6], prevTimestampDelta |-> r[7], prevValue |-> r[8],
   prevLeading |-> r[9], prevTrailing |-> r[10], data |-> r[11]]
=============================================================================
