---------------------------- MODULE SampleStream ----------------------------
(***************************************************************************)
(* From magnitudes to bits (SampleStream.hpp, BlockRing.hpp, Sampler.hpp,   *)
(* SamplerFunc.hpp).  One thread reads a block, resamples it, compares      *)
(* every sample with the one half a bit later, and now and then looks back  *)
(* into the samples it kept.                                                *)
(*                                                                          *)
(* A sample is its number since the start of the stream; a negative number  *)
(* is the silence the rings are filled with.  A ring holds two blocks of    *)
(* consecutive numbers after a front of a few cells, so three numbers stand *)
(* for its content and the sizes are those of the program.                  *)
(***************************************************************************)
EXTENDS Integers, Sequences, FiniteSets

CONSTANTS RatePairs,               \* <<input, output>> in kHz: the samplers built
          DesiredInputBufferSize,  \* 8192
          FlushIntervalMicros,     \* 10000
          SharpeningCubic,         \* STREAM1090_INTERP == 6
          MaxBlocks                \* bound: blocks of a run

ASSUME SampleStreamAssumption ==
  /\ RatePairs \subseteq (Nat \ {0}) \X (Nat \ {0})
  /\ \A p \in RatePairs : p[1] % 40 = 0 /\ p[2] % 2000 = 0 /\ p[2] \in p[1]..(100 * p[1])
  /\ DesiredInputBufferSize \in Nat \ {0} /\ FlushIntervalMicros \in Nat \ {0} /\ MaxBlocks \in Nat
  /\ SharpeningCubic \in BOOLEAN

VARIABLES sampler,  \* see SamplerOf
          input,    \* m_inputRingBuffer
          samples,  \* m_sampleRingBuffer
          pc,       \* eof, read, sample, demod, flush, ended
          ended,    \* the reader has come to the end of its input
          sinceFlush, \* m_blocksSinceFlush
          read,     \* history: blocks read
          unflushed \* history: microseconds of samples since the last flush

streamVars == <<sampler, input, samples, pc, ended, sinceFlush, read, unflushed>>

-----------------------------------------------------------------------------
(* SamplerBase *)

Divides(d, n) == n % d = 0
Gcd(a, b) ==
  CHOOSE d \in 1..a : Divides(d, a) /\ Divides(d, b)
                      /\ \A e \in (d + 1)..a : ~(Divides(e, a) /\ Divides(e, b))

\* Rates in units of 40 kHz, which divides all of them, keep Gcd cheap.
SamplerOf(pair) ==
  LET gcd == Gcd(pair[1] \div 40, pair[2] \div 40)
      ri == pair[1] \div (40 * gcd)
      ro == pair[2] \div (40 * gcd)
      streams == pair[2] \div 1000
      groups == (DesiredInputBufferSize \div (ri * streams) + 1) * streams
  IN  [pair |-> pair, ri |-> ri, ro |-> ro, streams |-> streams, half |-> streams \div 2,
       groups |-> groups, inSize |-> ri * groups, outSize |-> ro * groups,
       passthrough |-> pair[1] = pair[2]]

\* The look-backs stay within the block before: they span 264 bits, and no sampler
\* is so fast that a block has fewer than 266 iterations (24 MHz has 342).
ASSUME LookBackAssumption ==
  \A p \in RatePairs : SamplerOf(p).outSize >= 266 * SamplerOf(p).streams

NumStreams == sampler.streams
Half == sampler.half
BlockMicros == sampler.outSize \div NumStreams
FlushEveryBlocks == (FlushIntervalMicros + BlockMicros - 1) \div BlockMicros

-----------------------------------------------------------------------------
(* BlockRing: the numbers at the start of the front and of the two blocks  *)

Ring(size, delay) ==
  [size |-> size, delay |-> delay, front |-> -delay, block |-> <<-2 * size, -size>>,
   readPos |-> 0, writePos |-> delay, full |-> 0]
RingSize(ring) == 2 * ring.size
At(ring, i) ==
  IF i < ring.delay THEN ring.front + i
  ELSE ring.block[(i - ring.delay) \div ring.size + 1] + ((i - ring.delay) % ring.size)

Written(ring, first) ==
  LET next == ring.writePos + ring.size
      wraps == next + ring.size > RingSize(ring) + ring.delay
  IN  [ring EXCEPT !.block[(ring.writePos - ring.delay) \div ring.size + 1] = first,
                   !.front = IF wraps THEN first + ring.size - ring.delay ELSE @,
                   !.writePos = IF wraps THEN ring.delay ELSE next, !.full = @ + 1]
Advanced(ring) ==
  LET next == ring.readPos + ring.size
  IN  [ring EXCEPT !.readPos = IF next >= RingSize(ring) THEN 0 ELSE next, !.full = @ - 1]

\* Mutant: the ring is taken to be as long as its memory.
LookBackTotal(ring, k, offset) ==
  LET i == ((ring.readPos + offset) % RingSize(ring)) + RingSize(ring) + ring.delay - k
  IN  At(ring, IF i >= RingSize(ring) + ring.delay THEN i - RingSize(ring) - ring.delay ELSE i)
LookBack(ring, k, offset) ==
  LET i == ((ring.readPos + offset) % RingSize(ring)) + RingSize(ring) - k
  IN  At(ring, IF i >= RingSize(ring) THEN i - RingSize(ring) ELSE i)

-----------------------------------------------------------------------------
(* Resampling: for every output of a group the first of the two inputs it  *)
(* mixes, the weights of both and what they are divided by                 *)

Mix(k, w0, w1, den) == [k |-> k, w0 |-> w0, w1 |-> w1, den |-> den]
Halves == 65536
Linear ==
  [j \in 1..sampler.ro |->
    LET at == (j - 1) * sampler.ri
        part == (at % sampler.ro) * Halves
        w1 == (2 * part + sampler.ro) \div (2 * sampler.ro)
    IN  Mix(at \div sampler.ro, Halves - w1, w1, Halves)]

\* The samplers with a table of their own. Mutant: an input too early in one row.
TableEarly(pair) ==
  CASE pair = <<2400, 4000>> ->
         <<Mix(0, 3, 3, 6), Mix(0, 5, 1, 6), Mix(1, 2, 4, 6), Mix(2, 4, 2, 6), Mix(2, 1, 5, 6)>>
    [] OTHER -> Linear
Table(pair) ==
  CASE pair = <<2400, 4000>> ->
         <<Mix(0, 3, 3, 6), Mix(1, 5, 1, 6), Mix(1, 2, 4, 6), Mix(2, 4, 2, 6), Mix(2, 1, 5, 6)>>
    [] pair = <<2400, 6000>> ->
         <<Mix(0, 5, 1, 6), Mix(0, 3, 3, 6), Mix(0, 1, 5, 6), Mix(1, 4, 2, 6), Mix(1, 2, 4, 6)>>
    [] pair = <<2400, 8000>> ->
         <<Mix(0, 7, 1, 8), Mix(0, 4, 4, 8), Mix(0, 1, 7, 8), Mix(1, 8, 0, 8), Mix(1, 5, 3, 8),
           Mix(1, 2, 6, 8), Mix(2, 8, 0, 8), Mix(2, 6, 2, 8), Mix(2, 3, 5, 8), Mix(2, 0, 8, 8)>>
    [] pair = <<6000, 16000>> ->
         <<Mix(0, 8, 0, 8), Mix(0, 5, 3, 8), Mix(0, 2, 6, 8), Mix(1, 7, 1, 8), Mix(1, 4, 4, 8),
           Mix(1, 1, 7, 8), Mix(2, 6, 2, 8), Mix(2, 3, 5, 8)>>
    [] pair = <<6000, 24000>> ->
         <<Mix(0, 1, 0, 1), Mix(0, 3, 1, 4), Mix(0, 1, 1, 2), Mix(0, 1, 3, 4)>>
    [] OTHER -> Linear

\* The inner groups of three samplers use two inputs more, one on each side.
UseSharpeningCubic ==
  SharpeningCubic /\ <<sampler.ri, sampler.ro>> \in {<<1, 5>>, <<8, 25>>, <<16, 75>>}
Reach(group, mix) ==
  LET wide == UseSharpeningCubic /\ group \in 1..(sampler.groups - 2)
  IN  IF wide THEN (mix.k - 1)..(mix.k + 2)
      ELSE {mix.k} \cup (IF mix.w1 = 0 THEN {} ELSE {mix.k + 1})
Used(group, mix) == {input.readPos + group * sampler.ri + k : k \in Reach(group, mix)}

-----------------------------------------------------------------------------
(* SampleStream::read *)

InitStream ==
  /\ sampler \in {SamplerOf(p) : p \in RatePairs}
  /\ input = Ring(sampler.inSize, 1) /\ samples = Ring(sampler.outSize, Half)
  /\ pc = "eof" /\ ended = FALSE /\ sinceFlush = 0 /\ read = 0 /\ unflushed = 0

\* inputReader.eof(): the input is at its end or a shutdown is asked for.
Eof ==
  /\ pc = "eof"
  /\ \/ pc' = "ended" /\ unflushed' = 0
     \/ ~ended /\ read < MaxBlocks /\ pc' = "read" /\ UNCHANGED unflushed
  /\ UNCHANGED <<sampler, input, samples, ended, sinceFlush, read>>

\* readMagnitude: a block that comes short is filled up with silence, and is
\* the last one.
ReadMagnitude(short) ==
  /\ pc = "read" /\ read' = read + 1 /\ ended' = short
  /\ IF sampler.passthrough
     THEN samples' = Written(samples, read * sampler.outSize) /\ pc' = "demod" /\ UNCHANGED input
     ELSE input' = Written(input, read * sampler.inSize) /\ pc' = "sample" /\ UNCHANGED samples
  /\ UNCHANGED <<sampler, sinceFlush, unflushed>>

Sample ==
  /\ pc = "sample"
  /\ IF input.full > 0
     THEN /\ input' = Advanced(input)
          /\ samples' = Written(samples, (read - 1) * sampler.outSize)
     ELSE UNCHANGED <<input, samples>>
  /\ pc' = "demod" /\ UNCHANGED <<sampler, ended, sinceFlush, read, unflushed>>

\* Every iteration of the loop over the block; m_demodPos is i * NumStreams
\* cells into it, and the look-backs of that iteration start there.
Demodulate ==
  /\ pc = "demod" /\ pc' = "eof"
  /\ IF samples.full > 0
     THEN LET flushes == sinceFlush + 1 >= FlushEveryBlocks
          IN  /\ samples' = Advanced(samples)
              /\ sinceFlush' = IF flushes THEN 0 ELSE sinceFlush + 1
              /\ unflushed' = IF flushes THEN 0 ELSE unflushed + BlockMicros
     ELSE UNCHANGED <<samples, sinceFlush, unflushed>>
  /\ UNCHANGED <<sampler, input, ended, read>>

NextStream == Eof \/ (\E short \in BOOLEAN : ReadMagnitude(short)) \/ Sample \/ Demodulate

-----------------------------------------------------------------------------
(* What the demodulator asks of the ring: how far back                      *)

Streams == 0..(NumStreams - 1)
ConfidenceAt(bit, s) == <<(16 + bit) * NumStreams - s, (16 + bit) * NumStreams - s - Half>>
GetRSSI(bit, s) == (128 - bit) * NumStreams - s
PreambleScoreAt(s, slot, h, k) == (135 - slot) * NumStreams - s - h * Half - k
FrameMeanLevel(bit, s) == (16 + bit) * NumStreams - s
NoiseMeanLevel(bit, s) == (200 + bit) * NumStreams - s

\* The bit a stream of comparisons gets in iteration i of this block.
Newest(i) == (read - 1) * (sampler.outSize \div NumStreams) + i
Back(k, i) == LookBack(samples, k, i * NumStreams)
Same(content, number) == content = number \/ (content < 0 /\ number < 0)

\* Bounds: the iterations that look back over the start of the block, and the
\* last; the streams and bits at the ends of each window.
Iterations == (0..265) \cup {BlockMicros - 1}
Ends == {0, NumStreams - 1}

\* Where the register keeps the first bit of a long frame and of a short one:
\* the comparison was made so many iterations ago. Both start 127 ago.
LongBits == 16..127
ShortBits == 72..127

-----------------------------------------------------------------------------
(* Properties *)

\* Every comparison is between sample n of its stream and the one half a bit
\* later, and the numbers go on without a gap or a repetition from iteration to
\* iteration and from block to block. The first Half numbers are the silence
\* the ring begins with: the reader is that far behind the writer
\* (SampleStream.hpp:250-295, BlockRing.hpp:35-60).
BitsConsecutive ==
  pc = "demod" =>
    \A i \in {0, 1, BlockMicros - 2, BlockMicros - 1} : \A j \in Streams : \A later \in {0, Half} :
      Same(At(samples, samples.readPos + i * NumStreams + j + later),
           Newest(i) * NumStreams + j + later - Half)

\* A look-back finds the samples it is meant for, in both blocks and across
\* the wrap, however many samples a bit has: the confidence of a frame bit the
\* two samples whose comparison that bit is, the preamble the sixteen half-bits
\* before the frame, the signal level of a long frame the frame and the noise
\* a window that ends before the preamble (SampleStream.hpp:49-215, BlockRing.hpp:70-80).
LookBacksExact ==
  pc = "demod" =>
    \A i \in Iterations : \A s \in Ends :
      LET number(ago) == (Newest(i) - ago) * NumStreams + s - Half
      IN  /\ \A bit \in {0, 55, 111} :
               /\ Same(Back(ConfidenceAt(bit, s)[1], i), number(16 + bit))
               /\ Same(Back(ConfidenceAt(bit, s)[2], i), number(16 + bit) + Half)
          /\ \A slot \in {0, 7} : \A h \in {0, 1} : \A k \in {0, Half - 1} :
               Same(Back(PreambleScoreAt(s, slot, h, k), i), number(127 + 8 - slot) + h * Half + k)
          /\ \A bit \in {0, 111} : Same(Back(FrameMeanLevel(bit, s), i), number(16 + bit))
          /\ \A bit \in {0, 63} : Same(Back(NoiseMeanLevel(bit, s), i), number(200 + bit))
          /\ \A bit \in {28, 56} : \E ago \in ShortBits : Same(Back(GetRSSI(bit, s), i), number(ago))

\* A resampled block is made of the inputs around its own instants: they are
\* in the ring, follow the ones of the block before, and each output stands
\* for an instant less than one output step off an even spacing, so that a
\* symbol keeps its length (Sampler.hpp:171-285, SamplerFunc.hpp:87-129).
ResampledInStep ==
  pc = "sample" =>
    LET table == Table(sampler.pair)
        Strays(j) == \* from j * ri / ro, in units of 1 / (ro * den)
          (table[j].k * table[j].den + table[j].w1) * sampler.ro - (j - 1) * sampler.ri * table[j].den
    IN  \A j \in DOMAIN table :
          /\ table[j].w0 + table[j].w1 = table[j].den /\ table[j].w0 >= 0
          /\ -sampler.ro <= Strays(j)  \* a weight is rounded
          /\ Strays(j) <= sampler.ri * table[j].den
          /\ \A group \in {0, 1, sampler.groups - 2, sampler.groups - 1} :
               \A cell \in Used(group, table[j]) :
                 /\ cell <= RingSize(input)
                 /\ Same(At(input, cell),
                         (read - 1) * sampler.inSize + (cell - input.readPos) - 1)

\* What is decoded leaves within the flush interval and the block that was
\* under way, and nothing is left when the stream has ended
\* (SampleStream.hpp:28-36, 300-317).
FlushedInTime ==
  /\ unflushed < FlushIntervalMicros
  /\ (pc = "ended" => unflushed = 0)

\* From the samples read to the bits compared, and back to the samples they were
\* compared from, nothing is out of step, and nothing waits for ever.
SamplesInStep == BitsConsecutive /\ ResampledInStep /\ LookBacksExact /\ FlushedInTime

\* Not so: the level of a short frame is taken over the frame. The short frame
\* is in the first 56 bits of the register, the window over the last
\* (SampleStream.hpp:161-162, 181-188).
ShortFrameLevel ==
  pc = "demod" =>
    \A bit \in {0, 55} : \E ago \in ShortBits :
      Same(Back(FrameMeanLevel(bit, 0), 300), (Newest(300) - ago) * NumStreams - Half)
=============================================================================
