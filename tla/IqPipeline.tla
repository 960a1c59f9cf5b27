----------------------------- MODULE IqPipeline -----------------------------
(***************************************************************************)
(* From raw samples to filtered I and Q (InputReaderBase.hpp,               *)
(* RawInputFormat.hpp, IQPipeline.hpp, LowPassFilter.hpp, Presets.hpp).     *)
(* Samples come in tiles; each stage walks a whole tile before the next one *)
(* and keeps what it needs for the tile after.                              *)
(*                                                                          *)
(* Samples are Q14 and taps Q15 integers, as in the code; a tap before its  *)
(* conversion is a number of thousandths.  What the magnitude is made from  *)
(* is kept, the square root is not.                                         *)
(***************************************************************************)
EXTENDS Integers, Sequences

CONSTANTS Pipelines,    \* a set of [format, stages, tapsI, tapsQ], see Presets.hpp
          RawValues(_), \* the raw samples of a format that are tried
          TileSizes,    \* the lengths of tiles
          ChunkSize,    \* FirDetail::ChunkSize
          Neon, Lanes,  \* __ARM_NEON, and the samples of a vector
          DcWindow,     \* 1 << m_shift of DCRemoval
          MaxSamples    \* bound: samples of a run

Formats == {"rtlsdr", "airspy", "antsdr"}
Stages == {"dc", "flip", "fir", "dual"}
Q15 == {t \in Int : -32768 <= t /\ t <= 32767}

\* What the converters of 8 and of 12 bits can be given.
InFormat(format, v) ==
  CASE format = "rtlsdr" -> 0 <= v /\ v <= 255
    [] format = "airspy" -> 0 <= v /\ v <= 4095
    [] format = "antsdr" -> -2048 <= v /\ v <= 2047

\* The sums over a sequence, up to each of its elements, and over all of it.
Sums(terms) ==
  LET sums[n \in 0..Len(terms)] == IF n = 0 THEN 0 ELSE sums[n - 1] + terms[n] IN sums
Total(terms) == Sums(terms)[Len(terms)]

Abs(t) == IF t < 0 THEN -t ELSE t
Magnitude(taps) == Total([k \in 1..Len(taps) |-> Abs(taps[k])])

\* Taps are in Q15, and together no more than the three that are asked of them
\* before they are rounded (RequireTapsFit).
MaxNumTaps == 68
MaxMagnitude == 3 * 32768 + MaxNumTaps \div 2
InstalledTaps == {taps \in Seq(Q15) : Len(taps) \in 1..MaxNumTaps /\ Magnitude(taps) <= MaxMagnitude}

ASSUME IqPipelineAssumption ==
  /\ TileSizes \subseteq Nat \ {0} /\ {ChunkSize, Lanes, DcWindow} \subseteq Nat \ {0}
  /\ {Neon} \subseteq BOOLEAN
  /\ MaxSamples \in Nat
  /\ Pipelines \subseteq [format : Formats, stages : SUBSET Stages,
                          tapsI : InstalledTaps, tapsQ : InstalledTaps]
  /\ \A format \in Formats : \A v \in RawValues(format) : v \in Int /\ InFormat(format, v)

VARIABLES pipe,      \* the pipeline that was made, for good
          carried,   \* what the stages keep from tile to tile, for I and for Q
          rawI, rawQ, \* history: the samples so far, converted
          outI, outQ  \* history: what the pipeline made of them

pipeVars == <<pipe, carried, rawI, rawQ, outI, outQ>>

-----------------------------------------------------------------------------
(* Conversions *)

Int16(x) == ((x + 32768) % 65536) - 32768

SampleOne == 16384
ConvertFixed(format, v) ==
  CASE format = "rtlsdr" -> Int16((2 * v - 255) * (SampleOne \div 256))
    [] format = "airspy" -> Int16((2 * v - 4095) * (SampleOne \div 4096))
    [] format = "antsdr" -> Int16(v * (SampleOne \div 2048))

\* Rounded away from zero at a half, and kept inside an int16.
ToQ15(t) ==
  LET x == t * 32768
  IN  CASE t >= 1000 -> 32767
        [] t <= -1000 -> -32768
        [] 0 <= t /\ t < 1000 -> (2 * x + 1000) \div 2000
        [] OTHER -> -((1000 - 2 * x) \div 2000)

TapMagnitudeSum(taps) == Magnitude(taps)
TapsFitAccumulator(taps) == TapMagnitudeSum(taps) <= 3000
RequireTapsFit(taps) ==
  taps = <<>> \/ ((\A i \in DOMAIN taps : Abs(taps[i]) <= 1000) /\ TapsFitAccumulator(taps))

BitCeil(n) == CHOOSE p \in {1, 2, 4, 8, 16, 32, 64, 128, 256} : p >= n /\ (p = 1 \/ p \div 2 < n)
HistorySize(taps) == BitCeil(Len(taps)) - 1
Silence(n) == [i \in 1..n |-> 0]

-----------------------------------------------------------------------------
(* Aligning the branches of an Airspy: x[2k] is I, x[2k+1] is Q *)

IqAlignmentEdgeTap(rate) == CASE rate = 6 -> -225 [] rate = 10 -> -38 [] OTHER -> -63

IqAlignmentBucketsAgree(length) == BitCeil(length + 3) = BitCeil(length + 2)

Convolved(base, delay) ==
  [i \in 1..(Len(base) + 3) |->
     Total([k \in 1..4 |-> IF i - k + 1 \in DOMAIN base
                           THEN (base[i - k + 1] * delay[k]) \div 1000 ELSE 0])]
MakeAlignedIQTaps(base, rate) ==
  LET edge == IqAlignmentEdgeTap(rate)
  IN  IF IqAlignmentBucketsAgree(Len(base))
      THEN <<Convolved(base, <<edge, 500 - edge, 500 - edge, edge>>), <<0>> \o base \o <<0>>>>
      ELSE <<base, base>>

MaxFileTaps == 64
SetBranch(source) ==
  IF source = <<>> THEN <<ToQ15(1000)>>
  ELSE [i \in 1..(IF Len(source) < MaxNumTaps THEN Len(source) ELSE MaxNumTaps) |->
          ToQ15(source[i])]

\* A file of taps: a line holds a tap, nothing or a comment, or cannot be read.
LoadTaps(lines) ==
  LET taps == SelectSeq(lines, LAMBDA line : line.kind # "none")
  IN  IF (\E i \in DOMAIN taps : taps[i].kind = "junk") \/ Len(taps) > MaxFileTaps THEN <<>>
      ELSE [i \in DOMAIN taps |-> taps[i].tap]

\* IQLowPassDynamic begins with the one tap that lets everything pass.
SetTaps(source) ==
  IF source = <<>> \/ Len(source) > MaxFileTaps THEN <<ToQ15(1000)>>
  ELSE [i \in DOMAIN source |-> ToQ15(source[i])]

-----------------------------------------------------------------------------
(* The stages, each over a tile: what comes out and what is carried on *)

\* DCRemoval::applyBlock; the accumulator is the mean, shifted up.
Mean(acc) == acc \div DcWindow
Accumulators(acc, tile) ==
  LET accs[n \in 0..Len(tile)] ==
        IF n = 0 THEN acc ELSE accs[n - 1] + (tile[n] - Mean(accs[n - 1]))
  IN  accs
Centre(acc, tile) ==
  LET accs == Accumulators(acc, tile)
  IN  [acc |-> accs[Len(tile)],
       out |-> [n \in 1..Len(tile) |-> Int16(tile[n] - Mean(accs[n - 1]))]]

\* FlipSigns::applyBlock
Flip(flip, tile) ==
  [flip |-> IF Len(tile) % 2 = 1 THEN ~flip ELSE flip,
   out |-> [i \in 1..Len(tile) |-> IF (i % 2 = 1) = flip THEN Int16(-tile[i]) ELSE tile[i]]]

\* What is added up for sample i, the last one of its window, as it is written
\* down and as the vectors take it: a symmetric filter adds the two samples of
\* a pair before it multiplies, and the middle tap of an odd one stands alone.
TapTerms(taps, work, i) == [k \in 1..Len(taps) |-> taps[k] * work[i + k - 1]]
PairTerms(taps, work, i) ==
  LET n == Len(taps)
  IN  [k \in 1..((n + 1) \div 2) |->
         taps[k] * (IF 2 * k = n + 1 THEN work[i + k - 1] ELSE work[i + k - 1] + work[i + n - k])]

\* An int32 that wrapped before would have the same sixteen bits.
Rounded(sum) == Int16((sum + 16384) \div 32768)

IsSymmetric(taps) == \A k \in 1..(Len(taps) \div 2) : taps[k] = taps[Len(taps) + 1 - k]

\* Whole vectors first, then one by one what does not fill a vector.
FirBlock(taps, work, n) ==
  [i \in 1..n |->
     Rounded(Total(IF Neon /\ IsSymmetric(taps) /\ i <= n - (n % Lanes)
                   THEN PairTerms(taps, work, i) ELSE TapTerms(taps, work, i)))]
\* One of the two branches that run side by side: each takes as many steps as
\* it has taps or pairs.
FilterBlockTyped(taps, work, n) == FirBlock(taps, work, n)

Filters == pipe.stages \cap {"fir", "dual"} # {}

Slice(s, after, upto) == [j \in 1..(upto - after) |-> s[after + j]]

\* A chunk: the history, then the fresh samples; the tail is the next history.
\* Mutant: the tail of what was put in place of the samples.
ChunkInPlace(taps, r, chunk) ==
  LET out == FirBlock(taps, r.history \o chunk, Len(chunk))
      placed == r.history \o out
  IN  [history |-> Slice(placed, Len(chunk), Len(placed)), out |-> r.out \o out]
Chunk(taps, r, chunk) ==
  LET work == r.history \o chunk
  IN  [history |-> Slice(work, Len(chunk), Len(work)),
       out |-> r.out \o FirBlock(taps, work, Len(chunk))]
DualChunk(taps, r, chunk) ==
  LET work == r.history \o chunk
  IN  [history |-> Slice(work, Len(chunk), Len(work)),
       out |-> r.out \o FilterBlockTyped(taps, work, Len(chunk))]
Chunks(tile) ==
  [c \in 1..((Len(tile) + ChunkSize - 1) \div ChunkSize) |->
     Slice(tile, (c - 1) * ChunkSize,
           IF c * ChunkSize < Len(tile) THEN c * ChunkSize ELSE Len(tile))]
Filtered(taps, r, chunk) ==
  IF "dual" \in pipe.stages THEN DualChunk(taps, r, chunk) ELSE Chunk(taps, r, chunk)
Fir(taps, history, tile) ==
  LET chunks == Chunks(tile)
      after[c \in 0..Len(chunks)] ==
        IF c = 0 THEN [history |-> history, out |-> <<>>]
        ELSE Filtered(taps, after[c - 1], chunks[c])
  IN  after[Len(chunks)]

\* applyStagesBlock over one branch: DCRemoval, FlipSigns and the filter, those
\* the pipeline has, in this order.
Branch(state, taps, tile) ==
  LET centred == IF "dc" \in pipe.stages THEN Centre(state.acc, tile)
                 ELSE [acc |-> state.acc, out |-> tile]
      flipped == IF "flip" \in pipe.stages THEN Flip(state.flip, centred.out)
                 ELSE [flip |-> state.flip, out |-> centred.out]
      filtered == IF Filters THEN Fir(taps, state.history, flipped.out)
                  ELSE [history |-> state.history, out |-> flipped.out]
  IN  [state |-> [acc |-> centred.acc, flip |-> flipped.flip, history |-> filtered.history],
       out |-> filtered.out]

-----------------------------------------------------------------------------
(* The input reader *)

Idle(taps) == [acc |-> 0, flip |-> FALSE, history |-> Silence(HistorySize(taps))]
InitPipe ==
  /\ pipe \in Pipelines /\ carried = [i |-> Idle(pipe.tapsI), q |-> Idle(pipe.tapsQ)]
  /\ rawI = <<>> /\ rawQ = <<>> /\ outI = <<>> /\ outQ = <<>>

\* One tile of processBlock. m_flip is one for I and Q; it is kept twice here.
ProcessTile(I, Q) ==
  LET x == [j \in 1..Len(I) |-> ConvertFixed(pipe.format, I[j])]
      y == [j \in 1..Len(Q) |-> ConvertFixed(pipe.format, Q[j])]
      branchI == Branch(carried.i, pipe.tapsI, x)
      branchQ == Branch(carried.q, pipe.tapsQ, y)
  IN  /\ carried' = [i |-> branchI.state, q |-> branchQ.state]
      /\ rawI' = rawI \o x /\ rawQ' = rawQ \o y
      /\ outI' = outI \o branchI.out /\ outQ' = outQ \o branchQ.out
      /\ UNCHANGED pipe

\* Bound: the Q samples of a tile are the I samples backwards.
NextPipe ==
  \E n \in TileSizes :
    /\ Len(rawI) + n <= MaxSamples
    /\ \E I \in [1..n -> RawValues(pipe.format)] :
         ProcessTile(I, [j \in 1..n |-> I[n + 1 - j]])

-----------------------------------------------------------------------------
(* Properties *)

\* What the filter is to be, over the whole stream and without a word of
\* tiles: the sample minus the mean of those before it, every second one
\* negated, and the sum over the taps that ends at the sample.
CentredStream(raw) ==
  IF "dc" \in pipe.stages
  THEN LET accs == Accumulators(0, raw)
       IN  [n \in 1..Len(raw) |-> raw[n] - Mean(accs[n - 1])]
  ELSE raw
FlippedStream(raw) ==
  LET centred == CentredStream(raw)
  IN  [n \in 1..Len(raw) |-> IF "flip" \in pipe.stages /\ n % 2 = 0 THEN -centred[n]
                             ELSE centred[n]]
FilterInput(raw, taps) == Silence(HistorySize(taps)) \o FlippedStream(raw)
FilteredStream(raw, taps) ==
  IF ~Filters THEN FlippedStream(raw)
  ELSE LET stream == FilterInput(raw, taps)
       IN  [n \in 1..Len(raw) |-> Rounded(Total(TapTerms(taps, stream, n)))]

\* However the stream is cut into tiles and the tiles into chunks, it comes out
\* as if it were one, and no int16 before the filter wraps: the mean of
\* DCRemoval keeps the difference inside for the three integer formats
\* (IQPipeline.hpp:27-36, 84-90, LowPassFilter.hpp:295-321, 490-518, 576-592).
FilteredAsOneStream ==
  outI = FilteredStream(rawI, pipe.tapsI) /\ outQ = FilteredStream(rawQ, pipe.tapsQ)

\* The magnitude of a sample as the filter may meet it: DCRemoval can double it.
Loudest == IF "dc" \in pipe.stages THEN 32767 ELSE 16384

\* As long as the taps together leave room for the loudest of samples, no sum on
\* the way leaves the int32 and, for a gain up to about one, none that is rounded
\* the int16.  The first holds for all taps that are let through, unless there
\* is a DCRemoval: for two, not for three (LowPassFilter.hpp:90-112, 262-263).
Holds32(sum) == -2147483647 <= sum /\ sum <= 2147483647 - 16384
WidthsKept(raw, taps) ==
  Filters =>
    LET stream == FilterInput(raw, taps)
        most == Magnitude(taps) * Loudest
        Inside(terms) == most <= 2147467263 => \A k \in 0..Len(terms) : Holds32(Sums(terms)[k])
    IN  \A n \in 1..Len(raw) :
          LET terms == TapTerms(taps, stream, n)
          IN  /\ Inside(terms) /\ (IsSymmetric(taps) => Inside(PairTerms(taps, stream, n)))
              /\ most < 1073725440 => Rounded(Total(terms)) = (Total(terms) + 16384) \div 32768

\* Twice the delay of a branch of so many taps around their centre, and of the
\* history that is longer than the taps.
TwiceDelay(taps) == 2 * HistorySize(taps) - (Len(taps) - 1)

\* Whatever the length of the filter that is asked for, the branches are half
\* a sample apart or, where that cannot be, not aligned at all; and no tap of
\* either is cut off (Presets.hpp:139-173, LowPassFilter.hpp:605-621).
BranchesHalfApart ==
  "dual" \in pipe.stages /\ rawI = <<>> => \A length \in 1..64 :
    LET base == [i \in 1..length |-> 1000 \div length]
        aligned == MakeAlignedIQTaps(base, 6)
        I == SetBranch(aligned[1])
        Q == SetBranch(aligned[2])
    IN  /\ Len(I) = Len(aligned[1]) /\ Len(Q) = Len(aligned[2])
        /\ aligned = <<base, base>> \/ TwiceDelay(Q) - TwiceDelay(I) = 1
        /\ TwiceDelay(Q) - TwiceDelay(I) \in {0, 1}

\* The filters keep the two branches exact and in step, for every cut of the
\* stream and every set of taps.
BranchesExact ==
  /\ FilteredAsOneStream /\ WidthsKept(rawI, pipe.tapsI) /\ WidthsKept(rawQ, pipe.tapsQ)
  /\ BranchesHalfApart
=============================================================================
