------------------------------ MODULE BitRepair ------------------------------
(***************************************************************************)
(* The parity of a frame and the three ways to mend a frame that fails it   *)
(* (CRC.hpp, CRCErrorTable.hpp, ErasureRepair.hpp, Bits128.hpp and          *)
(* their calls in DemodCore.hpp): a table of known bursts, a linear system  *)
(* over the bits the demodulator doubts most, and guesses in the order of   *)
(* that doubt.                                                              *)
(*                                                                          *)
(* A word is the set of its bits that are 1, so that xor is the symmetric   *)
(* difference.  How doubtful a bit is, is a number; a lower one is more so. *)
(***************************************************************************)
EXTENDS Integers, SequencesExt, FiniteSetsExt

CONSTANTS ShortFrame, LongFrame, \* 56 and 112
          DFBits,               \* 5: the downlink format, at the top of a frame
          WordBits,             \* 64
          DF11Slots, DF17Slots, \* 469 and 6790
          CandidateCount,     \* ErasureRepair::Candidates
          MaxFlips, MaxGuesses, Ranks, \* of OrbGrand, and the bits it is given
          Payloads,           \* what a frame says, without its parity
          Confidences,        \* functions from the bits of a frame to their confidence
          HitBits, MaxHits    \* the bits that noise may flip one by one, and how many

ASSUME BitRepairAssumption ==
  /\ {DFBits, ShortFrame, LongFrame} \subseteq 1..112
  /\ DFBits < ShortFrame /\ ShortFrame < LongFrame
  /\ ShortFrame <= WordBits /\ 2 * WordBits >= LongFrame
  /\ CandidateCount \in 1..32
  /\ {MaxFlips, MaxGuesses, Ranks} \subseteq Nat \ {0} /\ MaxHits \in Nat

VARIABLES df11ErrorTable, df17ErrorTable,
          inserted,    \* how many corrections their constructors have inserted
          sent, heard, \* a frame, and what arrived of it
          crc,         \* of what arrived
          confidence   \* of each of its bits

tableVars == <<df11ErrorTable, df17ErrorTable, inserted>>
repairVars == <<tableVars, sent, heard, crc, confidence>>

\* A DF11 is a short frame, a DF17 a long one; neither format is 0.
Length(bits) == IF bits \subseteq 0..(ShortFrame - 1) THEN ShortFrame ELSE LongFrame
Searched(length) == length - DFBits

-----------------------------------------------------------------------------
(* The parity *)

Xor(a, b) == {i \in a \cup b : (i \in a) # (i \in b)}
XorAll(column, S) == FoldSet(LAMBDA i, sum : Xor(sum, column[i]), {}, S)

\* The bit that leaves at the top takes the polynomial with it.
Polynomial == {0, 3, 10} \cup 12..23
PushBack(reg, bit) ==
  LET shifted == {i + 1 : i \in reg \ {23}} \cup {i \in {0} : bit}
  IN  IF 23 \in reg THEN Xor(shifted, Polynomial) ELSE shifted
Compute(bits) ==
  LET numBits == Length(bits)
      result[i \in 0..numBits] ==
        IF i = 0 THEN {} ELSE PushBack(result[i - 1], numBits - i \in bits)
  IN  result[numBits]

-----------------------------------------------------------------------------
(* A word twice as wide, of two, and a correction within it *)

ShiftLeft(high, low, n) ==
  LET Within(word, by) == {i + by : i \in {j \in word : j + by \in 0..(WordBits - 1)}}
  IN  IF n = 0 THEN [high |-> high, low |-> low]
      ELSE IF n < WordBits
      THEN [high |-> Within(high, n) \cup Within(low, n - WordBits), low |-> Within(low, n)]
      ELSE [high |-> Within(low, n - WordBits), low |-> {}]
Joined(words) == words.low \cup {i + WordBits : i \in words.high}

FixOp(pattern, index) == [pattern |-> pattern, index |-> index]
NoFix == FixOp({}, 0)
Valid(op) == op.pattern # {}
ApplyFixOp(op, bits) ==
  LET bitsToFlip == ShiftLeft({}, op.pattern, op.index)
  IN  Xor(bits, IF Length(bits) = ShortFrame THEN bitsToFlip.low ELSE Joined(bitsToFlip))
OpSyndrome(op) ==
  LET reg[i \in 0..op.index] == IF i = 0 THEN op.pattern ELSE PushBack(reg[i - 1], FALSE)
  IN  reg[op.index]
DeltaTable == [bit \in 0..(LongFrame - 1) |-> OpSyndrome(FixOp({0}, bit))]

-----------------------------------------------------------------------------
(* The tables: the slots that are taken, in the one that resolves collisions *)
(* each with a mark when another of its bucket went further on               *)

Number(syndrome) == MapThenSumSet(LAMBDA i : 2^i, syndrome)
Slot(syndrome, op) == [key |-> syndrome, op |-> op, collided |-> FALSE]
Put(slots, at, slot) == (at :> slot) @@ slots

DF11 == [size |-> DF11Slots, resolveCollisions |-> FALSE]
DF17 == [size |-> DF17Slots, resolveCollisions |-> TRUE]

\* The probe that finds the syndrome, or the place where it would be; the
\* number of slots when there is neither.
Probe(table, slots, syndrome) ==
  LET At(probe) == (Number(syndrome) + probe) % table.size
      Ends(probe) == At(probe) \notin DOMAIN slots \/ slots[At(probe)].key = syndrome
  IN  CHOOSE p \in 0..table.size :
        (p = table.size \/ Ends(p)) /\ \A q \in 0..(p - 1) : ~Ends(q)

\* Without collisions to resolve, what finds its slot taken is dropped.
InsertHome(slots, home, slot) == IF home \in DOMAIN slots THEN slots ELSE Put(slots, home, slot)
InsertProbing(table, slots, home, slot) ==
  LET probe == Probe(table, slots, slot.key)
      marked == IF probe = 0 THEN slots ELSE [slots EXCEPT ![home].collided = TRUE]
      at == (home + probe) % table.size
  IN  IF probe = table.size THEN marked
      ELSE IF at \in DOMAIN slots THEN [marked EXCEPT ![at].op = slot.op]
      ELSE Put(marked, at, slot)

\* Mutant: the home slot is not marked.
InsertUnmarked(table, slots, op) ==
  LET syndrome == OpSyndrome(op)
  IN  Put(slots, (Number(syndrome) + Probe(table, slots, syndrome)) % table.size,
          Slot(syndrome, op))
Insert(table, slots, op) ==
  LET syndrome == OpSyndrome(op)
      home == Number(syndrome) % table.size
  IN  IF table.resolveCollisions THEN InsertProbing(table, slots, home, Slot(syndrome, op))
      ELSE InsertHome(slots, home, Slot(syndrome, op))

Lookup(table, slots, syndrome) ==
  LET home == Number(syndrome) % table.size
      probe == Probe(table, slots, syndrome)
      at == (home + probe) % table.size
  IN  CASE home \notin DOMAIN slots -> NoFix
        [] home \in DOMAIN slots /\ slots[home].key = syndrome -> slots[home].op
        [] home \in DOMAIN slots /\ slots[home].key # syndrome ->
             IF /\ table.resolveCollisions /\ slots[home].collided
                /\ probe < table.size /\ at \in DOMAIN slots
             THEN slots[at].op ELSE NoFix

\* A burst anywhere but in the bits of the downlink format.
Everywhere(pattern, length) ==
  [i \in 1..(Searched(length) - Max(pattern)) |-> FixOp(pattern, i - 1)]
DF11Ops == Everywhere({0}, ShortFrame) \o Everywhere({0, 1}, ShortFrame)
DF17Ops ==
  LET Of(pattern) == Everywhere(pattern, LongFrame)
  IN  Of({0}) \o Of({0, 1}) \o Of({0, 1, 2}) \o Of({0, 7}) \o Of({0, 2}) \o Of({0, 3})
      \o Of({0, 4}) \o Of({0, 5}) \o Of({0, 6})

\* The constructors of the two tables, one insertion after the other.
InsertDF11 ==
  /\ inserted < Len(DF11Ops) /\ inserted' = inserted + 1
  /\ df11ErrorTable' = Insert(DF11, df11ErrorTable, DF11Ops[inserted + 1])
  /\ UNCHANGED <<df17ErrorTable, sent, heard, crc, confidence>>
InsertDF17 ==
  LET n == inserted - Len(DF11Ops)
  IN  /\ n \in 0..(Len(DF17Ops) - 1) /\ inserted' = inserted + 1
      /\ df17ErrorTable' = Insert(DF17, df17ErrorTable, DF17Ops[n + 1])
      /\ UNCHANGED <<df11ErrorTable, sent, heard, crc, confidence>>

-----------------------------------------------------------------------------
(* ErasureRepair *)

\* The bits, the one trusted least first, and the lower of two equals.
Ordered ==
  SortSeq([i \in 1..Searched(LongFrame) |-> i - 1],
          LAMBDA a, b : confidence[a] < confidence[b] \/ (confidence[a] = confidence[b] /\ a < b))
Candidates == SubSeq(Ordered, 1, CandidateCount)

\* A column, or the syndrome, without what the pivots explain of it, from its
\* top bit on to the first bit that has no pivot.
RECURSIVE Reduced(_, _)
Reduced(pivots, r) ==
  IF r.value = {} \/ Max(r.value) \notin DOMAIN pivots THEN r
  ELSE LET pivot == pivots[Max(r.value)]
       IN  Reduced(pivots, [value |-> Xor(r.value, pivot.value), mask |-> Xor(r.mask, pivot.mask)])

WithColumn(pivots, column) ==
  LET r == Reduced(pivots, column)
  IN  IF r.value = {} THEN pivots ELSE Put(pivots, Max(r.value), r)
Pivots(candidates) ==
  FoldLeft(WithColumn, <<>>,
           [i \in DOMAIN candidates |-> [value |-> DeltaTable[candidates[i]], mask |-> {i}]])
Solve(syndrome, candidates) ==
  LET r == Reduced(Pivots(candidates), [value |-> syndrome, mask |-> {}])
  IN  IF candidates # <<>> /\ r.value = {} THEN [solved |-> TRUE, mask |-> r.mask]
      ELSE [solved |-> FALSE, mask |-> {}]

-----------------------------------------------------------------------------
(* OrbGrand: sets of ranks, by their sum, the largest rank first *)

\* The most that so many ranks below one can add.
Reachable(part, depth) ==
  MapThenSumSet(LAMBDA i : part - i, {i \in 1..(MaxFlips - depth - 1) : i < part})

\* The guesses of so much weight, with ranks up to the largest.
RECURSIVE Guesses(_, _, _)
Guesses(remaining, largest, depth) ==
  IF remaining = 0 THEN <<{}>>
  ELSE IF depth = MaxFlips THEN <<>>
  ELSE LET top == IF remaining < largest THEN remaining ELSE largest
           parts == SelectSeq([i \in 1..top |-> top + 1 - i],
                              LAMBDA part : remaining - part <= Reachable(part, depth))
           With(part) == LET rest == Guesses(remaining - part, part - 1, depth + 1)
                         IN  [i \in DOMAIN rest |-> {part} \cup rest[i]]
       IN  FlattenSeq([i \in DOMAIN parts |-> With(parts[i])])

Recurse == FlattenSeq([weight \in 1..(Ranks * MaxFlips) |-> Guesses(weight, Ranks, 0)])

\* The first guess that explains the syndrome, if the budget lets it come.
Decode(syndrome, position) ==
  LET guesses == Recurse
      budget == IF Len(guesses) < MaxGuesses THEN Len(guesses) ELSE MaxGuesses
      Flips(guess) == {position[r] : r \in guesses[guess]}
      right == {guess \in 1..budget : XorAll(DeltaTable, Flips(guess)) = syndrome}
  IN  IF syndrome = {} \/ right = {} THEN {} ELSE Flips(Min(right))

\* Bound: the first of the order, where the code gives it every bit; and equals
\* by their index, where std::sort may leave them in any order.
Order == SubSeq(Ordered, 1, Ranks)

-----------------------------------------------------------------------------
(* A frame and its noise *)

WithParity(payload) == payload \cup Compute(payload)

InitRepair ==
  /\ df11ErrorTable = <<>> /\ df17ErrorTable = <<>> /\ inserted = 0
  /\ sent = {} /\ heard = {} /\ crc = {} /\ confidence = <<>>

Arrive ==
  /\ inserted = Len(DF11Ops) + Len(DF17Ops)
  /\ confidence = <<>> /\ confidence' \in Confidences
  /\ sent' \in {WithParity(payload) : payload \in Payloads} /\ heard' = sent'
  /\ crc' = Compute(heard') /\ UNCHANGED tableVars
Damaged(flips) ==
  /\ heard' = Xor(heard, flips) /\ crc' = Compute(heard')
  /\ UNCHANGED <<tableVars, sent, confidence>>

\* Noise flips a bit, or all of a burst that the table of the frame is for.
Hit(bit) ==
  /\ confidence # <<>> /\ bit < Length(sent)
  /\ Xor(sent, heard) \subseteq HitBits \ {bit} /\ Cardinality(Xor(sent, heard)) < MaxHits
  /\ Damaged({bit})
Burst(op) ==
  /\ confidence # <<>> /\ heard = sent
  /\ op \in ToSet(IF Length(sent) = ShortFrame THEN DF11Ops ELSE DF17Ops)
  /\ Damaged({i + op.index : i \in op.pattern})
NextRepair ==
  \/ InsertDF11 \/ InsertDF17 \/ Arrive
  \/ \E bit \in HitBits : Hit(bit)
  \/ \E op \in ToSet(DF11Ops \o DF17Ops) : Burst(op)

-----------------------------------------------------------------------------
(* Properties *)

Damage == Xor(sent, heard)
BurstsOf(ops) == {{i + op.index : i \in op.pattern} : op \in ToSet(ops)}
DF11Bursts == BurstsOf(DF11Ops)
DF17Bursts == BurstsOf(DF17Ops)
Explains(flips) == XorAll(DeltaTable, flips) = crc

\* A burst the table was made for is undone, to the bit, wherever its key had
\* to move to, and none was dropped for its slot; whatever else the table mends
\* has a parity that fits, and is none of the bits that tell the kind of the
\* frame.
TablesExact ==
  LET Exact(op, bursts) ==
        /\ Damage \in bursts => Valid(op) /\ ApplyFixOp(op, heard) = sent
        /\ Valid(op) => /\ Compute(ApplyFixOp(op, heard)) = {}
                        /\ \A i \in Xor(ApplyFixOp(op, heard), heard) : i < Searched(Length(sent))
  IN  IF Length(sent) = ShortFrame THEN Exact(Lookup(DF11, df11ErrorTable, crc), DF11Bursts)
      ELSE Exact(Lookup(DF17, df17ErrorTable, crc), DF17Bursts)

\* The system has a solution just when some of the candidates explain the
\* parity, and the solution does; and when no others do, it is the damage.
SolverExact ==
  LET candidates == Candidates
      window == ToSet(candidates)
      solution == Solve(crc, candidates)
      flips == {candidates[i] : i \in solution.mask}
      explaining == {S \in SUBSET window : Explains(S)}
  IN  /\ solution.solved <=> explaining # {}
      /\ solution.solved => flips \in explaining
      /\ Damage \subseteq window /\ Cardinality(explaining) = 1 => flips = Damage

\* The guesses miss no set of ranks before they end, and take a lighter one
\* first.
GuessesInOrder ==
  LET order == Order
      flips == Decode(crc, order)
      ranks == {r \in DOMAIN order : order[r] \in flips}
      Weight(S) == MapThenSumSet(LAMBDA r : r, S)
      Sets == {S \in SUBSET (DOMAIN order) : S # {} /\ Cardinality(S) <= MaxFlips}
      explaining == {S \in Sets : Explains({order[r] : r \in S})}
      NoHeavier(S) == {T \in Sets : Weight(T) <= Weight(S)}
  IN  crc # {} =>
        IF flips = {} THEN \A S \in explaining : Cardinality(NoHeavier(S)) > MaxGuesses
        ELSE /\ ranks \in explaining
             /\ \A S \in explaining : Weight(ranks) <= Weight(S)

\* Whichever way a frame is mended, it was mended as far as parity can tell,
\* and the search found what there was to find (CRCErrorTable.hpp:28-92,
\* ErasureRepair.hpp:97-142, 171-248, DemodCore.hpp:518-560, 586-608).
RepairsExact ==
  confidence # <<>> =>
    TablesExact /\ (Length(sent) = LongFrame => SolverExact /\ GuessesInOrder)
=============================================================================
