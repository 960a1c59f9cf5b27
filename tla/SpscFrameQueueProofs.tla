------------------------ MODULE SpscFrameQueueProofs ------------------------
(***************************************************************************)
(* For every capacity, word size and set of frames: the inductive invariant *)
(* of SpscFrameQueue, the absence of a race on a slot, first-in first-out   *)
(* delivery, and the refinement of the bounded queue.                       *)
(***************************************************************************)
EXTENDS SpscFrameQueue, ModularArithmetic, SequenceTheorems, TLAPS

-----------------------------------------------------------------------------
(* Indices *)

\* The constants as the numbers the arithmetic facts ask for.
LEMMA Sizes ==
  /\ Capacity \in Nat \ {0} /\ WordSize \in Nat \ {0}
  /\ Capacity < WordSize /\ WordSize % Capacity = 0
  BY CapacityAssumption

\* The unsigned difference of two wrapped counts is their difference, as long
\* as it fits the ring.
LEMMA UsedIsDifference ==
  ASSUME NEW w \in Nat, NEW r \in Nat, r <= w, w <= r + Capacity
  PROVE  Used(w % WordSize, r % WordSize) = w - r
<1>0. w \in Int /\ r \in Int /\ WordSize \in Nat \ {0}
  BY Sizes
<1>1. ((w % WordSize) - (r % WordSize)) % WordSize = (w - r) % WordSize
  BY <1>0, ModSub, Zenon
<1>2. w - r \in 0..WordSize-1
  BY Sizes
<1>3. (w - r) % WordSize = w - r
  BY <1>2, ModSmall, Sizes
<1> QED BY <1>1, <1>3 DEF Used

\* Advancing a wrapped count wraps the advanced count.
LEMMA BumpIsSuccessor ==
  ASSUME NEW n \in Nat
  PROVE  /\ Bump(n % WordSize) = (n + 1) % WordSize
         /\ Bump(n % WordSize) \in 0..WordSize-1
<1>1. n \in Int /\ n + 1 \in Int /\ 1 \in Int /\ WordSize \in Nat \ {0}
  BY Sizes
<1>2. ((n % WordSize) + 1) % WordSize = (n + 1) % WordSize
  BY <1>1, ModAdd, Zenon
<1>3. (n + 1) % WordSize \in 0..WordSize-1
  BY <1>1, DivMod, Zenon
<1> QED BY <1>2, <1>3 DEF Bump

\* The slot of a wrapped count is the slot of the count itself.
LEMMA SlotOfCount ==
  ASSUME NEW n \in Nat
  PROVE  /\ SlotOf(n % WordSize) = n % Capacity
         /\ n % Capacity \in 0..Capacity-1
<1>1. /\ n \in Int /\ Capacity \in Nat \ {0} /\ WordSize \in Nat \ {0}
      /\ WordSize % Capacity = 0
  BY Sizes
<1>2. (n % WordSize) % Capacity = n % Capacity
  BY <1>1, ModMod, Zenon
<1>3. n % Capacity \in 0..Capacity-1
  BY <1>1, DivMod, Zenon
<1> QED BY <1>2, <1>3 DEF SlotOf

\* Two counts less than the capacity apart have different slots.
LEMMA SlotsDiffer ==
  ASSUME NEW m \in Nat, NEW n \in Nat, m < n, n < m + Capacity
  PROVE  m % Capacity # n % Capacity
<1>1. m \in Int /\ n \in Int /\ Capacity \in Nat \ {0}
  BY Sizes
<1> QED BY <1>1, ModInjective, Zenon

-----------------------------------------------------------------------------
(* The inductive invariant *)

THEOREM InitEstablishesIInv == Init => IInv
<1> SUFFICES ASSUME Init PROVE IInv
  OBVIOUS
<1>1. 0 % WordSize = 0 /\ 0 \in 0..WordSize-1
  BY Sizes, ModSmall
<1>2. Len(pushed) = 0 /\ Len(popped) = 0
  BY DEF Init
<1>3. TypeOK
  BY <1>1 DEF Init, TypeOK, Slot, Word
<1>4. IndexInv
  BY <1>1, <1>2, Sizes DEF Init, IndexInv
<1>5. ProducerInv /\ ConsumerInv
  BY DEF Init, ProducerInv, ConsumerInv
<1>6. SlotInv /\ \A i \in 1..Len(popped) : popped[i] = Whole(pushed[i])
  BY <1>2 DEF SlotInv
<1> QED BY <1>3, <1>4, <1>5, <1>6 DEF IInv

\* What IInv says of the counts, in one place.
LEMMA CountFacts ==
  ASSUME IInv
  PROVE  /\ Len(pushed) \in Nat /\ Len(popped) \in Nat
         /\ readSeen \in Nat /\ writtenSeen \in Nat
         /\ write = Len(pushed) % WordSize /\ read = Len(popped) % WordSize
         /\ readSeen <= Len(popped) /\ Len(popped) <= Len(pushed)
         /\ Len(pushed) <= readSeen + Capacity
         /\ Len(popped) <= writtenSeen /\ writtenSeen <= Len(pushed)
         /\ SlotOf(write) = Len(pushed) % Capacity
         /\ SlotOf(read) = Len(popped) % Capacity
         /\ SlotOf(write) \in 0..Capacity-1 /\ SlotOf(read) \in 0..Capacity-1
<1>1. Len(pushed) \in Nat /\ Len(popped) \in Nat
  BY DEF IInv, TypeOK
<1> QED BY <1>1, SlotOfCount DEF IInv, TypeOK, IndexInv

\* While a frame is being copied in, its slot is none of the waiting ones.
LEMMA ClaimedSlotIsFree ==
  ASSUME IInv, ppc # "idle", NEW i \in 1..Len(pushed), i > Len(popped)
  PROVE  (i - 1) % Capacity # SlotOf(write)
<1>1. Len(pushed) < readSeen + Capacity
  BY DEF IInv, ProducerInv
<1>2. i - 1 \in Nat /\ i - 1 < Len(pushed) /\ Len(pushed) < (i - 1) + Capacity
  BY <1>1, CountFacts, Sizes
<1>3. (i - 1) % Capacity # Len(pushed) % Capacity
  BY <1>2, SlotsDiffer, CountFacts
<1> QED BY <1>3, CountFacts

\* While a frame is being copied out, it lies in the slot that is read.
LEMMA ReadSlotIsNext ==
  ASSUME IInv, cpc # "idle"
  PROVE  /\ Len(popped) + 1 \in 1..Len(pushed)
         /\ frames[SlotOf(read)] = Whole(pushed[Len(popped) + 1])
<1>1. Len(popped) + 1 \in 1..Len(pushed)
  BY CountFacts DEF IInv, ConsumerInv
<1>2. ((Len(popped) + 1) - 1) % Capacity = SlotOf(read)
  BY CountFacts
<1>3. Len(popped) + 1 > Len(popped)
  BY CountFacts
<1> QED BY <1>1, <1>2, <1>3 DEF IInv, SlotInv

LEMMA PushRefusedKeepsIInv == IInv /\ PushRefused => IInv'
<1> SUFFICES ASSUME IInv, PushRefused PROVE IInv'
  OBVIOUS
<1> USE DEF PushRefused, cvars
<1>1. readSeen' \in Nat /\ readSeen <= readSeen' /\ readSeen' <= Len(popped)
  BY CountFacts
<1>2. TypeOK'
  BY <1>1 DEF IInv, TypeOK
<1>3. IndexInv'
  BY <1>1, CountFacts, Sizes DEF IndexInv
<1>4. ProducerInv' /\ ConsumerInv' /\ SlotInv'
  BY DEF IInv, ProducerInv, ConsumerInv, SlotInv
<1> QED BY <1>2, <1>3, <1>4 DEF IInv

LEMMA PushClaimKeepsIInv ==
  ASSUME NEW f \in Frame
  PROVE  IInv /\ PushClaim(f) => IInv'
<1> SUFFICES ASSUME IInv, PushClaim(f) PROVE IInv'
  OBVIOUS
<1> USE DEF PushClaim, cvars
<1>1. PICK k \in readSeen..Len(popped) :
         Used(write, LoadRead(k)) < Capacity /\ readSeen' = k
  OBVIOUS
<1>2. k \in Nat /\ readSeen <= k /\ k <= Len(popped)
  BY <1>1, CountFacts
<1>3. Used(write, LoadRead(k)) = Len(pushed) - k
  <2>1. k <= Len(pushed) /\ Len(pushed) <= k + Capacity
    BY <1>2, CountFacts, Sizes
  <2> QED BY <2>1, <1>2, CountFacts, UsedIsDifference DEF LoadRead
<1>4. Len(pushed) < readSeen' + Capacity
  BY <1>1, <1>2, <1>3, CountFacts, Sizes
<1>5. TypeOK'
  BY <1>1, <1>2 DEF IInv, TypeOK, Word
<1>6. IndexInv'
  BY <1>1, <1>2, <1>4, CountFacts, Sizes DEF IndexInv
<1>7. ProducerInv'
  BY <1>4 DEF IInv, ProducerInv
<1>8. ConsumerInv' /\ SlotInv'
  BY DEF IInv, ConsumerInv, SlotInv
<1> QED BY <1>5, <1>6, <1>7, <1>8 DEF IInv

\* Both copies into the slot leave the waiting frames alone.
LEMMA PushCopyKeepsSlots ==
  ASSUME IInv, ppc # "idle", NEW s \in Slot,
         frames' = [frames EXCEPT ![SlotOf(write)] = s],
         UNCHANGED <<pushed, popped>>
  PROVE  SlotInv'
<1> SUFFICES ASSUME NEW i \in 1..Len(pushed), i > Len(popped)
             PROVE  frames'[(i - 1) % Capacity] = Whole(pushed[i])
  BY DEF SlotInv
<1>1. (i - 1) % Capacity # SlotOf(write)
  BY ClaimedSlotIsFree
<1>2. (i - 1) % Capacity \in 0..Capacity-1
  <2>1. i - 1 \in Int /\ Capacity \in Nat \ {0}
    BY Sizes, CountFacts
  <2> QED BY <2>1, DivMod, Zenon
<1>3. frames'[(i - 1) % Capacity] = frames[(i - 1) % Capacity]
  BY <1>1, <1>2 DEF IInv, TypeOK
<1> QED BY <1>3 DEF IInv, SlotInv

LEMMA PushLowKeepsIInv == IInv /\ PushLow => IInv'
<1> SUFFICES ASSUME IInv, PushLow PROVE IInv'
  OBVIOUS
<1> USE DEF PushLow, cvars
<1> DEFINE s == [frames[SlotOf(write)] EXCEPT !.lo = pframe]
<1>1. pframe \in Word /\ s \in Slot /\ s.lo = pframe
  BY CountFacts DEF IInv, TypeOK, ProducerInv, Word, Slot
<1>2. frames' = [frames EXCEPT ![SlotOf(write)] = s]
  OBVIOUS
<1>3. frames' \in [0..Capacity-1 -> Slot] /\ frames'[SlotOf(write)] = s
  BY <1>1, <1>2, CountFacts DEF IInv, TypeOK
<1>4. SlotInv'
  BY <1>1, <1>2, PushCopyKeepsSlots
<1>5. TypeOK'
  BY <1>3 DEF IInv, TypeOK
<1>6. ProducerInv'
  BY <1>1, <1>3 DEF IInv, ProducerInv
<1>7. IndexInv' /\ ConsumerInv'
  BY DEF IInv, IndexInv, ConsumerInv
<1> QED BY <1>4, <1>5, <1>6, <1>7 DEF IInv

LEMMA PushHighKeepsIInv == IInv /\ PushHigh => IInv'
<1> SUFFICES ASSUME IInv, PushHigh PROVE IInv'
  OBVIOUS
<1> USE DEF PushHigh, cvars
<1> DEFINE s == [frames[SlotOf(write)] EXCEPT !.hi = pframe]
<1>1. pframe \in Word /\ s \in Slot /\ s.lo = pframe /\ s.hi = pframe
  BY CountFacts DEF IInv, TypeOK, ProducerInv, Word, Slot
<1>2. frames' = [frames EXCEPT ![SlotOf(write)] = s]
  OBVIOUS
<1>3. frames' \in [0..Capacity-1 -> Slot] /\ frames'[SlotOf(write)] = s
  BY <1>1, <1>2, CountFacts DEF IInv, TypeOK
<1>4. SlotInv'
  BY <1>1, <1>2, PushCopyKeepsSlots
<1>5. TypeOK'
  BY <1>3 DEF IInv, TypeOK
<1>6. ProducerInv'
  BY <1>1, <1>3 DEF IInv, ProducerInv
<1>7. IndexInv' /\ ConsumerInv'
  BY DEF IInv, IndexInv, ConsumerInv
<1> QED BY <1>4, <1>5, <1>6, <1>7 DEF IInv

LEMMA PushReleaseKeepsIInv == IInv /\ PushRelease => IInv'
<1> SUFFICES ASSUME IInv, PushRelease PROVE IInv'
  OBVIOUS
<1> USE DEF PushRelease, cvars
<1>1. /\ pframe \in Frame /\ Len(pushed) < readSeen + Capacity
      /\ frames[SlotOf(write)] = Whole(pframe)
  BY CountFacts DEF IInv, TypeOK, ProducerInv, Slot, Whole
<1>2. /\ pushed' \in Seq(Frame) /\ Len(pushed') = Len(pushed) + 1
      /\ pushed'[Len(pushed) + 1] = pframe
      /\ \A i \in 1..Len(pushed) : pushed'[i] = pushed[i]
  BY <1>1 DEF IInv, TypeOK
<1>3. TypeOK'
  BY <1>2, BumpIsSuccessor, CountFacts DEF IInv, TypeOK
<1>4. IndexInv'
  <2>1. write' = Len(pushed') % WordSize
    BY <1>2, BumpIsSuccessor, CountFacts
  <2> QED BY <2>1, <1>1, <1>2, CountFacts, Sizes DEF IndexInv
<1>5. ProducerInv'
  BY DEF ProducerInv
<1>6. ConsumerInv'
  BY <1>2, ReadSlotIsNext DEF IInv, ConsumerInv
<1>7. SlotInv'
  <2> SUFFICES ASSUME NEW i \in 1..Len(pushed) + 1, i > Len(popped)
               PROVE  frames[(i - 1) % Capacity] = Whole(pushed'[i])
    BY <1>2 DEF SlotInv
  <2>1. CASE i \in 1..Len(pushed)
    BY <2>1, <1>2 DEF IInv, SlotInv
  <2>2. CASE i = Len(pushed) + 1
    <3>1. (i - 1) % Capacity = SlotOf(write)
      BY <2>2, CountFacts
    <3> QED BY <3>1, <2>2, <1>1, <1>2
  <2> QED BY <2>1, <2>2, CountFacts
<1>8. \A i \in 1..Len(popped) : popped[i] = Whole(pushed'[i])
  BY <1>2, CountFacts DEF IInv
<1> QED BY <1>3, <1>4, <1>5, <1>6, <1>7, <1>8 DEF IInv

LEMMA PopRefusedKeepsIInv == IInv /\ PopRefused => IInv'
<1> SUFFICES ASSUME IInv, PopRefused PROVE IInv'
  OBVIOUS
<1> USE DEF PopRefused, pvars
<1>1. PICK k \in writtenSeen..Len(pushed) :
         read = LoadWrite(k) /\ writtenSeen' = k
  OBVIOUS
<1>2. k \in Nat /\ Len(popped) <= k /\ k <= Len(pushed)
  BY <1>1, CountFacts
<1>3. TypeOK'
  BY <1>1, <1>2 DEF IInv, TypeOK
<1>4. IndexInv'
  BY <1>1, <1>2, CountFacts DEF IndexInv
<1>5. ProducerInv' /\ ConsumerInv' /\ SlotInv'
  BY DEF IInv, ProducerInv, ConsumerInv, SlotInv
<1> QED BY <1>3, <1>4, <1>5 DEF IInv

LEMMA PopClaimKeepsIInv == IInv /\ PopClaim => IInv'
<1> SUFFICES ASSUME IInv, PopClaim PROVE IInv'
  OBVIOUS
<1> USE DEF PopClaim, pvars
<1>1. PICK k \in writtenSeen..Len(pushed) :
         read # LoadWrite(k) /\ writtenSeen' = k
  OBVIOUS
<1>2. k \in Nat /\ Len(popped) <= k /\ k <= Len(pushed)
  BY <1>1, CountFacts
<1>3. k # Len(popped)
  BY <1>1, CountFacts DEF LoadWrite
<1>4. Len(popped) < writtenSeen'
  BY <1>1, <1>2, <1>3, CountFacts
<1>5. TypeOK'
  BY <1>1, <1>2 DEF IInv, TypeOK
<1>6. IndexInv'
  BY <1>1, <1>2, CountFacts DEF IndexInv
<1>7. ConsumerInv'
  BY <1>4 DEF ConsumerInv
<1>8. ProducerInv' /\ SlotInv'
  BY DEF IInv, ProducerInv, SlotInv
<1> QED BY <1>5, <1>6, <1>7, <1>8 DEF IInv

LEMMA PopLowKeepsIInv == IInv /\ PopLow => IInv'
<1> SUFFICES ASSUME IInv, PopLow PROVE IInv'
  OBVIOUS
<1> USE DEF PopLow, pvars
<1>1. /\ frames[SlotOf(read)] \in Slot
      /\ frames[SlotOf(read)].lo = pushed[Len(popped) + 1]
  BY ReadSlotIsNext, CountFacts DEF IInv, TypeOK, Whole
<1>2. cframe' \in Slot /\ cframe'.lo = pushed[Len(popped) + 1]
  BY <1>1 DEF IInv, TypeOK, Slot
<1>3. TypeOK'
  BY <1>2 DEF IInv, TypeOK
<1>4. ConsumerInv'
  BY <1>2 DEF IInv, ConsumerInv
<1>5. IndexInv' /\ ProducerInv' /\ SlotInv'
  BY DEF IInv, IndexInv, ProducerInv, SlotInv
<1> QED BY <1>3, <1>4, <1>5 DEF IInv

LEMMA PopHighKeepsIInv == IInv /\ PopHigh => IInv'
<1> SUFFICES ASSUME IInv, PopHigh PROVE IInv'
  OBVIOUS
<1> USE DEF PopHigh, pvars
<1>1. /\ frames[SlotOf(read)] \in Slot
      /\ frames[SlotOf(read)].hi = pushed[Len(popped) + 1]
  BY ReadSlotIsNext, CountFacts DEF IInv, TypeOK, Whole
<1>2. /\ cframe' \in Slot /\ cframe'.lo = cframe.lo
      /\ cframe'.hi = pushed[Len(popped) + 1]
  BY <1>1 DEF IInv, TypeOK, Slot
<1>3. TypeOK'
  BY <1>2 DEF IInv, TypeOK
<1>4. ConsumerInv'
  BY <1>2 DEF IInv, ConsumerInv
<1>5. IndexInv' /\ ProducerInv' /\ SlotInv'
  BY DEF IInv, IndexInv, ProducerInv, SlotInv
<1> QED BY <1>3, <1>4, <1>5 DEF IInv

\* What tryPop hands out is the oldest frame nobody took.
LEMMA PoppedFrame ==
  ASSUME IInv, cpc = "release"
  PROVE  cframe = Whole(pushed[Len(popped) + 1])
  BY DEF IInv, ConsumerInv, TypeOK, Slot, Whole

LEMMA PopReleaseKeepsIInv == IInv /\ PopRelease => IInv'
<1> SUFFICES ASSUME IInv, PopRelease PROVE IInv'
  OBVIOUS
<1> USE DEF PopRelease, pvars
<1>1. Len(popped) < writtenSeen /\ cframe = Whole(pushed[Len(popped) + 1])
  BY PoppedFrame DEF IInv, ConsumerInv
<1>2. /\ popped' \in Seq(Slot) /\ Len(popped') = Len(popped) + 1
      /\ popped'[Len(popped) + 1] = cframe
      /\ \A i \in 1..Len(popped) : popped'[i] = popped[i]
  BY DEF IInv, TypeOK
<1>3. TypeOK'
  BY <1>2, BumpIsSuccessor, CountFacts DEF IInv, TypeOK
<1>4. IndexInv'
  <2>1. read' = Len(popped') % WordSize
    BY <1>2, BumpIsSuccessor, CountFacts
  <2>2. write' = Len(pushed') % WordSize
    BY CountFacts
  <2>3. /\ Len(popped') = Len(popped) + 1 /\ Len(pushed') = Len(pushed)
        /\ readSeen' = readSeen /\ writtenSeen' = writtenSeen
    BY <1>2
  <2>4. /\ Len(popped') <= Len(pushed') /\ readSeen' <= Len(popped')
        /\ Len(pushed') <= readSeen' + Capacity
        /\ Len(popped') <= writtenSeen' /\ writtenSeen' <= Len(pushed')
    BY <2>3, <1>1, CountFacts, Sizes
  <2> QED BY <2>1, <2>2, <2>4 DEF IndexInv
<1>5. ProducerInv'
  BY DEF IInv, ProducerInv
<1>6. ConsumerInv'
  BY DEF ConsumerInv
<1>7. SlotInv'
  BY <1>2, CountFacts DEF IInv, SlotInv
<1>8. \A i \in 1..Len(popped') : popped'[i] = Whole(pushed'[i])
  BY <1>1, <1>2, CountFacts DEF IInv
<1> QED BY <1>3, <1>4, <1>5, <1>6, <1>7, <1>8 DEF IInv

LEMMA StutterKeepsIInv == IInv /\ UNCHANGED vars => IInv'
  BY DEF vars, pvars, cvars, IInv, TypeOK, IndexInv, ProducerInv,
         ConsumerInv, SlotInv

\* The inductive invariant holds in every reachable state.
THEOREM SpscIInv == SafeSpec => []IInv
<1>1. IInv /\ [Next]_vars => IInv'
  <2> SUFFICES ASSUME IInv, [Next]_vars PROVE IInv'
    OBVIOUS
  <2>1. CASE PushRefused BY <2>1, PushRefusedKeepsIInv
  <2>2. CASE \E f \in Frame : PushClaim(f) BY <2>2, PushClaimKeepsIInv
  <2>3. CASE PushLow BY <2>3, PushLowKeepsIInv
  <2>4. CASE PushHigh BY <2>4, PushHighKeepsIInv
  <2>5. CASE PushRelease BY <2>5, PushReleaseKeepsIInv
  <2>6. CASE PopRefused BY <2>6, PopRefusedKeepsIInv
  <2>7. CASE PopClaim BY <2>7, PopClaimKeepsIInv
  <2>8. CASE PopLow BY <2>8, PopLowKeepsIInv
  <2>9. CASE PopHigh BY <2>9, PopHighKeepsIInv
  <2>10. CASE PopRelease BY <2>10, PopReleaseKeepsIInv
  <2>11. CASE UNCHANGED vars BY <2>11, StutterKeepsIInv
  <2> QED BY <2>1, <2>2, <2>3, <2>4, <2>5, <2>6, <2>7, <2>8, <2>9, <2>10,
             <2>11 DEF Next, Producer, Consumer
<1> QED BY InitEstablishesIInv, <1>1, PTL DEF SafeSpec

-----------------------------------------------------------------------------
(* What follows from it *)

\* Every variable of the queue keeps its type (tryPush and tryPop).
THEOREM SpscTypeOK == SafeSpec => []TypeOK
<1>1. IInv => TypeOK
  BY DEF IInv
<1> QED BY SpscIInv, <1>1, PTL

\* tryPush and tryPop are never inside the same slot at once.
THEOREM SpscNoSlotRace == SafeSpec => []NoSlotRace
<1>1. IInv => NoSlotRace
  <2> SUFFICES ASSUME IInv, ppc # "idle", cpc # "idle"
               PROVE  SlotOf(write) # SlotOf(read)
    BY DEF NoSlotRace
  <2> DEFINE i == Len(popped) + 1
  <2>1. i \in 1..Len(pushed) /\ i > Len(popped)
    BY ReadSlotIsNext, CountFacts
  <2>2. (i - 1) % Capacity # SlotOf(write)
    BY <2>1, ClaimedSlotIsFree
  <2>3. (i - 1) % Capacity = SlotOf(read)
    BY CountFacts
  <2> QED BY <2>2, <2>3
<1> QED BY SpscIInv, <1>1, PTL

\* What tryPop handed out is what tryPush accepted, whole and in order.
THEOREM SpscFifoOrder == SafeSpec => []FifoOrder
<1>1. IInv => FifoOrder
  BY DEF IInv, IndexInv, FifoOrder
<1> QED BY SpscIInv, <1>1, PTL

-----------------------------------------------------------------------------
(* The refinement of the bounded queue *)

WaitingIsHistory ==
  /\ Waiting \in Seq(WholeFrame)
  /\ Len(Waiting) = Len(pushed) - Len(popped)
  /\ \A i \in 1..(Len(pushed) - Len(popped)) :
       Waiting[i] = Whole(pushed[Len(popped) + i])

\* The ring between the two indices holds the frames pushed and not popped.
LEMMA WaitingFrames == IInv => WaitingIsHistory
<1> SUFFICES ASSUME IInv PROVE WaitingIsHistory
  OBVIOUS
<1> DEFINE n == Len(pushed) - Len(popped)
<1>1. n \in Nat
  BY CountFacts
<1>2. Used(write, read) = n
  <2>1. Len(pushed) <= Len(popped) + Capacity
    BY CountFacts, Sizes
  <2> QED BY <2>1, CountFacts, UsedIsDifference
<1>3. ASSUME NEW i \in 1..n
      PROVE  frames[SlotOf((read + i - 1) % WordSize)]
               = Whole(pushed[Len(popped) + i])
  <2> DEFINE k == Len(popped) + i
  <2>1. k \in 1..Len(pushed) /\ k > Len(popped) /\ k - 1 \in Nat
    BY CountFacts
  <2>2. (read + i - 1) % WordSize = (k - 1) % WordSize
    <3>1. /\ Len(popped) \in Int /\ i - 1 \in Int /\ WordSize \in Nat \ {0}
          /\ read = Len(popped) % WordSize /\ read \in Int
      BY CountFacts, Sizes DEF IInv, TypeOK
    <3>2. ((Len(popped) % WordSize) + (i - 1)) % WordSize
            = (Len(popped) + (i - 1)) % WordSize
      BY <3>1, ModAdd, Zenon
    <3>3. read + i - 1 = read + (i - 1) /\ k - 1 = Len(popped) + (i - 1)
      BY <3>1
    <3> QED BY <3>1, <3>2, <3>3
  <2>3. SlotOf((k - 1) % WordSize) = (k - 1) % Capacity
    BY <2>1, SlotOfCount
  <2>4. frames[(k - 1) % Capacity] = Whole(pushed[k])
    BY <2>1 DEF IInv, SlotInv
  <2> QED BY <2>2, <2>3, <2>4
<1>4. Waiting = [i \in 1..n |-> Whole(pushed[Len(popped) + i])]
  BY <1>2, <1>3 DEF Waiting
<1>5. \A i \in 1..n : Whole(pushed[Len(popped) + i]) \in WholeFrame
  <2> TAKE i \in 1..n
  <2>1. Len(popped) + i \in 1..Len(pushed)
    BY CountFacts
  <2>2. pushed[Len(popped) + i] \in Frame
    BY <2>1 DEF IInv, TypeOK
  <2> QED BY <2>2 DEF WholeFrame
<1>6. Waiting \in Seq(WholeFrame) /\ Len(Waiting) = n
  BY <1>1, <1>4, <1>5
<1> QED BY <1>4, <1>6 DEF WaitingIsHistory

LEMMA WaitingFramesNext == IInv' => WaitingIsHistory'
  BY WaitingFrames, PTL

\* A step that neither releases a push nor a pop is invisible.
LEMMA InvisibleStep ==
  ASSUME IInv, IInv', UNCHANGED <<pushed, popped>>
  PROVE  UNCHANGED Fifo!vars
<1>1. /\ Waiting \in Seq(WholeFrame) /\ Waiting' \in Seq(WholeFrame)
      /\ Len(Waiting) = Len(Waiting')
      /\ \A i \in 1..Len(Waiting) : Waiting[i] = Waiting'[i]
  BY WaitingFrames, WaitingFramesNext DEF WaitingIsHistory
<1>2. Waiting = Waiting'
  BY <1>1, SeqEqual, Zenon
<1> QED BY <1>2 DEF Fifo!vars

\* Releasing a push appends the frame to the waiting ones.
LEMMA PushReleaseIsPush ==
  ASSUME IInv, IInv', PushRelease
  PROVE  Fifo!Push(Whole(pframe)) /\ Whole(pframe) \in WholeFrame
<1> USE DEF PushRelease, cvars
<1>1. pframe \in Frame /\ Len(pushed) < readSeen + Capacity
  BY DEF IInv, ProducerInv
<1>2. /\ Len(pushed') = Len(pushed) + 1 /\ pushed'[Len(pushed) + 1] = pframe
      /\ \A i \in 1..Len(pushed) : pushed'[i] = pushed[i]
  BY <1>1 DEF IInv, TypeOK
<1> DEFINE n == Len(pushed) - Len(popped)
           longer == Append(Waiting, Whole(pframe))
<1>3. n \in Nat /\ n < Capacity
  BY <1>1, CountFacts, Sizes
<1>4. Whole(pframe) \in WholeFrame
  BY <1>1 DEF WholeFrame
<1>5. /\ Waiting \in Seq(WholeFrame) /\ Len(Waiting) = n
      /\ \A i \in 1..n : Waiting[i] = Whole(pushed[Len(popped) + i])
  BY WaitingFrames DEF WaitingIsHistory
<1>6. /\ longer \in Seq(WholeFrame) /\ Len(longer) = n + 1
      /\ longer[n + 1] = Whole(pframe)
      /\ \A i \in 1..n : longer[i] = Waiting[i]
  BY <1>3, <1>4, <1>5
<1>7. /\ Waiting' \in Seq(WholeFrame) /\ Len(Waiting') = n + 1
      /\ \A i \in 1..n + 1 : Waiting'[i] = Whole(pushed'[Len(popped) + i])
  <2>1. Len(pushed') - Len(popped') = n + 1
    BY <1>2, CountFacts
  <2> QED BY <2>1, WaitingFramesNext DEF WaitingIsHistory
<1>8. ASSUME NEW i \in 1..n + 1
      PROVE  Waiting'[i] = longer[i]
  <2>1. CASE i = n + 1
    <3>1. Len(popped) + i = Len(pushed) + 1
      BY <2>1, CountFacts
    <3> QED BY <2>1, <3>1, <1>2, <1>6, <1>7
  <2>2. CASE i \in 1..n
    <3>1. Len(popped) + i \in 1..Len(pushed)
      BY <2>2, CountFacts
    <3> QED BY <2>2, <3>1, <1>2, <1>5, <1>6, <1>7
  <2>3. i = n + 1 \/ i \in 1..n
    <3> HIDE DEF n
    <3> QED BY <1>3
  <2> QED BY <2>1, <2>2, <2>3
<1> HIDE DEF longer
<1>9. Waiting' = longer
  <2>1. \A i \in 1..Len(Waiting') : Waiting'[i] = longer[i]
    BY <1>7, <1>8
  <2>2. Len(Waiting') = Len(longer)
    BY <1>6, <1>7
  <2> QED BY <2>1, <2>2, <1>6, <1>7, SeqEqual, Zenon
<1> QED BY <1>3, <1>4, <1>5, <1>9 DEF Fifo!Push, longer

\* Releasing a pop takes the oldest waiting frame.
LEMMA PopReleaseIsPop ==
  ASSUME IInv, IInv', PopRelease
  PROVE  Fifo!Pop
<1> USE DEF PopRelease, pvars
<1>1. Len(popped) < writtenSeen /\ cframe = Whole(pushed[Len(popped) + 1])
  BY PoppedFrame DEF IInv, ConsumerInv
<1>2. Len(popped') = Len(popped) + 1
  BY DEF IInv, TypeOK
<1> DEFINE n == Len(pushed) - Len(popped)
<1>3. n \in Nat \ {0}
  BY <1>1, CountFacts
<1>4. /\ Waiting \in Seq(WholeFrame) /\ Len(Waiting) = n
      /\ \A i \in 1..n : Waiting[i] = Whole(pushed[Len(popped) + i])
  BY WaitingFrames DEF WaitingIsHistory
<1>5. Waiting # <<>> /\ Head(Waiting) = cframe
  <2>1. Waiting # <<>> /\ Waiting[1] = cframe
    BY <1>1, <1>3, <1>4
  <2> QED BY <2>1, <1>4
<1>6. /\ Tail(Waiting) \in Seq(WholeFrame) /\ Len(Tail(Waiting)) = n - 1
      /\ \A i \in 1..n - 1 : Tail(Waiting)[i] = Waiting[i + 1]
  <2>1. /\ Tail(Waiting) \in Seq(WholeFrame)
        /\ Len(Tail(Waiting)) = Len(Waiting) - 1
        /\ \A i \in 1..Len(Tail(Waiting)) : Tail(Waiting)[i] = Waiting[i + 1]
    BY <1>4, <1>5, HeadTailProperties, Zenon
  <2> QED BY <2>1, <1>4
<1>7. /\ Waiting' \in Seq(WholeFrame) /\ Len(Waiting') = n - 1
      /\ \A i \in 1..n - 1 :
           Waiting'[i] = Whole(pushed[(Len(popped) + 1) + i])
  <2>1. Len(pushed') - Len(popped') = n - 1
    BY <1>2, CountFacts
  <2> QED BY <2>1, <1>2, WaitingFramesNext DEF WaitingIsHistory
<1>8. \A i \in 1..n - 1 : Waiting'[i] = Tail(Waiting)[i]
  <2> TAKE i \in 1..n - 1
  <2>1. (Len(popped) + 1) + i = Len(popped) + (i + 1) /\ i + 1 \in 1..n
    BY CountFacts
  <2> QED BY <2>1, <1>4, <1>6, <1>7
<1>9. Waiting' = Tail(Waiting)
  <2>1. \A i \in 1..Len(Waiting') : Waiting'[i] = Tail(Waiting)[i]
    BY <1>7, <1>8
  <2>2. Len(Waiting') = Len(Tail(Waiting))
    BY <1>6, <1>7
  <2> QED BY <2>1, <2>2, <1>6, <1>7, SeqEqual, Zenon
<1> QED BY <1>5, <1>9 DEF Fifo!Pop

\* The lock-free ring implements the bounded queue.
THEOREM SpscImplementsFifo == SafeSpec => ImplementsFifoSafety
<1>1. Init => Fifo!Init
  <2> SUFFICES ASSUME Init PROVE Waiting = <<>> /\ popped = <<>>
    BY DEF Fifo!Init
  <2>1. IInv /\ Len(pushed) - Len(popped) = 0
    BY InitEstablishesIInv DEF Init
  <2> QED BY <2>1, WaitingFrames DEF Init, WaitingIsHistory
<1>2. IInv /\ IInv' /\ [Next]_vars => [Fifo!Next]_(Fifo!vars)
  <2> SUFFICES ASSUME IInv, IInv', [Next]_vars
               PROVE  Fifo!Next \/ UNCHANGED Fifo!vars
    OBVIOUS
  <2>1. CASE PushRelease
    BY <2>1, PushReleaseIsPush DEF Fifo!Next
  <2>2. CASE PopRelease
    BY <2>2, PopReleaseIsPop DEF Fifo!Next
  <2>3. CASE \/ PushRefused \/ PushLow \/ PushHigh
             \/ \E f \in Frame : PushClaim(f)
    <3>1. UNCHANGED <<pushed, popped>>
      BY <2>3 DEF PushRefused, PushLow, PushHigh, PushClaim, cvars
    <3> QED BY <3>1, InvisibleStep
  <2>4. CASE PopRefused \/ PopClaim \/ PopLow \/ PopHigh
    <3>1. UNCHANGED <<pushed, popped>>
      BY <2>4 DEF PopRefused, PopClaim, PopLow, PopHigh, pvars
    <3> QED BY <3>1, InvisibleStep
  <2>5. CASE UNCHANGED vars
    <3>1. UNCHANGED <<pushed, popped>>
      BY <2>5 DEF vars, pvars, cvars
    <3> QED BY <3>1, InvisibleStep
  <2> QED BY <2>1, <2>2, <2>3, <2>4, <2>5 DEF Next, Producer, Consumer
<1> QED BY SpscIInv, <1>1, <1>2, PTL
        DEF SafeSpec, ImplementsFifoSafety, Fifo!SafeSpec
=============================================================================
