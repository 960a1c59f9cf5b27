------------------------ MODULE RingBufferAsyncProofs ------------------------
(***************************************************************************)
(* For every block size, number of blocks and set of write lengths: types,  *)
(* the writer never overwrites an unread block, and the wake-up discipline  *)
(* of the one condition variable.                                           *)
(***************************************************************************)
EXTENDS RingBufferAsync, ModularArithmetic, SequenceTheorems, TLAPS

-----------------------------------------------------------------------------
(* Arithmetic of the ring *)

\* The sizes as the numbers the arithmetic facts ask for.
LEMMA Sizes ==
  /\ BlockSize \in Nat \ {0} /\ NumBlocks \in Nat \ {0} /\ Size \in Nat \ {0}
  /\ Chunk \subseteq Nat \ {0}
  BY SizeAssumption DEF Size

\* The block and the offset of the index n elements further on.
LEMMA Advance ==
  ASSUME NEW p \in 0..Size-1, NEW n \in Nat
  PROVE  /\ (p + n) % Size \in 0..Size-1
         /\ ((p + n) % Size) \div BlockSize =
              ((p \div BlockSize) + (((p % BlockSize) + n) \div BlockSize))
                % NumBlocks
         /\ ((p + n) % Size) % BlockSize = ((p % BlockSize) + n) % BlockSize
<1>1. p \in Nat /\ p + n \in Nat /\ p + n \in Int
  BY Sizes
<1>2. (p + n) % Size \in 0..Size-1
  BY <1>1, Sizes, DivMod, Zenon
<1>3. /\ ((p + n) % Size) \div BlockSize = ((p + n) \div BlockSize) % NumBlocks
      /\ ((p + n) % Size) % BlockSize = (p + n) % BlockSize
  BY <1>1, Sizes, DivWrap, Zenon DEF Size
<1>4. /\ (p + n) \div BlockSize
           = (p \div BlockSize) + (((p % BlockSize) + n) \div BlockSize)
      /\ (p + n) % BlockSize = ((p % BlockSize) + n) % BlockSize
  BY <1>1, Sizes, DivAdvance, Zenon
<1> QED BY <1>2, <1>3, <1>4

\* A count of elements that fits k blocks completes at most k of them.
LEMMA DivBound ==
  ASSUME NEW x \in Nat, NEW b \in Nat \ {0}, NEW k \in Nat, x <= k * b
  PROVE  x \div b \in 0..k /\ (x < k * b => x \div b < k)
<1> DEFINE q == x \div b
           r == x % b
<1>1. q \in Int /\ r \in 0..b-1 /\ x = b * q + r
  BY DivMod
<1> HIDE DEF q, r
<1>2. q >= 0
  <2> SUFFICES ASSUME q <= -1 PROVE FALSE
    BY <1>1
  <2>1. b * q <= -b
    BY <1>1
  <2> QED BY <2>1, <1>1
<1>3. q <= k
  <2> SUFFICES ASSUME q >= k + 1 PROVE FALSE
    BY <1>1
  <2>1. b * q >= b * k + b
    BY <1>1
  <2>2. b * k = k * b
    OBVIOUS
  <2> QED BY <2>1, <2>2, <1>1
<1>4. x < k * b => q < k
  <2> SUFFICES ASSUME x < k * b, q = k PROVE FALSE
    BY <1>1, <1>3
  <2>1. b * q = k * b
    OBVIOUS
  <2> QED BY <2>1, <1>1
<1> QED BY <1>1, <1>2, <1>3, <1>4 DEF q

-----------------------------------------------------------------------------
(* The inductive invariant *)

THEOREM RingInit == Init => IInv
<1> SUFFICES ASSUME Init PROVE IInv
  OBVIOUS
<1>1. /\ 0 \in 0..Size-1 /\ 0 \in 0..BlockSize-1 /\ 0 \in 0..NumBlocks-1
      /\ 0 % BlockSize = 0 /\ 0 % NumBlocks = 0
  BY Sizes, ModSmall
<1>2. 0 \div BlockSize = 0
  BY <1>1, Sizes, DivUnique
<1>3. TypeOK
  BY <1>1, Sizes DEF Init, TypeOK
<1>4. CountInv
  <2>1. (0 + 0) * BlockSize = 0
    BY Sizes
  <2> QED BY <2>1, <1>1, Sizes DEF Init, CountInv, Pending, BlockOffset
<1>5. PositionInv
  BY <1>1, <1>2 DEF Init, PositionInv, Unread, Pending
<1> QED BY <1>3, <1>4, <1>5 DEF IInv

\* The numbers of the inductive invariant, with their types.
LEMMA Numbers ==
  ASSUME IInv
  PROVE  /\ numFullBlocks \in Nat /\ wFull \in Nat /\ newBlocks \in Nat
         /\ writePos \in Nat /\ remaining \in Nat /\ rFull \in Nat
         /\ next \in Nat \ {0} /\ readBlock \in Nat /\ Pending \in Nat
         /\ BlockOffset \in 0..BlockSize-1 /\ BlockOffset \in Nat
         /\ Unread \in Nat /\ Unread <= numFullBlocks
         /\ writePos \div BlockSize \in Int
         /\ wFull * BlockSize \in Nat
<1>1. /\ numFullBlocks \in Nat /\ wFull \in Nat /\ newBlocks \in Nat
      /\ writePos \in Nat /\ remaining \in Nat /\ rFull \in Nat
      /\ next \in Nat \ {0} /\ readBlock \in Nat
  BY Sizes DEF IInv, TypeOK
<1>2. Pending \in Nat
  BY <1>1 DEF Pending
<1>3. BlockOffset \in 0..BlockSize-1 /\ writePos \div BlockSize \in Int
  BY <1>1, Sizes, DivMod DEF BlockOffset
<1>4. Unread \in Nat /\ Unread <= numFullBlocks
  BY <1>1 DEF IInv, CountInv, Unread
<1>5. wFull * BlockSize \in Nat
  BY <1>1, Sizes
<1> QED BY <1>1, <1>2, <1>3, <1>4, <1>5

\* Outside a commit the writer's stale count leaves no negative free space.
LEMMA SpaceFacts ==
  ASSUME IInv, wpc # "commit"
  PROVE  /\ UsedElems \in Nat /\ UsedElems <= Size
         /\ FreeElems \in Nat /\ NumToWrite \in Nat
         /\ NumToWrite <= FreeElems /\ NumToWrite <= remaining
<1>1. (wFull + 0) * BlockSize = wFull * BlockSize
  BY Numbers
<1>2. UsedElems \in Nat /\ UsedElems <= Size
  BY <1>1, Numbers, Sizes DEF IInv, CountInv, Pending, UsedElems
<1>3. FreeElems \in Nat
  BY <1>2, Sizes DEF FreeElems
<1> QED BY <1>2, <1>3, Numbers DEF NumToWrite, Lesser

\* What a copy does to the position and to the number of completed blocks.
LEMMA CopyFacts ==
  ASSUME IInv, wpc # "commit"
  PROVE  LET n == NumToWrite
             done == (BlockOffset + n) \div BlockSize
             pos == (writePos + n) % Size
         IN  /\ done \in 0..NumBlocks - wFull
             /\ pos \in 0..Size-1
             /\ pos \div BlockSize = ((writePos \div BlockSize) + done) % NumBlocks
             /\ (wFull + done) * BlockSize + (pos % BlockSize) <= Size
<1> DEFINE n == NumToWrite
           done == (BlockOffset + n) \div BlockSize
           pos == (writePos + n) % Size
           x == BlockOffset + n
<1>1. n \in Nat /\ n <= FreeElems
  BY SpaceFacts
<1>2. x \in Nat /\ x <= (NumBlocks - wFull) * BlockSize
  <2>1. (NumBlocks - wFull) * BlockSize = Size - wFull * BlockSize
    BY Numbers, Sizes DEF Size
  <2> QED BY <2>1, <1>1, SpaceFacts, Numbers, Sizes DEF FreeElems, UsedElems
<1>3. NumBlocks - wFull \in Nat
  BY Sizes DEF IInv, TypeOK
<1>4. done \in 0..NumBlocks - wFull
  <2> HIDE DEF x
  <2>1. x \div BlockSize \in 0..NumBlocks - wFull
    BY <1>2, <1>3, Sizes, DivBound
  <2> QED BY <2>1 DEF x
<1>5. /\ pos \in 0..Size-1
      /\ pos \div BlockSize = ((writePos \div BlockSize) + done) % NumBlocks
      /\ pos % BlockSize = x % BlockSize
  <2>1. writePos \in 0..Size-1
    BY DEF IInv, TypeOK
  <2> QED BY <2>1, <1>1, Advance DEF BlockOffset
<1>6. x = BlockSize * done + (x % BlockSize) /\ x % BlockSize \in Int
  <2>1. x \in Int
    BY <1>2
  <2> HIDE DEF x
  <2>2. x = BlockSize * (x \div BlockSize) + (x % BlockSize) /\ x % BlockSize \in Int
    BY <2>1, Sizes, DivMod
  <2> QED BY <2>2 DEF x
<1>7. (wFull + done) * BlockSize + (pos % BlockSize) <= Size
  <2>1. done \in Nat
    BY <1>4
  <2>2. (NumBlocks - wFull) * BlockSize = Size - wFull * BlockSize
    BY Numbers, Sizes DEF Size
  <2> HIDE DEF done, x, pos
  <2>3. (wFull + done) * BlockSize = wFull * BlockSize + BlockSize * done
    BY <2>1, Numbers, Sizes
  <2> QED BY <2>1, <2>2, <2>3, <1>2, <1>5, <1>6, Numbers, Sizes
<1> QED BY <1>4, <1>5, <1>7

\* Steps that leave the counts and the positions alone.
LEMMA CountsUnchanged ==
  ASSUME IInv, TypeOK',
         UNCHANGED <<numFullBlocks, wFull, newBlocks, writePos, readBlock>>,
         wpc' = "commit" <=> wpc = "commit",
         rpc' = "consume" <=> rpc = "consume",
         rpc' = "process" => numFullBlocks > 0,
         rFull' <= numFullBlocks \/ rpc' = "consume"
  PROVE  IInv'
<1>1. Pending' = Pending /\ BlockOffset' = BlockOffset /\ Unread' = Unread
  BY DEF Pending, BlockOffset, Unread
<1>2. CountInv'
  BY <1>1 DEF IInv, CountInv
<1>3. PositionInv'
  BY <1>1 DEF IInv, PositionInv
<1> QED BY <1>2, <1>3 DEF IInv

LEMMA WriteCallKeepsIInv ==
  ASSUME NEW n \in Chunk
  PROVE  IInv /\ WriteCall(n) => IInv'
<1> SUFFICES ASSUME IInv, WriteCall(n) PROVE IInv'
  OBVIOUS
<1> USE DEF WriteCall, shared, rvars
<1>1. TypeOK'
  BY Sizes DEF IInv, TypeOK
<1>2. rpc' = "process" => numFullBlocks > 0
  BY DEF IInv, CountInv
<1>3. rFull' <= numFullBlocks \/ rpc' = "consume"
  BY DEF IInv, CountInv
<1> QED BY <1>1, <1>2, <1>3, CountsUnchanged

LEMMA WriteCopyKeepsIInv == IInv /\ WriteCopy => IInv'
<1> SUFFICES ASSUME IInv, WriteCopy PROVE IInv'
  OBVIOUS
<1> USE DEF WriteCopy, Running, shared, rvars
<1> DEFINE done == (BlockOffset + NumToWrite) \div BlockSize
           pos == (writePos + NumToWrite) % Size
<1>1. /\ done \in 0..NumBlocks - wFull /\ pos \in 0..Size-1
      /\ pos \div BlockSize = ((writePos \div BlockSize) + done) % NumBlocks
      /\ (wFull + done) * BlockSize + (pos % BlockSize) <= Size
  BY CopyFacts
<1>2. /\ newBlocks' = done /\ writePos' = pos
      /\ next' = next + NumToWrite /\ remaining' = remaining - NumToWrite
      /\ wpc' = IF newBlocks' > 0 THEN "commit" ELSE "run"
      /\ wpc = "run" /\ UNCHANGED <<wFull, numFullBlocks, readBlock, rpc, rFull>>
  OBVIOUS
<1>3. NumToWrite \in Nat /\ NumToWrite <= remaining
  BY SpaceFacts
<1>4. data' \in [0..Size-1 -> Nat]
  <2>1. ASSUME NEW i \in 0..Size-1
        PROVE  (IF CopyRank(i) < NumToWrite THEN next + CopyRank(i)
                ELSE data[i]) \in Nat
    <3>1. i - writePos \in Int
      BY Numbers
    <3>2. (i - writePos) % Size \in 0..Size-1
      BY <3>1, Sizes, DivMod, Zenon
    <3>3. CopyRank(i) \in Nat
      BY <3>2, Sizes DEF CopyRank
    <3>4. data[i] \in Nat /\ next \in Nat
      BY DEF IInv, TypeOK
    <3> QED BY <3>3, <3>4
  <2> QED BY <2>1, Zenon
<1>5. UNCHANGED <<shutdown, asleep, closer, taken, dropped>>
  OBVIOUS
<1> HIDE DEF done, pos, WriteCopy
<1>6. Pending = 0 /\ Pending' = done /\ Unread' = Unread
  BY <1>1, <1>2, Numbers DEF Pending, Unread
<1>7. TypeOK'
  <2>1. newBlocks' \in 0..NumBlocks /\ writePos' \in 0..Size-1
    BY <1>1, <1>2, Numbers, Sizes
  <2>2. next' \in Nat \ {0} /\ remaining' \in Nat
    BY <1>2, <1>3, Numbers
  <2>3. wpc' \in {"run", "wait", "commit", "notify"}
    BY <1>2
  <2> QED BY <1>2, <1>4, <1>5, <2>1, <2>2, <2>3 DEF IInv, TypeOK
<1>8. CountInv'
  BY <1>1, <1>2, <1>6 DEF IInv, CountInv, BlockOffset
<1>9. PositionInv'
  <2> DEFINE base == readBlock + Unread
  <2>1. base \in Int /\ done \in Int /\ NumBlocks \in Nat \ {0}
    BY <1>1, Numbers, Sizes
  <2>2. /\ readBlock + Unread + Pending = base
        /\ readBlock' + Unread' + Pending' = base + done
    BY <1>2, <1>6, Numbers
  <2> HIDE DEF base
  <2>3. ((base % NumBlocks) + done) % NumBlocks = (base + done) % NumBlocks
    BY <2>1, ModAdd, Zenon
  <2>4. writePos \div BlockSize = base % NumBlocks
    BY <2>2 DEF IInv, PositionInv
  <2> QED BY <1>1, <1>2, <2>2, <2>3, <2>4 DEF PositionInv
<1> QED BY <1>7, <1>8, <1>9 DEF IInv

LEMMA WriteCommitKeepsIInv == IInv /\ WriteCommit => IInv'
<1> SUFFICES ASSUME IInv, WriteCommit PROVE IInv'
  OBVIOUS
<1> USE DEF WriteCommit, rvars
<1>1. Pending = newBlocks /\ Pending' = 0 /\ BlockOffset' = BlockOffset
  BY DEF Pending, BlockOffset
<1>2. Unread' = Unread + newBlocks
  BY Numbers DEF Unread
<1>3. /\ (numFullBlocks + newBlocks) * BlockSize + BlockOffset <= Size
      /\ numFullBlocks + newBlocks <= NumBlocks
  <2>1. numFullBlocks + newBlocks <= wFull + newBlocks
    BY Numbers DEF IInv, CountInv
  <2>2. (numFullBlocks + newBlocks) * BlockSize <= (wFull + newBlocks) * BlockSize
    <3>1. (wFull - numFullBlocks) * BlockSize >= 0
      BY Numbers, Sizes DEF IInv, CountInv
    <3>2. (wFull + newBlocks) * BlockSize
            = (numFullBlocks + newBlocks) * BlockSize
                + (wFull - numFullBlocks) * BlockSize
      BY Numbers, Sizes
    <3> QED BY <3>1, <3>2, Numbers, Sizes
  <2>3. (wFull + newBlocks) * BlockSize + BlockOffset <= Size
    BY <1>1 DEF IInv, CountInv
  <2>4. (numFullBlocks + newBlocks) * BlockSize + BlockOffset <= Size
    BY <2>2, <2>3, Numbers, Sizes
  <2>5. numFullBlocks + newBlocks <= NumBlocks
    <3> SUFFICES ASSUME numFullBlocks + newBlocks >= NumBlocks + 1 PROVE FALSE
      BY Numbers, Sizes
    <3>1. (numFullBlocks + newBlocks - NumBlocks - 1) * BlockSize >= 0
      BY Numbers, Sizes
    <3>2. (numFullBlocks + newBlocks) * BlockSize
            = Size + BlockSize
                + (numFullBlocks + newBlocks - NumBlocks - 1) * BlockSize
      BY Numbers, Sizes DEF Size
    <3> QED BY <3>1, <3>2, <2>4, Numbers, Sizes
  <2> QED BY <2>4, <2>5
<1>4. TypeOK'
  BY <1>3, Numbers, Sizes DEF IInv, TypeOK
<1>5. CountInv'
  BY <1>1, <1>3, Numbers, Sizes DEF IInv, CountInv
<1>6. PositionInv'
  BY <1>1, <1>2, Numbers DEF IInv, PositionInv
<1> QED BY <1>4, <1>5, <1>6 DEF IInv

LEMMA WriteNotifyKeepsIInv == IInv /\ WriteNotify => IInv'
<1> SUFFICES ASSUME IInv, WriteNotify PROVE IInv'
  OBVIOUS
<1> USE DEF WriteNotify, shared, rvars
<1>1. Pending' = Pending /\ BlockOffset' = BlockOffset /\ Unread' = Unread
  BY DEF Pending, BlockOffset, Unread
<1>2. asleep' \subseteq {"writer", "reader"}
  BY DEF NotifyOne, IInv, TypeOK
<1>3. TypeOK'
  BY <1>2, Sizes DEF IInv, TypeOK
<1>4. CountInv' /\ PositionInv'
  BY <1>1 DEF IInv, CountInv, PositionInv
<1> QED BY <1>3, <1>4 DEF IInv

LEMMA WriteSleepKeepsIInv == IInv /\ WriteSleep => IInv'
<1> SUFFICES ASSUME IInv, WriteSleep PROVE IInv'
  OBVIOUS
<1> USE DEF WriteSleep, AtSpaceTest, Running, shared, rvars
<1>1. TypeOK'
  BY DEF IInv, TypeOK
<1>2. rpc' = "process" => numFullBlocks > 0
  BY DEF IInv, CountInv
<1>3. rFull' <= numFullBlocks \/ rpc' = "consume"
  BY DEF IInv, CountInv
<1> QED BY <1>1, <1>2, <1>3, CountsUnchanged

\* A writer that is not committing learns the present count of full blocks.
LEMMA WriteSpaceFoundKeepsIInv == IInv /\ WriteSpaceFound => IInv'
<1> SUFFICES ASSUME IInv, WriteSpaceFound PROVE IInv'
  OBVIOUS
<1> USE DEF WriteSpaceFound, AtSpaceTest, Running, shared, rvars
<1>1. /\ Pending = 0 /\ Pending' = 0 /\ BlockOffset' = BlockOffset
      /\ Unread' = Unread
  BY DEF Pending, BlockOffset, Unread
<1>2. numFullBlocks * BlockSize + BlockOffset <= Size
  <2>1. (wFull + 0) * BlockSize + BlockOffset <= Size
    BY <1>1 DEF IInv, CountInv
  <2>2. (wFull - numFullBlocks) * BlockSize >= 0
    BY Numbers, Sizes DEF IInv, CountInv
  <2>3. (wFull + 0) * BlockSize
          = numFullBlocks * BlockSize + (wFull - numFullBlocks) * BlockSize
    BY Numbers, Sizes
  <2> QED BY <2>1, <2>2, <2>3, Numbers, Sizes
<1>3. TypeOK'
  BY DEF IInv, TypeOK
<1>4. CountInv'
  BY <1>1, <1>2, Numbers, Sizes DEF IInv, CountInv
<1>5. PositionInv'
  BY <1>1 DEF IInv, PositionInv
<1> QED BY <1>3, <1>4, <1>5 DEF IInv

LEMMA WriteBailOutKeepsIInv == IInv /\ WriteBailOut => IInv'
<1> SUFFICES ASSUME IInv, WriteBailOut PROVE IInv'
  OBVIOUS
<1> USE DEF WriteBailOut, AtSpaceTest, Running, shared, rvars
<1>1. TypeOK'
  BY Numbers DEF IInv, TypeOK
<1>2. rpc' = "process" => numFullBlocks > 0
  BY DEF IInv, CountInv
<1>3. rFull' <= numFullBlocks \/ rpc' = "consume"
  BY DEF IInv, CountInv
<1> QED BY <1>1, <1>2, <1>3, CountsUnchanged

LEMMA EofKeepsIInv == IInv /\ (EofKnownFull \/ EofSleep \/ EofAnswer) => IInv'
<1> SUFFICES ASSUME IInv, EofKnownFull \/ EofSleep \/ EofAnswer PROVE IInv'
  OBVIOUS
<1> USE DEF EofKnownFull, EofSleep, EofAnswer, AtBlockTest, shared, wvars
<1>1. TypeOK'
  BY Sizes DEF IInv, TypeOK
<1>2. rpc' = "process" => numFullBlocks > 0
  BY Numbers DEF IInv, CountInv
<1>3. rFull' <= numFullBlocks \/ rpc' = "consume"
  BY Numbers DEF IInv, CountInv
<1> QED BY <1>1, <1>2, <1>3, CountsUnchanged

LEMMA BlockElements ==
  ASSUME NEW b \in 0..NumBlocks-1, NEW i \in 1..BlockSize
  PROVE  b * BlockSize + i - 1 \in 0..Size-1
<1>1. b * BlockSize \in Nat /\ (NumBlocks - 1 - b) * BlockSize >= 0
  BY Sizes
<1>2. Size = b * BlockSize + BlockSize + (NumBlocks - 1 - b) * BlockSize
  BY Sizes DEF Size
<1> QED BY <1>1, <1>2, Sizes

LEMMA ProcessKeepsIInv == IInv /\ Process => IInv'
<1> SUFFICES ASSUME IInv, Process PROVE IInv'
  OBVIOUS
<1> USE DEF Process, shared, wvars
<1>1. readBlock + 1 \in Int /\ NumBlocks \in Nat \ {0}
  BY Numbers, Sizes
<1>2. readBlock' \in 0..NumBlocks-1
  BY <1>1, DivMod, Zenon
<1>3. TypeOK'
  <2>1. BlockAt(readBlock) \in [1..BlockSize -> Nat]
    BY BlockElements DEF IInv, TypeOK, BlockAt
  <2>2. taken' \in Seq([1..BlockSize -> Nat])
    BY <2>1 DEF IInv, TypeOK
  <2> QED BY <1>2, <2>2 DEF IInv, TypeOK
<1>4. /\ numFullBlocks > 0 /\ Unread = numFullBlocks /\ Unread' = Unread - 1
      /\ Pending' = Pending /\ BlockOffset' = BlockOffset
  BY Numbers DEF IInv, CountInv, Unread, Pending, BlockOffset
<1>5. CountInv'
  BY <1>4 DEF IInv, CountInv
<1>6. PositionInv'
  <2> DEFINE rest == Unread - 1 + Pending
  <2>1. rest \in Int
    BY Numbers
  <2> HIDE DEF rest
  <2>2. (((readBlock + 1) % NumBlocks) + rest) % NumBlocks
          = ((readBlock + 1) + rest) % NumBlocks
    BY <1>1, <2>1, ModAdd, Zenon
  <2>3. (readBlock + 1) + rest = readBlock + Unread + Pending
    BY Numbers DEF rest
  <2>4. readBlock' + Unread' + Pending' = ((readBlock + 1) % NumBlocks) + rest
    BY <1>2, <1>4, Numbers, Sizes DEF rest
  <2>5. (readBlock' + Unread' + Pending') % NumBlocks
          = (readBlock + Unread + Pending) % NumBlocks
    BY <2>2, <2>3, <2>4
  <2> QED BY <2>5 DEF IInv, PositionInv
<1> QED BY <1>3, <1>5, <1>6 DEF IInv

LEMMA ConsumeKeepsIInv == IInv /\ Consume => IInv'
<1> SUFFICES ASSUME IInv, Consume PROVE IInv'
  OBVIOUS
<1> USE DEF Consume, wvars
<1>1. numFullBlocks > 0
  BY DEF IInv, CountInv
<1>2. Unread' = Unread /\ Pending' = Pending /\ BlockOffset' = BlockOffset
  BY <1>1, Numbers DEF Unread, Pending, BlockOffset
<1>3. TypeOK'
  BY <1>1, Numbers, Sizes DEF IInv, TypeOK
<1>4. CountInv'
  BY <1>2, Numbers DEF IInv, CountInv
<1>5. PositionInv'
  BY <1>2 DEF IInv, PositionInv
<1> QED BY <1>3, <1>4, <1>5 DEF IInv

LEMMA ConsumeNotifyKeepsIInv == IInv /\ ConsumeNotify => IInv'
<1> SUFFICES ASSUME IInv, ConsumeNotify PROVE IInv'
  OBVIOUS
<1> USE DEF ConsumeNotify, shared, wvars
<1>1. asleep' \subseteq {"writer", "reader"}
  BY DEF NotifyOne, IInv, TypeOK
<1>2. TypeOK'
  BY <1>1 DEF IInv, TypeOK
<1>3. rFull' <= numFullBlocks
  BY DEF IInv, CountInv
<1> QED BY <1>2, <1>3, CountsUnchanged

LEMMA ReaderLeavesKeepsIInv == IInv /\ ReaderLeaves => IInv'
<1> SUFFICES ASSUME IInv, ReaderLeaves PROVE IInv'
  OBVIOUS
<1> USE DEF ReaderLeaves, shared, wvars
<1>1. TypeOK' /\ rFull' <= numFullBlocks
  BY DEF IInv, TypeOK, CountInv
<1> QED BY <1>1, CountsUnchanged

LEMMA OtherStepsKeepIInv ==
  IInv /\ (\/ Shutdown \/ ShutdownNotify \/ UNCHANGED vars
           \/ \E t \in {"writer", "reader"} : SpuriousWakeup(t)) => IInv'
<1> SUFFICES ASSUME IInv,
                    \/ Shutdown \/ ShutdownNotify \/ UNCHANGED vars
                    \/ \E t \in {"writer", "reader"} : SpuriousWakeup(t)
             PROVE  IInv'
  OBVIOUS
<1> USE DEF Shutdown, ShutdownNotify, SpuriousWakeup, vars, shared, wvars, rvars
<1>1. TypeOK'
  BY DEF IInv, TypeOK
<1>2. UNCHANGED <<numFullBlocks, wFull, newBlocks, writePos, readBlock, wpc,
                  rpc, rFull>>
  OBVIOUS
<1>3. rpc' = "process" => numFullBlocks > 0
  BY <1>2 DEF IInv, CountInv
<1>4. rFull' <= numFullBlocks \/ rpc' = "consume"
  BY <1>2 DEF IInv, CountInv
<1> QED BY <1>1, <1>2, <1>3, <1>4, CountsUnchanged

\* The inductive invariant holds in every reachable state.
THEOREM RingIInv == SafeSpec => []IInv
<1>1. IInv /\ [Next]_vars => IInv'
  <2> SUFFICES ASSUME IInv, [Next]_vars PROVE IInv'
    OBVIOUS
  <2>1. CASE \E n \in Chunk : WriteCall(n) BY <2>1, WriteCallKeepsIInv
  <2>2. CASE WriteCopy BY <2>2, WriteCopyKeepsIInv
  <2>3. CASE WriteCommit BY <2>3, WriteCommitKeepsIInv
  <2>4. CASE WriteNotify BY <2>4, WriteNotifyKeepsIInv
  <2>5. CASE WriteSleep BY <2>5, WriteSleepKeepsIInv
  <2>6. CASE WriteSpaceFound BY <2>6, WriteSpaceFoundKeepsIInv
  <2>7. CASE WriteBailOut BY <2>7, WriteBailOutKeepsIInv
  <2>8. CASE EofKnownFull \/ EofSleep \/ EofAnswer BY <2>8, EofKeepsIInv
  <2>9. CASE Process BY <2>9, ProcessKeepsIInv
  <2>10. CASE Consume BY <2>10, ConsumeKeepsIInv
  <2>11. CASE ConsumeNotify BY <2>11, ConsumeNotifyKeepsIInv
  <2>12. CASE ReaderLeaves BY <2>12, ReaderLeavesKeepsIInv
  <2>13. CASE \/ Shutdown \/ ShutdownNotify \/ UNCHANGED vars
              \/ \E t \in {"writer", "reader"} : SpuriousWakeup(t)
    BY <2>13, OtherStepsKeepIInv
  <2> QED BY <2>1, <2>2, <2>3, <2>4, <2>5, <2>6, <2>7, <2>8, <2>9, <2>10,
             <2>11, <2>12, <2>13 DEF Next, WriterStep, ReaderStep
<1> QED BY RingInit, <1>1, PTL DEF SafeSpec

-----------------------------------------------------------------------------
(* What follows from it *)

\* Every variable of the ring buffer keeps its type, the counts their range.
THEOREM RingTypeOK == SafeSpec => []TypeOK
<1>1. IInv => TypeOK
  BY DEF IInv
<1> QED BY RingIInv, <1>1, PTL

\* RingBufferAsyncWriter::write copies only over blocks the reader is done
\* with, however stale its count of full blocks is.
THEOREM RingNoOverwrite == SafeSpec => []NoOverwrite
<1>1. IInv => NoOverwrite
  <2> SUFFICES ASSUME IInv PROVE NoOverwrite
    OBVIOUS
  <2>1. UsedElems <= Size
    <3>1. CASE wpc # "commit"
      BY <3>1, SpaceFacts
    <3>2. CASE wpc = "commit"
      <4>1. (wFull + newBlocks) * BlockSize = wFull * BlockSize + newBlocks * BlockSize
        BY Numbers, Sizes
      <4>2. newBlocks * BlockSize >= 0
        BY Numbers, Sizes
      <4>3. (wFull + newBlocks) * BlockSize + BlockOffset <= Size
        BY <3>2 DEF IInv, CountInv, Pending
      <4>4. newBlocks * BlockSize \in Int /\ wFull * BlockSize \in Int
        BY Numbers, Sizes
      <4> QED BY <4>1, <4>2, <4>3, <4>4, Numbers, Sizes DEF UsedElems
    <3> QED BY <3>1, <3>2
  <2>2. ASSUME Running, NEW k \in 0..NumToWrite-1, UnreadIndex(Target(k))
        PROVE  FALSE
    <3>1. wpc # "commit" /\ Pending = 0
      BY <2>2 DEF Running, Pending
    <3> DEFINE x == BlockOffset + k
               q == x \div BlockSize
    <3>2. k \in Nat /\ k < FreeElems /\ NumBlocks - wFull \in Nat
      <4>1. NumToWrite \in Nat /\ NumToWrite <= FreeElems /\ FreeElems \in Nat
        BY <3>1, SpaceFacts
      <4>2. NumBlocks - wFull \in Nat
        BY Sizes DEF IInv, TypeOK
      <4> QED BY <4>1, <4>2
    <3>3. x \in Nat /\ x < (NumBlocks - wFull) * BlockSize
      <4>1. (NumBlocks - wFull) * BlockSize = Size - wFull * BlockSize
        BY Numbers, Sizes DEF Size
      <4> QED BY <4>1, <3>2, Numbers, Sizes DEF FreeElems, UsedElems
    <3>4. q \in 0..NumBlocks - wFull /\ q < NumBlocks - wFull
      <4> HIDE DEF x
      <4>1. x \div BlockSize \in 0..NumBlocks - wFull
            /\ x \div BlockSize < NumBlocks - wFull
        BY <3>2, <3>3, Sizes, DivBound
      <4> QED BY <4>1
    <3>5. Target(k) \div BlockSize
            = ((writePos \div BlockSize) + q) % NumBlocks
      <4>1. writePos \in 0..Size-1
        BY DEF IInv, TypeOK
      <4> QED BY <4>1, <3>2, Advance DEF Target, BlockOffset
    <3> HIDE DEF x, q
    <3> DEFINE base == readBlock + Unread
    <3>6. base \in Int /\ q \in Int /\ NumBlocks \in Nat \ {0}
      BY <3>4, Numbers, Sizes
    <3>7. writePos \div BlockSize = base % NumBlocks
      <4>1. readBlock + Unread + Pending = base
        BY <3>1, Numbers
      <4> QED BY <4>1 DEF IInv, PositionInv
    <3>8. PICK i \in 0..Unread-1 : Target(k) \div BlockSize = (readBlock + i) % NumBlocks
      BY <2>2 DEF UnreadIndex, UnreadBlock
    <3>9. /\ readBlock + i \in Int /\ base + q \in Int
          /\ readBlock + i < base + q /\ base + q < (readBlock + i) + NumBlocks
      <4>1. Unread <= wFull
        BY Numbers DEF IInv, CountInv
      <4>2. i \in Nat /\ i < Unread
        BY <3>8, Numbers
      <4> QED BY <4>1, <4>2, <3>4, Numbers, Sizes
    <3> HIDE DEF base
    <3>10. ((base % NumBlocks) + q) % NumBlocks = (base + q) % NumBlocks
      BY <3>6, ModAdd, Zenon
    <3>11. (base + q) % NumBlocks # (readBlock + i) % NumBlocks
      BY <3>6, <3>9, ModInjective, Zenon
    <3> QED BY <3>5, <3>7, <3>8, <3>10, <3>11
  <2> QED BY <2>1, <2>2 DEF NoOverwrite
<1> QED BY RingIInv, <1>1, PTL

-----------------------------------------------------------------------------
(* The condition variable *)

LEMMA SleepInit == Init => SleepInv
  BY RingInit DEF Init, IInv, SleepInv, NoLostWakeup, NeverBothAsleep

\* A notify_one that finds one sleeper wakes it.
LEMMA NotifyWakes ==
  ASSUME SleepInv, NotifyOne
  PROVE  /\ asleep' \subseteq asleep
         /\ asleep \subseteq {"reader"} => asleep' = {}
         /\ asleep \subseteq {"writer"} => asleep' = {}
  BY DEF NotifyOne

LEMMA SleepStep == SleepInv /\ TypeOK' /\ IInv /\ [Next]_vars => SleepInv'
<1> SUFFICES ASSUME SleepInv, TypeOK', IInv, [Next]_vars PROVE SleepInv'
  OBVIOUS
<1> USE DEF SleepInv, NoLostWakeup, NeverBothAsleep, BlockOrShutdown,
            SpaceOrShutdown, shared, wvars, rvars
<1>1. CASE \E n \in Chunk : WriteCall(n)
  BY <1>1 DEF WriteCall
<1>2. CASE WriteCopy
  BY <1>2 DEF WriteCopy, Running
<1>3. CASE WriteCommit
  BY <1>3, Numbers, Sizes DEF WriteCommit
<1>4. CASE WriteNotify
  BY <1>4, NotifyWakes DEF WriteNotify, TypeOK
<1>5. CASE WriteSleep
  BY <1>5, Numbers, Sizes DEF WriteSleep, AtSpaceTest, Running
<1>6. CASE WriteSpaceFound \/ WriteBailOut
  BY <1>6 DEF WriteSpaceFound, WriteBailOut, AtSpaceTest, Running
<1>7. CASE EofKnownFull \/ EofAnswer
  BY <1>7 DEF EofKnownFull, EofAnswer, AtBlockTest
<1>8. CASE EofSleep
  BY <1>8, Numbers, Sizes DEF EofSleep, AtBlockTest
<1>9. CASE Process \/ ReaderLeaves
  BY <1>9 DEF Process, ReaderLeaves
<1>10. CASE Consume
  BY <1>10, Numbers, Sizes DEF Consume
<1>11. CASE ConsumeNotify
  BY <1>11, NotifyWakes DEF ConsumeNotify, TypeOK
<1>12. CASE Shutdown
  BY <1>12 DEF Shutdown
<1>13. CASE ShutdownNotify
  BY <1>13 DEF ShutdownNotify
<1>14. CASE \E t \in {"writer", "reader"} : SpuriousWakeup(t)
  BY <1>14 DEF SpuriousWakeup
<1>15. CASE UNCHANGED vars
  BY <1>15 DEF vars
<1> QED BY <1>1, <1>2, <1>3, <1>4, <1>5, <1>6, <1>7, <1>8, <1>9, <1>10, <1>11,
           <1>12, <1>13, <1>14, <1>15 DEF Next, WriterStep, ReaderStep

THEOREM RingSleepInv == SafeSpec => []SleepInv
<1>1. SleepInv /\ TypeOK' /\ IInv /\ [Next]_vars => SleepInv'
  BY SleepStep
<1> QED BY SleepInit, RingTypeOK, RingIInv, <1>1, PTL DEF SafeSpec

\* A thread that sleeps on m_condVar although what it waits for has come is
\* about to be notified.
THEOREM RingNoLostWakeup == SafeSpec => []NoLostWakeup
<1>1. SleepInv => NoLostWakeup
  BY DEF SleepInv
<1> QED BY RingSleepInv, <1>1, PTL

\* Writer and reader never sleep on m_condVar together.
THEOREM RingNeverBothAsleep == SafeSpec => []NeverBothAsleep
<1>1. SleepInv => NeverBothAsleep
  BY DEF SleepInv
<1> QED BY RingSleepInv, <1>1, PTL

-----------------------------------------------------------------------------
(* The stream of elements *)

LEMMA InRing ==
  ASSUME IInv
  PROVE  /\ Live \in Nat /\ Live <= Size /\ NumTaken \in Nat /\ Len(taken) \in Nat
         /\ Copied \in Nat /\ Copied = NumTaken + Live
         /\ Unread + Pending \in Nat /\ (Unread + Pending) * BlockSize \in Nat
<1>1. Unread + Pending \in Nat /\ (Unread + Pending) * BlockSize \in Nat
  BY Numbers, Sizes
<1>2. Live \in Nat
  BY <1>1, Numbers DEF Live
<1>3. Live <= Size
  <2>1. (wFull + Pending) * BlockSize
          = (Unread + Pending) * BlockSize + (wFull - Unread) * BlockSize
    BY Numbers, Sizes
  <2>2. wFull - Unread \in Nat
    BY Numbers DEF IInv, CountInv
  <2>3. (wFull - Unread) * BlockSize >= 0 /\ (wFull - Unread) * BlockSize \in Int
    BY <2>2, Sizes
  <2>4. (wFull + Pending) * BlockSize + BlockOffset <= Size
    BY DEF IInv, CountInv
  <2> QED BY <1>1, <2>1, <2>3, <2>4, Numbers, Sizes DEF Live
<1>4. Len(taken) \in Nat
  BY DEF IInv, TypeOK
<1>5. NumTaken \in Nat
  BY <1>4, Sizes DEF NumTaken
<1> QED BY <1>1, <1>2, <1>3, <1>4, <1>5 DEF Copied

\* The element e of the block i of those from readBlock on is at Place(i * BlockSize + e).
LEMMA PlaceOfBlock ==
  ASSUME IInv, NEW i \in Nat, NEW e \in 0..BlockSize-1
  PROVE  Place(i * BlockSize + e) = UnreadBlock(i) * BlockSize + e
<1>1. readBlock + i \in Nat /\ UnreadBlock(i) \in Int
  <2>1. readBlock + i \in Nat
    BY Numbers
  <2> QED BY <2>1, Sizes, DivMod DEF UnreadBlock
<1>2. readBlock * BlockSize + (i * BlockSize + e) = BlockSize * (readBlock + i) + e
  BY Numbers, Sizes
<1>3. (BlockSize * (readBlock + i) + e) % (BlockSize * NumBlocks)
        = BlockSize * ((readBlock + i) % NumBlocks) + e
  BY <1>1, Sizes, ModBlock
<1>4. BlockSize * UnreadBlock(i) = UnreadBlock(i) * BlockSize
  BY <1>1, Sizes
<1> QED BY <1>2, <1>3, <1>4 DEF Place, Size, UnreadBlock

LEMMA PlaceInRing ==
  ASSUME IInv, NEW j \in Nat
  PROVE  Place(j) \in 0..Size-1
<1>1. readBlock * BlockSize + j \in Int
  BY Numbers, Sizes
<1> QED BY <1>1, Sizes, DivMod, Zenon DEF Place

\* The writer goes on where what was copied ends.
LEMMA PlaceOfWriter ==
  ASSUME IInv
  PROVE  writePos = Place(Live)
<1> DEFINE i == Unread + Pending
<1>1. i \in Nat /\ BlockOffset \in 0..BlockSize-1
  BY InRing, Numbers
<1>2. writePos \div BlockSize = UnreadBlock(i)
  <2>1. readBlock + Unread + Pending = readBlock + i
    BY Numbers
  <2> QED BY <2>1 DEF IInv, PositionInv, UnreadBlock
<1> HIDE DEF i
<1>3. Place(i * BlockSize + BlockOffset) = UnreadBlock(i) * BlockSize + BlockOffset
  BY <1>1, PlaceOfBlock
<1>4. /\ writePos = BlockSize * (writePos \div BlockSize) + (writePos % BlockSize)
      /\ writePos \div BlockSize \in Int
  <2>1. writePos \in Int
    BY Numbers
  <2> QED BY <2>1, Sizes, DivMod, Zenon
<1>5. BlockSize * (writePos \div BlockSize) = (writePos \div BlockSize) * BlockSize
  BY <1>4, Sizes
<1> QED BY <1>2, <1>3, <1>4, <1>5 DEF BlockOffset, Live, i

\* A copy writes the places behind what was copied, in their order, and none of
\* those before.
LEMMA CopyPlaces ==
  ASSUME IInv, wpc # "commit"
  PROVE  /\ Live + NumToWrite \in Nat /\ Live + NumToWrite <= Size
         /\ \A j \in 0..Live + NumToWrite - 1 :
              CopyRank(Place(j)) = IF j < Live THEN j - Live + Size ELSE j - Live
<1>1. /\ NumToWrite \in Nat /\ NumToWrite <= FreeElems
      /\ UsedElems \in Nat /\ UsedElems <= Size /\ FreeElems \in Nat
  BY SpaceFacts
<1>2. Live <= UsedElems
  <2>1. Pending = 0 /\ wFull - Unread \in Nat
    BY Numbers DEF Pending, IInv, CountInv
  <2>2. wFull * BlockSize = (Unread + 0) * BlockSize + (wFull - Unread) * BlockSize
    BY <2>1, Numbers, Sizes
  <2>3. (wFull - Unread) * BlockSize >= 0 /\ (wFull - Unread) * BlockSize \in Int
    BY <2>1, Sizes
  <2>4. (Unread + 0) * BlockSize \in Int
    BY Numbers, Sizes
  <2> QED BY <2>1, <2>2, <2>3, <2>4, Numbers DEF Live, UsedElems
<1>3. Live + NumToWrite \in Nat /\ Live + NumToWrite <= Size
  BY <1>1, <1>2, InRing, Sizes DEF FreeElems
<1>4. ASSUME NEW j \in 0..Live + NumToWrite - 1
      PROVE  CopyRank(Place(j)) = IF j < Live THEN j - Live + Size ELSE j - Live
  <2> DEFINE a == readBlock * BlockSize + j
             b == readBlock * BlockSize + Live
  <2>1. j \in Nat /\ j < Live + NumToWrite /\ a \in Int /\ b \in Int /\ a - b = j - Live
    <3>1. Live \in Nat /\ NumToWrite \in Nat
      BY <1>1, InRing
    <3>2. readBlock * BlockSize \in Int
      BY Numbers, Sizes
    <3> QED BY <3>1, <3>2
  <2>2. Place(j) = a % Size /\ writePos = b % Size
    BY PlaceOfWriter DEF Place
  <2> HIDE DEF a, b
  <2>3. ((a % Size) - (b % Size)) % Size = (a - b) % Size
    BY <2>1, Sizes, ModSub, Zenon
  <2>4. CopyRank(Place(j)) = (j - Live) % Size
    BY <2>1, <2>2, <2>3 DEF CopyRank
  <2>5. CASE j >= Live
    <3>1. j - Live \in 0..Size-1
      <4>1. Live \in Nat /\ NumToWrite \in Nat /\ Size \in Nat
        BY <1>1, InRing, Sizes
      <4> QED BY <4>1, <2>1, <2>5, <1>3
    <3>2. (j - Live) % Size = j - Live
      BY <3>1, Sizes, ModSmall
    <3> QED BY <2>4, <2>5, <3>2, <2>1, InRing
  <2>6. CASE j < Live
    <3>1. j - Live + Size \in 0..Size-1 /\ j - Live \in Int
      BY <2>1, <2>6, <1>3, InRing, Sizes
    <3>2. (j - Live) % Size = j - Live + Size
      <4>1. j - Live = Size * (-1) + (j - Live + Size) /\ -1 \in Int
        BY <3>1, Sizes
      <4> QED BY <3>1, <4>1, Sizes, ModUnique
    <3> QED BY <2>4, <2>6, <3>2
  <2> QED BY <2>5, <2>6, <2>1, InRing
<1> QED BY <1>3, <1>4

LEMMA StreamInit == Init => StreamInv
<1> SUFFICES ASSUME Init PROVE StreamInv
  OBVIOUS
<1>1. IInv
  BY RingInit
<1>2. Copied = 0
  <2>1. NumTaken = 0
    BY Sizes DEF Init, NumTaken
  <2>2. Unread + Pending = 0 /\ 0 * BlockSize = 0
    BY Sizes DEF Init, Unread, Pending
  <2>3. BlockOffset = 0
    <3>1. 0 \in 0..BlockSize-1
      BY Sizes
    <3> QED BY <3>1, Sizes, ModSmall DEF Init, BlockOffset
  <2> QED BY <2>1, <2>2, <2>3 DEF Copied, Live
<1> QED BY <1>2 DEF Init, StreamInv

\* Steps that neither copy nor give up anything.
LEMMA StreamKept ==
  ASSUME StreamInv, UNCHANGED <<next, dropped>>, shutdown => shutdown',
         Copied' = Copied, \A k \in 1..Copied : Stream(k)' = Stream(k)
  PROVE  StreamInv'
BY DEF StreamInv

\* Steps that move neither side: a commit only renames what is pending.
LEMMA StreamUnmoved ==
  ASSUME UNCHANGED <<data, readBlock, taken, writePos>>,
         (Unread + Pending)' = Unread + Pending
  PROVE  Copied' = Copied /\ \A k \in 1..Copied : Stream(k)' = Stream(k)
<1>1. Live' = Live /\ NumTaken' = NumTaken
  BY DEF Live, NumTaken, BlockOffset
<1> QED BY <1>1 DEF Copied, Stream, Element, Place

LEMMA CopyKeepsStream == IInv /\ StreamInv /\ WriteCopy => StreamInv'
<1> SUFFICES ASSUME IInv, StreamInv, WriteCopy PROVE StreamInv'
  OBVIOUS
<1> DEFINE n == NumToWrite
           done == (BlockOffset + n) \div BlockSize
<1>1. /\ wpc = "run" /\ newBlocks' = done /\ writePos' = (writePos + n) % Size
      /\ next' = next + n /\ wpc' = IF newBlocks' > 0 THEN "commit" ELSE "run"
      /\ UNCHANGED <<numFullBlocks, readBlock, rpc, taken, dropped, shutdown>>
      /\ data' = [i \in 0..Size-1 |->
                    IF CopyRank(i) < n THEN next + CopyRank(i) ELSE data[i]]
  BY DEF WriteCopy, Running, shared, rvars
<1>2. n \in Nat /\ done \in 0..NumBlocks - wFull /\ done \in Nat
  BY <1>1, SpaceFacts, CopyFacts, Numbers, Sizes
<1>3. Live' = Live + n
  <2>1. Unread' = Unread /\ Pending = 0 /\ Pending' = done
    BY <1>1, <1>2 DEF Unread, Pending
  <2>2. BlockOffset' = (BlockOffset + n) % BlockSize
    <3>1. writePos \in 0..Size-1
      BY DEF IInv, TypeOK
    <3> QED BY <1>1, <1>2, <3>1, Advance DEF BlockOffset
  <2>3. /\ BlockOffset + n = BlockSize * done + ((BlockOffset + n) % BlockSize)
        /\ (BlockOffset + n) % BlockSize \in Int
    <3> DEFINE x == BlockOffset + n
    <3>1. x \in Int
      BY <1>2, Numbers
    <3> HIDE DEF x
    <3>2. x = BlockSize * (x \div BlockSize) + (x % BlockSize) /\ x % BlockSize \in Int
      BY <3>1, Sizes, DivMod
    <3> QED BY <3>2 DEF x
  <2> HIDE DEF done, n
  <2>4. (Unread + done) * BlockSize = (Unread + 0) * BlockSize + BlockSize * done
    BY <1>2, Numbers, Sizes
  <2>5. (Unread + 0) * BlockSize \in Int /\ BlockSize * done \in Int
    BY <1>2, Numbers, Sizes
  <2>6. /\ Live' = (Unread + done) * BlockSize + ((BlockOffset + n) % BlockSize)
        /\ Live = (Unread + 0) * BlockSize + BlockOffset
    BY <2>1, <2>2 DEF Live
  <2>7. BlockOffset \in Int
    BY Numbers
  <2> QED BY <1>2, <2>3, <2>4, <2>5, <2>6, <2>7
<1> HIDE DEF n, done
<1>4. NumTaken' = NumTaken /\ Copied' = Copied + n
  BY <1>1, <1>2, <1>3, InRing DEF NumTaken, Copied
<1>5. /\ Live \in Nat /\ NumTaken \in Nat /\ Copied = NumTaken + Live
      /\ Live + n <= Size /\ Size \in Nat /\ next \in Nat
      /\ \A j \in 0..Live + n - 1 :
           CopyRank(Place(j)) = IF j < Live THEN j - Live + Size ELSE j - Live
  BY <1>1, InRing, CopyPlaces, Numbers, Sizes DEF n
<1>6. ASSUME NEW j \in 0..Live + n - 1
      PROVE  data'[Place(j)'] = IF j < Live THEN data[Place(j)] ELSE next + (j - Live)
  <2>1. Place(j) \in 0..Size-1 /\ Place(j)' = Place(j)
    <3>1. j \in Nat
      BY <1>2, <1>5
    <3> QED BY <1>1, <3>1, PlaceInRing DEF Place
  <2>2. data'[Place(j)] = IF CopyRank(Place(j)) < n THEN next + CopyRank(Place(j))
                          ELSE data[Place(j)]
    BY <1>1, <2>1
  <2> QED BY <1>2, <1>5, <2>1, <2>2
<1>7. \A k \in 1..Copied : Stream(k)' = Stream(k)
  <2> SUFFICES ASSUME NEW k \in 1..Copied PROVE Stream(k)' = Stream(k)
    OBVIOUS
  <2>1. CASE k <= NumTaken
    BY <1>1, <1>4, <2>1 DEF Stream, Element
  <2>2. CASE ~(k <= NumTaken)
    <3>1. k - NumTaken - 1 \in 0..Live + n - 1 /\ k - NumTaken - 1 < Live
      BY <1>2, <1>5, <2>2
    <3> QED BY <1>4, <1>6, <2>2, <3>1 DEF Stream
  <2> QED BY <2>1, <2>2
<1>8. \A k \in Copied + 1 .. Copied + n : Stream(k)' = next + (k - Copied - 1)
  <2> SUFFICES ASSUME NEW k \in Copied + 1 .. Copied + n
               PROVE  Stream(k)' = next + (k - Copied - 1)
    OBVIOUS
  <2>1. /\ k - NumTaken - 1 \in 0..Live + n - 1 /\ ~(k - NumTaken - 1 < Live)
        /\ ~(k <= NumTaken) /\ (k - NumTaken - 1) - Live = k - Copied - 1
    BY <1>2, <1>5
  <2> QED BY <1>4, <1>6, <2>1 DEF Stream
<1>9. Copied \in Nat
  BY <1>5
<1> QED
  <2>1. \A k \in 1..Copied' : Stream(k)' \in 1..next'-1
    <3> SUFFICES ASSUME NEW k \in 1..Copied' PROVE Stream(k)' \in 1..next'-1
      OBVIOUS
    <3>1. CASE k <= Copied
      <4>1. Stream(k)' = Stream(k) /\ Stream(k) \in 1..next-1
        BY <1>7, <1>9, <3>1, <1>2, <1>4 DEF StreamInv
      <4> QED BY <4>1, <1>1, <1>2, <1>5
    <3>2. CASE ~(k <= Copied)
      <4>1. k \in Copied + 1 .. Copied + n
        BY <1>2, <1>4, <1>9, <3>2
      <4>2. Stream(k)' = next + (k - Copied - 1)
        BY <4>1, <1>8
      <4>3. next \in Nat \ {0}
        BY Numbers
      <4> QED BY <4>1, <4>2, <4>3, <1>1, <1>2, <1>9
    <3> QED BY <3>1, <3>2
  <2>2. \A j, k \in 1..Copied' : j < k => Stream(j)' < Stream(k)'
    <3> SUFFICES ASSUME NEW j \in 1..Copied', NEW k \in 1..Copied', j < k
                 PROVE  Stream(j)' < Stream(k)'
      OBVIOUS
    <3>1. CASE k <= Copied
      BY <1>2, <1>4, <1>7, <1>9, <3>1 DEF StreamInv
    <3>2. CASE ~(k <= Copied) /\ j <= Copied
      <4>1. Stream(j)' = Stream(j) /\ Stream(j) \in 1..next-1
        BY <1>7, <1>9, <3>2 DEF StreamInv
      <4>2. Stream(k)' = next + (k - Copied - 1) /\ k - Copied - 1 >= 0
        BY <1>2, <1>4, <1>8, <1>9, <3>2
      <4> QED BY <4>1, <4>2, <1>5, <1>9
    <3>3. CASE ~(j <= Copied)
      <4>1. j \in Copied + 1 .. Copied + n /\ k \in Copied + 1 .. Copied + n
        BY <1>2, <1>4, <1>9, <3>3
      <4> QED BY <4>1, <1>5, <1>8, <1>9
    <3> QED BY <3>1, <3>2, <3>3
  <2>3. \A i \in 1..next'-1 : i \in dropped' \/ \E k \in 1..Copied' : i = Stream(k)'
    <3> SUFFICES ASSUME NEW i \in 1..next'-1, i \notin dropped'
                 PROVE  \E k \in 1..Copied' : i = Stream(k)'
      OBVIOUS
    <3>1. CASE i < next
      <4>1. PICK k \in 1..Copied : i = Stream(k)
        BY <1>1, <1>2, <1>5, <3>1 DEF StreamInv
      <4>2. k \in 1..Copied'
        BY <1>2, <1>4, <1>9
      <4> QED BY <1>7, <4>1, <4>2
    <3>2. CASE ~(i < next)
      <4>1. PICK k \in Copied + 1 .. Copied + n : i = next + (k - Copied - 1)
        <5>1. /\ Copied + 1 + (i - next) \in Copied + 1 .. Copied + n
              /\ i = next + ((Copied + 1 + (i - next)) - Copied - 1)
          BY <1>1, <1>2, <1>5, <1>9, <3>2
        <5> QED BY <5>1
      <4>2. k \in 1..Copied'
        BY <1>2, <1>4, <1>9
      <4>3. i = Stream(k)'
        BY <1>8, <4>1
      <4> QED BY <4>2, <4>3
    <3> QED BY <3>1, <3>2
  <2>4. dropped' # {} => shutdown'
    BY <1>1 DEF StreamInv
  <2> QED BY <2>1, <2>2, <2>3, <2>4 DEF StreamInv

\* What the reader takes is the block its stream continues with.
LEMMA ProcessKeepsStream == IInv /\ StreamInv /\ Process => StreamInv'
<1> SUFFICES ASSUME IInv, StreamInv, Process PROVE StreamInv'
  OBVIOUS
<1> DEFINE m == Len(taken)
<1>1. /\ UNCHANGED <<data, numFullBlocks, shutdown, wpc, newBlocks, writePos, next, dropped>>
      /\ rpc = "process" /\ rpc' = "consume"
      /\ taken' = Append(taken, BlockAt(readBlock))
      /\ readBlock' = (readBlock + 1) % NumBlocks
  BY DEF Process, shared, wvars
<1>2. /\ m \in Nat /\ Len(taken') = m + 1
      /\ \A i \in 1..m : taken'[i] = taken[i]
      /\ taken'[m + 1] = BlockAt(readBlock)
  <2>1. taken \in Seq([1..BlockSize -> Nat])
    BY DEF IInv, TypeOK
  <2> QED BY <1>1, <2>1
<1>3. /\ NumTaken = BlockSize * m /\ NumTaken' = NumTaken + BlockSize /\ NumTaken \in Nat
      /\ BlockSize \in Nat /\ Live \in Nat
  <2>1. (m + 1) * BlockSize = BlockSize * m + BlockSize /\ m * BlockSize = BlockSize * m
    BY <1>2, Sizes
  <2> QED BY <1>2, <2>1, InRing, Sizes DEF NumTaken
<1> HIDE DEF m
<1>4. Live' = Live - BlockSize
  <2>1. Unread' = Unread - 1 /\ Pending' = Pending /\ BlockOffset' = BlockOffset
    BY <1>1, Numbers DEF Unread, Pending, BlockOffset
  <2>2. (Unread - 1 + Pending) * BlockSize = (Unread + Pending) * BlockSize - BlockSize
    BY Numbers, Sizes
  <2>3. (Unread + Pending) * BlockSize \in Int /\ BlockOffset \in Int
    BY InRing, Numbers
  <2> QED BY <2>1, <2>2, <2>3, Sizes DEF Live
<1>5. Copied' = Copied /\ Copied = NumTaken + Live
  BY <1>3, <1>4 DEF Copied
<1>6. ASSUME NEW j \in Nat PROVE Place(j)' = Place(BlockSize + j)
  <2> DEFINE x == BlockSize * (readBlock + 1)
  <2>1. readBlock + 1 \in Nat /\ 0 \in 0..BlockSize-1
    BY Numbers, Sizes
  <2>2. (BlockSize * (readBlock + 1) + 0) % (BlockSize * NumBlocks)
          = BlockSize * ((readBlock + 1) % NumBlocks) + 0
    BY <2>1, Sizes, ModBlock
  <2>3. /\ x \in Int /\ x + 0 = x /\ (readBlock + 1) % NumBlocks \in Int
        /\ x + j = readBlock * BlockSize + (BlockSize + j)
    <3>1. (readBlock + 1) % NumBlocks \in Int
      BY <2>1, Sizes, DivMod
    <3> QED BY <3>1, Numbers, Sizes
  <2>4. readBlock' * BlockSize = BlockSize * readBlock'
    BY <1>1, <2>3, Sizes
  <2>5. readBlock' * BlockSize = x % Size
    <3>1. BlockSize * readBlock' + 0 = BlockSize * readBlock'
      BY <1>1, <2>3, Sizes
    <3> QED BY <1>1, <2>2, <2>3, <2>4, <3>1 DEF Size
  <2>6. ((x % Size) + j) % Size = (x + j) % Size
    <3> HIDE DEF x
    <3>1. j \in Int
      OBVIOUS
    <3> QED BY <2>3, <3>1, Sizes, ModAdd
  <2> HIDE DEF x
  <2> QED BY <2>3, <2>5, <2>6 DEF Place
<1>7. ASSUME NEW k \in 1..Copied PROVE Stream(k)' = Stream(k)
  <2>1. CASE k <= NumTaken
    <3>1. k - 1 \in Nat /\ k - 1 < m * BlockSize
      <4>1. m * BlockSize = BlockSize * m
        BY <1>2, Sizes
      <4> QED BY <1>3, <2>1, <4>1
    <3>2. (k - 1) \div BlockSize \in 0..m /\ (k - 1) \div BlockSize < m
      <4>1. k - 1 <= m * BlockSize
        BY <1>2, <1>3, <3>1
      <4> QED BY <1>2, <3>1, <4>1, Sizes, DivBound
    <3>3. ((k - 1) \div BlockSize) + 1 \in 1..m
      BY <1>2, <3>2
    <3> QED BY <1>2, <1>3, <2>1, <3>3 DEF Stream, Element
  <2>2. CASE k > NumTaken /\ k <= NumTaken + BlockSize
    <3>1. PICK e \in 0..BlockSize-1 : e = k - NumTaken - 1
      BY <1>3, <2>2
    <3>2. k - 1 = BlockSize * m + e /\ k - 1 \in Int /\ m \in Int
      BY <1>2, <1>3, <3>1
    <3>3. (k - 1) \div BlockSize = m /\ (k - 1) % BlockSize = e
      BY <3>1, <3>2, Sizes, DivUnique, ModUnique
    <3>4. Element(k)' = data[readBlock * BlockSize + e]
      <4>1. Element(k)' = BlockAt(readBlock)[e + 1]
        BY <1>2, <3>3 DEF Element
      <4>2. e + 1 \in 1..BlockSize /\ readBlock * BlockSize + (e + 1) - 1 = readBlock * BlockSize + e
        BY <3>1, Numbers, Sizes
      <4> QED BY <4>1, <4>2 DEF BlockAt
    <3>5. Place(e) = readBlock * BlockSize + e
      <4>1. UnreadBlock(0) = readBlock
        <5>1. readBlock \in 0..NumBlocks-1 /\ readBlock + 0 = readBlock
          BY DEF IInv, TypeOK
        <5> QED BY <5>1, Sizes, ModSmall DEF UnreadBlock
      <4>2. Place(0 * BlockSize + e) = UnreadBlock(0) * BlockSize + e
        BY PlaceOfBlock
      <4>3. 0 * BlockSize + e = e
        BY Sizes
      <4> QED BY <4>1, <4>2, <4>3
    <3>6. Stream(k) = data[Place(e)]
      BY <1>3, <2>2, <3>1 DEF Stream
    <3>7. Stream(k)' = Element(k)'
      BY <1>3, <2>2 DEF Stream
    <3> QED BY <3>4, <3>5, <3>6, <3>7
  <2>3. CASE k > NumTaken + BlockSize
    <3>1. PICK j \in Nat : j = k - (NumTaken + BlockSize) - 1
      BY <1>3, <2>3
    <3>2. k - NumTaken' - 1 = j /\ k - NumTaken - 1 = BlockSize + j
          /\ ~(k <= NumTaken) /\ ~(k <= NumTaken')
      BY <1>3, <2>3, <3>1
    <3>3. Stream(k)' = data[Place(j)']
      BY <1>1, <3>2 DEF Stream
    <3>4. Stream(k) = data[Place(BlockSize + j)]
      BY <3>2 DEF Stream
    <3> QED BY <1>6, <3>3, <3>4
  <2> QED BY <1>3, <1>5, <2>1, <2>2, <2>3
<1> QED BY <1>1, <1>5, <1>7, StreamKept

\* A write that gives up says so, and it does so only after a shutdown.
LEMMA BailOutKeepsStream == IInv /\ StreamInv /\ WriteBailOut => StreamInv'
<1> SUFFICES ASSUME IInv, StreamInv, WriteBailOut PROVE StreamInv'
  OBVIOUS
<1>1. /\ UNCHANGED <<data, readBlock, taken, writePos, rpc, numFullBlocks, shutdown>>
      /\ dropped' = dropped \union (next..next + remaining - 1)
      /\ next' = next + remaining /\ wpc' = "run" /\ wpc # "commit"
      /\ SpaceOrShutdown /\ numFullBlocks = NumBlocks
  BY DEF WriteBailOut, AtSpaceTest, Running, shared, rvars
<1>2. shutdown
  BY <1>1, Sizes DEF SpaceOrShutdown
<1>3. Copied' = Copied /\ \A k \in 1..Copied : Stream(k)' = Stream(k)
  <2>1. (Unread + Pending)' = Unread + Pending
    BY <1>1 DEF Unread, Pending
  <2> QED BY <1>1, <2>1, StreamUnmoved
<1>4. next \in Nat /\ remaining \in Nat /\ Copied \in Nat
  BY Numbers, InRing
<1>5. \A k \in 1..Copied' : Stream(k)' \in 1..next'-1
  <2> SUFFICES ASSUME NEW k \in 1..Copied PROVE Stream(k)' \in 1..next'-1
    BY <1>3
  <2>1. Stream(k)' \in 1..next-1
    BY <1>3 DEF StreamInv
  <2> QED BY <1>1, <1>4, <2>1
<1>6. \A j, k \in 1..Copied' : j < k => Stream(j)' < Stream(k)'
  BY <1>3 DEF StreamInv
<1>7. \A n \in 1..next'-1 : n \in dropped' \/ \E k \in 1..Copied' : n = Stream(k)'
  <2> SUFFICES ASSUME NEW n \in 1..next'-1, n \notin dropped'
               PROVE  \E k \in 1..Copied' : n = Stream(k)'
    OBVIOUS
  <2>1. n \in 1..next-1 /\ n \notin dropped
    BY <1>1, <1>4
  <2>2. PICK k \in 1..Copied : n = Stream(k)
    BY <2>1 DEF StreamInv
  <2> QED BY <1>3, <2>2
<1> QED BY <1>1, <1>2, <1>5, <1>6, <1>7 DEF StreamInv

LEMMA StreamStep == IInv /\ StreamInv /\ [Next]_vars => StreamInv'
<1> SUFFICES ASSUME IInv, StreamInv, [Next]_vars PROVE StreamInv'
  OBVIOUS
<1> DEFINE Still == /\ UNCHANGED <<data, readBlock, taken, writePos, next, dropped>>
                    /\ shutdown => shutdown'
                    /\ (Unread + Pending)' = Unread + Pending
<1>1. ASSUME Still PROVE StreamInv'
  BY <1>1, StreamKept, StreamUnmoved
<1>2. ASSUME NEW n \in Chunk, WriteCall(n) PROVE Still
  BY <1>2 DEF WriteCall, Unread, Pending, shared, rvars
<1>3. ASSUME WriteCommit PROVE Still
  <2>1. Unread' = Unread + newBlocks /\ Pending = newBlocks /\ Pending' = 0
    BY <1>3, Numbers DEF WriteCommit, Unread, Pending, rvars
  <2> QED BY <1>3, <2>1, Numbers DEF WriteCommit, rvars
<1>4. ASSUME WriteNotify \/ WriteSleep \/ WriteSpaceFound PROVE Still
  BY <1>4 DEF WriteNotify, WriteSleep, WriteSpaceFound, AtSpaceTest, Running,
              Unread, Pending, shared, rvars
<1>5. ASSUME EofKnownFull \/ EofSleep \/ EofAnswer \/ ConsumeNotify \/ ReaderLeaves
      PROVE  Still
  BY <1>5 DEF EofKnownFull, EofSleep, EofAnswer, AtBlockTest, ConsumeNotify,
              ReaderLeaves, Unread, Pending, shared, wvars
<1>6. ASSUME Consume PROVE Still
  <2>1. Unread' = Unread /\ Pending' = Pending
    BY <1>6, Numbers DEF Consume, Unread, Pending, wvars
  <2> QED BY <1>6, <2>1 DEF Consume, wvars
<1>7. ASSUME \/ Shutdown \/ ShutdownNotify \/ UNCHANGED vars
             \/ \E t \in {"writer", "reader"} : SpuriousWakeup(t)
      PROVE  Still
  BY <1>7 DEF Shutdown, ShutdownNotify, SpuriousWakeup, vars, shared, wvars, rvars,
              Unread, Pending
<1> HIDE DEF Still
<1> QED BY <1>1, <1>2, <1>3, <1>4, <1>5, <1>6, <1>7, CopyKeepsStream,
           BailOutKeepsStream, ProcessKeepsStream DEF Next, WriterStep, ReaderStep

\* What was copied and not yet taken continues, in order and without a gap but
\* for what a write gave up after a shutdown, what the reader took.
THEOREM RingStreamInv == SafeSpec => []StreamInv
<1>1. Init => StreamInv
  BY StreamInit
<1>2. IInv /\ StreamInv /\ [Next]_vars => StreamInv'
  BY StreamStep
<1> QED BY <1>1, <1>2, RingIInv, PTL DEF SafeSpec

\* The reader sees the written stream in order, each element once; a gap is
\* only ever what a write gave up, and that takes a shutdown.
THEOREM RingStreamOrder == SafeSpec => []StreamOrder
<1>1. IInv /\ StreamInv => StreamOrder
  <2> SUFFICES ASSUME IInv, StreamInv PROVE StreamOrder
    OBVIOUS
  <2>1. NumTaken \in Nat /\ NumTaken <= Copied /\ Copied \in Nat
    BY InRing
  <2>2. \A k \in 1..NumTaken : k \in 1..Copied /\ Stream(k) = Element(k)
    BY <2>1 DEF Stream
  <2>3. \A k \in 2..NumTaken : Element(k-1) < Element(k)
    <3> SUFFICES ASSUME NEW k \in 2..NumTaken PROVE Element(k-1) < Element(k)
      OBVIOUS
    <3>1. k - 1 \in 1..NumTaken /\ k \in 1..NumTaken /\ k - 1 < k
      BY <2>1
    <3>2. Stream(k-1) < Stream(k)
      BY <2>2, <3>1 DEF StreamInv
    <3> QED BY <2>2, <3>1, <3>2
  <2>4. ASSUME NumTaken > 0, NEW n \in 1..Element(NumTaken),
               n \notin {Element(k) : k \in 1..NumTaken}
        PROVE  n \in dropped
    <3>1. /\ NumTaken \in 1..Copied /\ Stream(NumTaken) = Element(NumTaken)
          /\ Element(NumTaken) \in 1..next-1
      BY <2>1, <2>2, <2>4 DEF StreamInv
    <3>2. SUFFICES ASSUME n \notin dropped PROVE FALSE
      OBVIOUS
    <3>3. next \in Nat
      BY Numbers
    <3>4. n \in 1..next-1
      BY <3>1, <3>3
    <3>5. PICK k \in 1..Copied : n = Stream(k)
      BY <3>2, <3>4 DEF StreamInv
    <3>6. ~(k <= NumTaken)
      BY <2>1, <2>2, <2>4, <3>5
    <3>7. Stream(NumTaken) < Stream(k)
      BY <2>1, <3>1, <3>6 DEF StreamInv
    <3>8. n <= Stream(NumTaken) /\ n \in Int /\ Stream(NumTaken) \in Int
      BY <3>1
    <3> QED BY <3>5, <3>7, <3>8
  <2> QED BY <2>3, <2>4 DEF StreamOrder, StreamInv
<1> QED BY <1>1, RingIInv, RingStreamInv, PTL

-----------------------------------------------------------------------------
(* The refinement of the pipe of blocks *)

\* The elements of the unread blocks are the first of those not yet taken.
LEMMA UnreadElement ==
  ASSUME IInv, NEW i \in 1..Unread, NEW e \in 1..BlockSize
  PROVE  /\ (i - 1) * BlockSize + (e - 1) \in 0..Live-1
         /\ UnreadBlock(i - 1) * BlockSize + e - 1 = Place((i - 1) * BlockSize + (e - 1))
         /\ Place((i - 1) * BlockSize + (e - 1)) \in 0..Size-1
<1> DEFINE j == (i - 1) * BlockSize + (e - 1)
<1>1. i - 1 \in Nat /\ e - 1 \in 0..BlockSize-1 /\ Unread \in Nat /\ i <= Unread
  BY Numbers, Sizes
<1>2. (i - 1) * BlockSize \in Nat /\ j \in Nat
  BY <1>1, Sizes
<1>3. j < Live
  <2>1. Unread + Pending - i \in Nat
    BY <1>1, Numbers
  <2>2. (Unread + Pending - i) * BlockSize \in Nat
    BY <2>1, Sizes
  <2>3. (Unread + Pending) * BlockSize
          = (i - 1) * BlockSize + BlockSize + (Unread + Pending - i) * BlockSize
    BY <1>1, Numbers, Sizes
  <2> QED BY <1>1, <1>2, <2>2, <2>3, Numbers, Sizes DEF Live
<1>4. Place(j) = UnreadBlock(i - 1) * BlockSize + (e - 1)
  BY <1>1, PlaceOfBlock
<1>5. UnreadBlock(i - 1) * BlockSize \in Int
  <2>1. readBlock + (i - 1) \in Int
    BY <1>1, Numbers
  <2>2. UnreadBlock(i - 1) \in Int
    BY <2>1, Sizes, DivMod DEF UnreadBlock
  <2> QED BY <2>2, Sizes
<1>6. Place(j) \in 0..Size-1
  <2> HIDE DEF j
  <2> QED BY <1>2, PlaceInRing
<1> QED BY <1>2, <1>3, <1>4, <1>5, <1>6, InRing

\* What waits for the reader is whole blocks of numbered elements.
UnreadAreWhole == /\ UnreadBlocks \in Seq([1..BlockSize -> Nat \ {0}])
                  /\ Len(UnreadBlocks) = Unread

LEMMA UnreadWhole == IInv /\ StreamInv => UnreadAreWhole
<1> SUFFICES ASSUME IInv, StreamInv PROVE UnreadAreWhole
  OBVIOUS
<1>1. ASSUME NEW i \in 1..Unread
      PROVE  BlockAt(UnreadBlock(i - 1)) \in [1..BlockSize -> Nat \ {0}]
  <2>1. ASSUME NEW e \in 1..BlockSize
        PROVE  data[UnreadBlock(i - 1) * BlockSize + e - 1] \in Nat \ {0}
    <3>1. PICK j \in 0..Live-1 : UnreadBlock(i - 1) * BlockSize + e - 1 = Place(j)
      BY UnreadElement
    <3>2. /\ NumTaken + j + 1 \in 1..Copied /\ ~(NumTaken + j + 1 <= NumTaken)
          /\ (NumTaken + j + 1) - NumTaken - 1 = j
      <4>1. /\ Live \in Nat /\ NumTaken \in Nat /\ Copied = NumTaken + Live
        BY InRing
      <4> QED BY <3>1, <4>1
    <3>3. Stream(NumTaken + j + 1) = data[Place(j)]
      BY <3>2 DEF Stream
    <3>4. Stream(NumTaken + j + 1) \in 1..next-1 /\ next \in Nat
      BY <3>2, Numbers DEF StreamInv
    <3> QED BY <3>1, <3>3, <3>4
  <2> QED BY <2>1 DEF BlockAt
<1>2. Unread \in Nat
  BY Numbers
<1> QED BY <1>1, <1>2 DEF UnreadBlocks, UnreadAreWhole

LEMMA UnreadWholeNext == IInv' /\ StreamInv' => UnreadAreWhole'
  BY UnreadWhole, PTL

\* Steps that leave the ring's data and the unread blocks alone.
LEMMA UnreadUnmoved ==
  ASSUME UNCHANGED <<data, readBlock>>, Unread' = Unread
  PROVE  UnreadBlocks' = UnreadBlocks
BY DEF UnreadBlocks, BlockAt, UnreadBlock

\* A copy leaves the unread blocks alone, whatever the writer knows of them.
LEMMA CopyIsInvisible ==
  IInv /\ WriteCopy => UNCHANGED <<UnreadBlocks, shutdown, taken, ReaderState>>
<1> SUFFICES ASSUME IInv, WriteCopy
             PROVE  UNCHANGED <<UnreadBlocks, shutdown, taken, ReaderState>>
  OBVIOUS
<1>1. /\ wpc # "commit" /\ UNCHANGED <<shutdown, taken, rpc, readBlock, numFullBlocks>>
      /\ data' = [i \in 0..Size-1 |->
                    IF CopyRank(i) < NumToWrite THEN next + CopyRank(i) ELSE data[i]]
  BY DEF WriteCopy, Running, shared, rvars
<1>2. ASSUME NEW i \in 1..Unread, NEW e \in 1..BlockSize
      PROVE  data'[UnreadBlock(i - 1) * BlockSize + e - 1]
               = data[UnreadBlock(i - 1) * BlockSize + e - 1]
  <2>1. PICK j \in 0..Live-1 : /\ UnreadBlock(i - 1) * BlockSize + e - 1 = Place(j)
                               /\ Place(j) \in 0..Size-1
    BY UnreadElement
  <2>2. Live \in Nat /\ NumToWrite \in Nat /\ Live + NumToWrite <= Size
    BY <1>1, InRing, SpaceFacts, CopyPlaces
  <2>3. CopyRank(Place(j)) = j - Live + Size
    <3>1. j \in 0..Live + NumToWrite - 1 /\ j < Live
      BY <2>1, <2>2
    <3> QED BY <1>1, <3>1, CopyPlaces
  <2>4. ~(CopyRank(Place(j)) < NumToWrite)
    BY <2>1, <2>2, <2>3, Sizes
  <2> QED BY <1>1, <2>1, <2>4
<1>3. Unread' = Unread
  BY <1>1 DEF Unread
<1>4. UnreadBlocks' = UnreadBlocks
  <2>1. ASSUME NEW i \in 1..Unread
        PROVE  BlockAt(UnreadBlock(i - 1))' = BlockAt(UnreadBlock(i - 1))
    BY <1>1, <1>2 DEF BlockAt, UnreadBlock
  <2> QED BY <1>3, <2>1 DEF UnreadBlocks
<1> QED BY <1>1, <1>4 DEF ReaderState

\* The commit publishes the new blocks behind those that wait.
LEMMA CommitIsCommit ==
  ASSUME IInv, StreamInv, IInv', StreamInv', WriteCommit
  PROVE  Pipe!Commit \/ UNCHANGED <<UnreadBlocks, shutdown, taken, ReaderState>>
<1>1. /\ UNCHANGED <<data, readBlock, shutdown, taken, rpc>>
      /\ numFullBlocks' = numFullBlocks + newBlocks
  BY DEF WriteCommit, rvars
<1>2. Unread' = Unread + newBlocks /\ UNCHANGED ReaderState
  BY <1>1, Numbers DEF Unread, ReaderState
<1>3. CASE newBlocks = 0
  <2>1. Unread' = Unread
    BY <1>2, <1>3, Numbers
  <2> QED BY <1>1, <1>2, <2>1, UnreadUnmoved
<1>4. CASE newBlocks # 0
  <2>1. /\ UnreadBlocks \in Seq([1..BlockSize -> Nat \ {0}])
        /\ Len(UnreadBlocks) = Unread /\ Unread \in Nat /\ newBlocks \in Nat
    BY UnreadWhole, Numbers DEF UnreadAreWhole
  <2>2. /\ UnreadBlocks' \in Seq([1..BlockSize -> Nat \ {0}])
        /\ Len(UnreadBlocks') = Unread'
    BY UnreadWholeNext DEF UnreadAreWhole
  <2>3. Len(UnreadBlocks') > Len(UnreadBlocks) /\ Len(UnreadBlocks') <= NumBlocks
    <3>1. numFullBlocks' \in 0..NumBlocks
      BY DEF IInv, TypeOK
    <3>2. Unread' <= numFullBlocks'
      BY <1>1, <1>2, Numbers
    <3> QED BY <1>2, <1>4, <2>1, <2>2, <3>1, <3>2, Sizes
  <2>4. SubSeq(UnreadBlocks', 1, Len(UnreadBlocks)) = UnreadBlocks
    <3>1. \A i \in 1..Unread : UnreadBlocks'[i] = UnreadBlocks[i]
      BY <1>1, <1>2, <2>1 DEF UnreadBlocks, BlockAt, UnreadBlock
    <3> QED BY <2>1, <2>2, <2>3, <3>1
  <2> QED BY <1>1, <1>2, <2>2, <2>3, <2>4 DEF Pipe!Commit
<1> QED BY <1>3, <1>4

\* Processing a block takes the first of those that wait.
LEMMA ProcessIsTake ==
  ASSUME IInv, StreamInv, IInv', StreamInv', Process
  PROVE  Pipe!Take
<1>1. /\ UNCHANGED <<data, numFullBlocks, shutdown>>
      /\ rpc = "process" /\ rpc' = "consume"
      /\ taken' = Append(taken, BlockAt(readBlock))
      /\ readBlock' = (readBlock + 1) % NumBlocks
  BY DEF Process, shared, wvars
<1>2. Unread > 0 /\ Unread' = Unread - 1
  BY <1>1, Numbers DEF IInv, CountInv, Unread
<1>3. /\ UnreadBlocks \in Seq([1..BlockSize -> Nat \ {0}])
      /\ Len(UnreadBlocks) = Unread /\ Unread \in Nat
  BY UnreadWhole, Numbers DEF UnreadAreWhole
<1>4. /\ UnreadBlocks' \in Seq([1..BlockSize -> Nat \ {0}])
      /\ Len(UnreadBlocks') = Unread'
  BY UnreadWholeNext DEF UnreadAreWhole
<1>5. Head(UnreadBlocks) = BlockAt(readBlock)
  <2>1. UnreadBlock(0) = readBlock
    <3>1. readBlock \in 0..NumBlocks-1 /\ readBlock + 0 = readBlock
      BY DEF IInv, TypeOK
    <3> QED BY <3>1, Sizes, ModSmall DEF UnreadBlock
  <2>2. UnreadBlocks[1] = BlockAt(UnreadBlock(1 - 1)) /\ 1 - 1 = 0
    BY <1>2, <1>3 DEF UnreadBlocks
  <2> QED BY <1>3, <2>1, <2>2
<1>6. UnreadBlocks' = Tail(UnreadBlocks)
  <2>1. ASSUME NEW i \in 1..Unread - 1
        PROVE  UnreadBlocks'[i] = UnreadBlocks[i + 1]
    <3>1. /\ readBlock + 1 \in Int /\ i - 1 \in Int
          /\ (readBlock + 1) + (i - 1) = readBlock + ((i + 1) - 1)
      BY <1>3, Numbers
    <3>2. (((readBlock + 1) % NumBlocks) + (i - 1)) % NumBlocks
            = ((readBlock + 1) + (i - 1)) % NumBlocks
      BY <3>1, Sizes, ModAdd
    <3>3. UnreadBlock(i - 1)' = UnreadBlock((i + 1) - 1)
      BY <1>1, <3>1, <3>2 DEF UnreadBlock
    <3>4. UnreadBlocks'[i] = BlockAt(UnreadBlock(i - 1))'
      BY <1>2 DEF UnreadBlocks
    <3>5. UnreadBlocks[i + 1] = BlockAt(UnreadBlock((i + 1) - 1))
      BY <1>3 DEF UnreadBlocks
    <3> QED BY <1>1, <3>3, <3>4, <3>5 DEF BlockAt
  <2> QED BY <1>2, <1>3, <1>4, <2>1
<1>7. UnreadBlocks # <<>> /\ ReaderState = "reading" /\ ReaderState' = ReaderState
  BY <1>1, <1>2, <1>3 DEF ReaderState
<1> QED BY <1>1, <1>5, <1>6, <1>7 DEF Pipe!Take

\* The ring implements the pipe of blocks: no block is torn, skipped or seen
\* twice, and the reader is told of the end only when the pipe is closed and
\* drained.
THEOREM RingImplementsPipe == SafeSpec => ImplementsPipeSafety
<1>1. Init => Pipe!Init
  <2> SUFFICES ASSUME Init PROVE Pipe!Init
    OBVIOUS
  <2>1. Unread = 0
    BY DEF Init, Unread
  <2>2. UnreadBlocks = <<>>
    BY <2>1 DEF UnreadBlocks
  <2> QED BY <2>2 DEF Init, ReaderState, Pipe!Init
<1>2. IInv /\ IInv' /\ StreamInv /\ StreamInv' /\ [Next]_vars => [Pipe!Next]_(Pipe!vars)
  <2> SUFFICES ASSUME IInv, IInv', StreamInv, StreamInv', [Next]_vars
               PROVE  Pipe!Next \/ UNCHANGED Pipe!vars
    OBVIOUS
  <2> DEFINE Still == UNCHANGED <<UnreadBlocks, shutdown, taken, ReaderState>>
  <2>1. ASSUME Still PROVE UNCHANGED Pipe!vars
    BY <2>1 DEF Pipe!vars
  <2>2. ASSUME UNCHANGED <<data, readBlock, shutdown, taken>>, Unread' = Unread,
               ReaderState' = ReaderState
        PROVE  Still
    BY <2>2, UnreadUnmoved
  <2>3. ASSUME NEW n \in Chunk, WriteCall(n) PROVE Still
    BY <2>2, <2>3 DEF WriteCall, Unread, ReaderState, shared, rvars
  <2>4. ASSUME WriteCopy PROVE Still
    BY <2>4, CopyIsInvisible
  <2>5. ASSUME WriteCommit PROVE Pipe!Next \/ UNCHANGED Pipe!vars
    BY <2>1, <2>5, CommitIsCommit DEF Pipe!Next
  <2>6. ASSUME WriteNotify \/ WriteSleep \/ WriteSpaceFound \/ WriteBailOut PROVE Still
    BY <2>2, <2>6 DEF WriteNotify, WriteSleep, WriteSpaceFound, WriteBailOut,
                      Unread, ReaderState, shared, rvars
  <2>7. ASSUME EofKnownFull \/ EofSleep \/ ConsumeNotify PROVE Still
    BY <2>2, <2>7 DEF EofKnownFull, EofSleep, AtBlockTest, ConsumeNotify,
                      Unread, ReaderState, shared, wvars
  <2>8. ASSUME EofAnswer PROVE Pipe!Next \/ UNCHANGED Pipe!vars
    <3>1. /\ UNCHANGED <<data, readBlock, shutdown, taken, numFullBlocks>>
          /\ rpc \in {"eof", "wait"} /\ BlockOrShutdown
          /\ rpc' = IF rFull' = 0 THEN "ended" ELSE "process"
          /\ rFull' = IF shutdown /\ numFullBlocks = 0 THEN 0 ELSE numFullBlocks
      BY <2>8 DEF EofAnswer, AtBlockTest, shared, wvars
    <3>2. Unread' = Unread /\ ReaderState = "reading" /\ Unread = numFullBlocks
      BY <3>1, Numbers DEF Unread, ReaderState
    <3>3. CASE rFull' = 0
      <4>1. shutdown /\ Unread = 0 /\ ReaderState' = "ended"
        BY <3>1, <3>2, <3>3, Numbers DEF BlockOrShutdown, ReaderState
      <4>2. UnreadBlocks = <<>>
        BY <4>1 DEF UnreadBlocks
      <4>3. Pipe!End
        BY <3>1, <3>2, <4>1, <4>2, UnreadUnmoved DEF Pipe!End
      <4> QED BY <4>3 DEF Pipe!Next
    <3>4. CASE rFull' # 0
      <4>1. ReaderState' = ReaderState
        BY <3>1, <3>2, <3>4 DEF ReaderState
      <4> QED BY <2>1, <2>2, <3>1, <3>2, <4>1
    <3> QED BY <3>3, <3>4
  <2>9. ASSUME Process PROVE Pipe!Next
    BY <2>9, ProcessIsTake DEF Pipe!Next
  <2>10. ASSUME Consume PROVE Still
    <3>1. Unread' = Unread /\ ReaderState' = ReaderState
      BY <2>10, Numbers DEF Consume, Unread, ReaderState
    <3> QED BY <2>2, <2>10, <3>1 DEF Consume, wvars
  <2>11. ASSUME ReaderLeaves PROVE Pipe!Next
    <3>1. UNCHANGED <<data, readBlock, shutdown, taken>> /\ Unread' = Unread
      BY <2>11 DEF ReaderLeaves, Unread, shared, wvars
    <3>2. ReaderState = "reading" /\ ReaderState' = "left"
      BY <2>11 DEF ReaderLeaves, ReaderState
    <3>3. Pipe!Leave
      BY <3>1, <3>2, UnreadUnmoved DEF Pipe!Leave
    <3> QED BY <3>3 DEF Pipe!Next
  <2>12. ASSUME Shutdown PROVE Pipe!Next
    <3>1. /\ UNCHANGED <<data, readBlock, taken>> /\ Unread' = Unread
          /\ ReaderState' = ReaderState /\ shutdown' = TRUE
      BY <2>12 DEF Shutdown, Unread, ReaderState, wvars, rvars
    <3>2. Pipe!Close
      BY <3>1, UnreadUnmoved DEF Pipe!Close
    <3> QED BY <3>2 DEF Pipe!Next
  <2>13. ASSUME \/ ShutdownNotify \/ UNCHANGED vars
                \/ \E t \in {"writer", "reader"} : SpuriousWakeup(t)
         PROVE  Still
    BY <2>2, <2>13 DEF ShutdownNotify, SpuriousWakeup, Unread, ReaderState, vars,
                       shared, wvars, rvars
  <2> HIDE DEF Still
  <2> QED BY <2>1, <2>3, <2>4, <2>5, <2>6, <2>7, <2>8, <2>9, <2>10, <2>11, <2>12, <2>13
          DEF Next, WriterStep, ReaderStep
<1> QED BY RingIInv, RingStreamInv, <1>1, <1>2, PTL
        DEF SafeSpec, ImplementsPipeSafety, Pipe!SafeSpec
=============================================================================
