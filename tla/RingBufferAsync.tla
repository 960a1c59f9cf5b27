--------------------------- MODULE RingBufferAsync ---------------------------
(***************************************************************************)
(* The ring of sample blocks between a device thread and the main thread    *)
(* (src/include/RingBuffer.hpp): RingBufferAsync with its one writer and    *)
(* one reader, and the thread that announces the end.                       *)
(*                                                                          *)
(* Every critical section of m_mutex is one step, and so is everything a    *)
(* thread does on its own between two of them.  The condition variable is   *)
(* the set of threads asleep on it; a notify is a step of its own because   *)
(* the code notifies after unlocking.                                       *)
(*                                                                          *)
(* The elements a caller writes are numbered 1, 2, 3, ... in the order      *)
(* write is given them, so that a stale, lost or repeated element shows.    *)
(***************************************************************************)
EXTENDS Integers, Sequences

CONSTANTS BlockSize, NumBlocks,   \* template parameters
          Chunk                   \* the lengths write may be called with

ASSUME SizeAssumption ==
  /\ BlockSize \in Nat \ {0}
  /\ NumBlocks \in Nat \ {0}
  /\ Chunk \subseteq Nat \ {0}

Size == BlockSize * NumBlocks

VARIABLES
  data,          \* m_data: the number of the element at each index, 0: none
  numFullBlocks, \* shared: unread full blocks
  shutdown,      \* shared: no more data will be written
  asleep,        \* the threads waiting on m_condVar
  wpc,           \* writer: "run", "wait", "commit", "notify"
  writePos,      \* writer: m_writePos
  wFull,         \* writer: its m_numFullBlocks, stale between two commits
  remaining,     \* writer: elements of the current write not yet handled
  next,          \* writer: number of the element newData points to
  newBlocks,     \* writer: numNewFullBlocks between copy and commit
  rpc,           \* reader: "eof", "wait", "process", "consume", "notify",
                 \*         "ended" or "left"
  readBlock,     \* reader: m_readBlockIndex
  rFull,         \* reader: its m_numFullBlocks
  closer,        \* the thread in shutdown(): "open", "notify", "closed"
  taken,         \* history: the blocks processed, in order
  dropped        \* history: the elements a write gave up

wvars == <<wpc, writePos, wFull, remaining, next, newBlocks, dropped>>
rvars == <<rpc, readBlock, rFull, taken>>
shared == <<numFullBlocks, shutdown>>
vars == <<data, shared, asleep, wvars, rvars, closer>>

Init ==
  /\ data = [i \in 0..Size-1 |-> 0]
  /\ numFullBlocks = 0 /\ shutdown = FALSE /\ asleep = {}
  /\ wpc = "run" /\ writePos = 0 /\ wFull = 0 /\ remaining = 0 /\ next = 1
  /\ newBlocks = 0 /\ dropped = {}
  /\ rpc = "eof" /\ readBlock = 0 /\ rFull = 0 /\ taken = <<>>
  /\ closer = "open"

Lesser(a, b) == IF a <= b THEN a ELSE b

\* m_condVar.notify_one(): some sleeper, if there is one, becomes runnable.
NotifyOne ==
  \/ asleep = {} /\ asleep' = {}
  \/ \E t \in asleep : asleep' = asleep \ {t}

-----------------------------------------------------------------------------
(* RingBufferAsyncWriter::write *)

BlockOffset == writePos % BlockSize

UsedElems == wFull * BlockSize + BlockOffset
FreeElems == Size - UsedElems
NumToWrite == Lesser(remaining, FreeElems)

\* Where the k-th element of the current copy goes, with the wrap of
\* RingBufferBase::write, and which element an index would be given.
Target(k) == (writePos + k) % Size
CopyRank(i) == (i - writePos) % Size

Running == wpc = "run" /\ remaining > 0

\* A caller enters write; finishLastBlock is such a call with the length of
\* what the last block lacks.
WriteCall(n) ==
  /\ wpc = "run" /\ remaining = 0
  /\ remaining' = n
  /\ UNCHANGED <<data, shared, asleep, wpc, writePos, wFull, next, newBlocks,
                 dropped, rvars, closer>>

\* Mutant: newData is not moved past what was copied.
WriteCopySame ==
  /\ Running /\ FreeElems # 0
  /\ data' = [i \in 0..Size-1 |->
               IF CopyRank(i) < NumToWrite THEN next + CopyRank(i) ELSE data[i]]
  /\ newBlocks' = (BlockOffset + NumToWrite) \div BlockSize
  /\ writePos' = (writePos + NumToWrite) % Size
  /\ remaining' = remaining - NumToWrite
  /\ wpc' = IF newBlocks' > 0 THEN "commit" ELSE "run"
  /\ UNCHANGED <<shared, asleep, wFull, next, dropped, rvars, closer>>

\* The copy, before the blocks it completes are committed.
WriteCopy ==
  /\ Running /\ FreeElems # 0
  /\ data' = [i \in 0..Size-1 |->
               IF CopyRank(i) < NumToWrite THEN next + CopyRank(i) ELSE data[i]]
  /\ newBlocks' = (BlockOffset + NumToWrite) \div BlockSize
  /\ writePos' = (writePos + NumToWrite) % Size
  /\ next' = next + NumToWrite
  /\ remaining' = remaining - NumToWrite
  /\ wpc' = IF newBlocks' > 0 THEN "commit" ELSE "run"
  /\ UNCHANGED <<shared, asleep, wFull, dropped, rvars, closer>>

\* commitBlocks under the mutex ...
WriteCommit ==
  /\ wpc = "commit"
  /\ numFullBlocks' = numFullBlocks + newBlocks
  /\ wFull' = numFullBlocks'
  /\ wpc' = "notify"
  /\ UNCHANGED <<data, shutdown, asleep, writePos, remaining, next, newBlocks,
                 dropped, rvars, closer>>

\* Mutant: the commit wakes nobody.
WriteNotifyNobody ==
  /\ wpc = "notify"
  /\ wpc' = "run"
  /\ newBlocks' = 0
  /\ UNCHANGED <<data, shared, asleep, writePos, wFull, remaining, next,
                 dropped, rvars, closer>>

\* ... and its notify_one after it.
WriteNotify ==
  /\ wpc = "notify"
  /\ NotifyOne
  /\ wpc' = "run"
  /\ newBlocks' = 0
  /\ UNCHANGED <<data, shared, writePos, wFull, remaining, next, dropped,
                 rvars, closer>>

\* In waitForSpace(1), entered or woken.
AtSpaceTest == \/ Running /\ FreeElems = 0
               \/ wpc = "wait" /\ "writer" \notin asleep

SpaceOrShutdown == shutdown \/ NumBlocks - numFullBlocks >= 1

WriteSleep ==
  /\ AtSpaceTest /\ ~SpaceOrShutdown
  /\ asleep' = asleep \union {"writer"}
  /\ wpc' = "wait"
  /\ UNCHANGED <<data, shared, writePos, wFull, remaining, next, newBlocks,
                 dropped, rvars, closer>>

WriteSpaceFound ==
  /\ AtSpaceTest /\ SpaceOrShutdown
  /\ numFullBlocks # NumBlocks
  /\ wFull' = numFullBlocks
  /\ wpc' = "run"
  /\ UNCHANGED <<data, shared, asleep, writePos, remaining, next, newBlocks,
                 dropped, rvars, closer>>

\* No space because of the shutdown: the rest of the call is thrown away.
WriteBailOut ==
  /\ AtSpaceTest /\ SpaceOrShutdown
  /\ numFullBlocks = NumBlocks
  /\ dropped' = dropped \union (next..next + remaining - 1)
  /\ next' = next + remaining
  /\ remaining' = 0
  /\ wpc' = "run"
  /\ UNCHANGED <<data, shared, asleep, writePos, wFull, newBlocks, rvars,
                 closer>>

WriterStep == WriteCopy \/ WriteCommit \/ WriteNotify \/ WriteSleep
                \/ WriteSpaceFound \/ WriteBailOut

-----------------------------------------------------------------------------
(* RingBufferAsyncReader: while (!eof()) process(...) *)

EofKnownFull ==
  /\ rpc = "eof" /\ rFull > 0
  /\ rpc' = "process"
  /\ UNCHANGED <<data, shared, asleep, wvars, readBlock, rFull, taken, closer>>

\* In waitForNewBlocks, entered or woken.
AtBlockTest == \/ rpc = "eof" /\ rFull = 0
               \/ rpc = "wait" /\ "reader" \notin asleep

BlockOrShutdown == shutdown \/ numFullBlocks > 0

EofSleep ==
  /\ AtBlockTest /\ ~BlockOrShutdown
  /\ asleep' = asleep \union {"reader"}
  /\ rpc' = "wait"
  /\ UNCHANGED <<data, shared, wvars, readBlock, rFull, taken, closer>>

\* Mutant: a shutdown ends the reader with blocks still unread.
EofAnswerAtShutdown ==
  /\ AtBlockTest /\ BlockOrShutdown
  /\ rFull' = IF shutdown THEN 0 ELSE numFullBlocks
  /\ rpc' = IF rFull' = 0 THEN "ended" ELSE "process"
  /\ UNCHANGED <<data, shared, asleep, wvars, readBlock, taken, closer>>

EofAnswer ==
  /\ AtBlockTest /\ BlockOrShutdown
  /\ rFull' = IF shutdown /\ numFullBlocks = 0 THEN 0 ELSE numFullBlocks
  /\ rpc' = IF rFull' = 0 THEN "ended" ELSE "process"
  /\ UNCHANGED <<data, shared, asleep, wvars, readBlock, taken, closer>>

BlockAt(b) == [i \in 1..BlockSize |-> data[b * BlockSize + i - 1]]

\* processingFunc reads the block: the writer may run until it is done.
Process ==
  /\ rpc = "process"
  /\ taken' = Append(taken, BlockAt(readBlock))
  /\ readBlock' = (readBlock + 1) % NumBlocks
  /\ rpc' = "consume"
  /\ UNCHANGED <<data, shared, asleep, wvars, rFull, closer>>

\* consumeBlocks(1) under the mutex ...
Consume ==
  /\ rpc = "consume"
  /\ numFullBlocks' = numFullBlocks - 1
  /\ rFull' = numFullBlocks'
  /\ rpc' = "notify"
  /\ UNCHANGED <<data, shutdown, asleep, wvars, readBlock, taken, closer>>

\* ... and its notify_one after it.
ConsumeNotify ==
  /\ rpc = "notify"
  /\ NotifyOne
  /\ rpc' = "eof"
  /\ UNCHANGED <<data, shared, wvars, readBlock, rFull, taken, closer>>

\* The main loop stops between two blocks: InputBufferReader::eof adds
\* shutdownRequested() to the reader's own answer.
ReaderLeaves ==
  /\ rpc = "process"
  /\ rpc' = "left"
  /\ UNCHANGED <<data, shared, asleep, wvars, readBlock, rFull, taken, closer>>

ReaderStep == EofKnownFull \/ EofSleep \/ EofAnswer \/ Process \/ Consume
                \/ ConsumeNotify

-----------------------------------------------------------------------------
(* shutdown(), by the watchdog, by stop() or by the end of the device *)

Shutdown ==
  /\ closer = "open"
  /\ shutdown' = TRUE
  /\ closer' = "notify"
  /\ UNCHANGED <<data, numFullBlocks, asleep, wvars, rvars>>

\* Mutant: the notification of shutdown() reaches no thread.
ShutdownNotifyNobody ==
  /\ closer = "notify"
  /\ closer' = "closed"
  /\ UNCHANGED <<data, shared, asleep, wvars, rvars>>

ShutdownNotify ==
  /\ closer = "notify"
  /\ asleep' = {}
  /\ closer' = "closed"
  /\ UNCHANGED <<data, shared, wvars, rvars>>

\* The standard library may wake a sleeper for no reason.
SpuriousWakeup(t) ==
  /\ t \in asleep
  /\ asleep' = asleep \ {t}
  /\ UNCHANGED <<data, shared, wvars, rvars, closer>>

-----------------------------------------------------------------------------
Next ==
  \/ \E n \in Chunk : WriteCall(n)
  \/ WriterStep \/ ReaderStep \/ ReaderLeaves
  \/ Shutdown \/ ShutdownNotify
  \/ \E t \in {"writer", "reader"} : SpuriousWakeup(t)

SafeSpec == Init /\ [][Next]_vars

\* The threads are scheduled and a started notification is carried out;
\* nobody has to call write, to shut down, to leave or to wake a sleeper.
Fairness == WF_vars(WriterStep) /\ WF_vars(ReaderStep) /\ WF_vars(ShutdownNotify)

Spec == SafeSpec /\ Fairness

-----------------------------------------------------------------------------
(* Correctness *)

TypeOK ==
  /\ data \in [0..Size-1 -> Nat]
  /\ numFullBlocks \in 0..NumBlocks /\ shutdown \in BOOLEAN
  /\ asleep \subseteq {"writer", "reader"}
  /\ wpc \in {"run", "wait", "commit", "notify"}
  /\ writePos \in 0..Size-1 /\ wFull \in 0..NumBlocks
  /\ remaining \in Nat /\ next \in Nat \ {0} /\ newBlocks \in 0..NumBlocks
  /\ rpc \in {"eof", "wait", "process", "consume", "notify", "ended", "left"}
  /\ readBlock \in 0..NumBlocks-1 /\ rFull \in 0..NumBlocks
  /\ closer \in {"open", "notify", "closed"}
  /\ taken \in Seq([1..BlockSize -> Nat]) /\ dropped \subseteq Nat

\* The blocks that are full and that the reader has not finished with.
Unread == numFullBlocks - IF rpc = "consume" THEN 1 ELSE 0
UnreadBlock(i) == (readBlock + i) % NumBlocks
UnreadIndex(x) == \E i \in 0..Unread-1 : x \div BlockSize = UnreadBlock(i)

\* write never copies over an element of a block the reader has not finished
\* with, though it decides from its own stale count of full blocks, and the
\* free space it computes from that count never goes below zero.
NoOverwrite ==
  /\ UsedElems <= Size
  /\ Running => \A k \in 0..NumToWrite-1 : ~UnreadIndex(Target(k))

\* The elements of all blocks taken so far, in the order they were processed.
Element(k) == taken[((k - 1) \div BlockSize) + 1][((k - 1) % BlockSize) + 1]
NumTaken == Len(taken) * BlockSize

\* The reader sees the written stream in order, each element once, and a gap
\* is only ever what a write gave up, which takes a shutdown.
StreamOrder ==
  /\ \A k \in 2..NumTaken : Element(k-1) < Element(k)
  /\ NumTaken > 0 =>
       (1..Element(NumTaken)) \ {Element(k) : k \in 1..NumTaken} \subseteq dropped
  /\ dropped # {} => shutdown

\* One condition variable serves both sides and is signalled with notify_one:
\* that is sound because the two sides are never asleep on it together.
NeverBothAsleep == ~({"writer", "reader"} \subseteq asleep)

\* Whoever sleeps although what it waits for has come is about to be woken.
NoLostWakeup ==
  /\ "reader" \in asleep /\ BlockOrShutdown =>
       wpc = "notify" \/ closer = "notify"
  /\ "writer" \in asleep /\ SpaceOrShutdown =>
       rpc = "notify" \/ closer = "notify"

\* The blocks that wait for the reader, as it will see them.
UnreadBlocks == [i \in 1..Unread |-> BlockAt(UnreadBlock(i - 1))]
ReaderState == IF rpc \in {"ended", "left"} THEN rpc ELSE "reading"

Pipe == INSTANCE BlockPipe WITH
  Block <- [1..BlockSize -> Nat \ {0}], Room <- NumBlocks,
  pipe <- UnreadBlocks,
  closed <- shutdown, reader <- ReaderState

\* The ring buffer implements the pipe of blocks: no block is torn, skipped
\* or seen twice, EOF is reported only when it is closed and drained, and a
\* reader that stays gets every block and, in the end, the EOF.
ImplementsPipe == Pipe!Spec

\* Its safety part: every step is a step of the pipe or none.
ImplementsPipeSafety == Pipe!SafeSpec

\* After shutdown() no thread stays in the buffer: a writer waiting for space
\* returns, and the reader comes to its end once the writer writes no more.
WriterReleased == shutdown /\ wpc = "wait" ~> wpc # "wait"
ReaderReleased == shutdown ~> rpc \in {"ended", "left"}

\* A writer waiting for space gets it from any reader that goes on reading.
SpaceComes == wpc = "wait" ~> wpc # "wait" \/ rpc = "left"

\* Nobody stays asleep: shutdown() releases the writer and brings the reader
\* to its end (RingBuffer.hpp:112-121), and before it a reader that reads on
\* makes room for the writer (95, 228).
NobodyStuck == WriterReleased /\ ReaderReleased /\ SpaceComes

-----------------------------------------------------------------------------
(* The inductive invariant behind NoOverwrite: the shared count of full      *)
(* blocks, each side's stale copy of it, and the two positions in the ring.  *)

\* Blocks completed by a copy whose commit is still to come.
Pending == IF wpc = "commit" THEN newBlocks ELSE 0

CountInv ==
  /\ numFullBlocks <= wFull
  /\ (wFull + Pending) * BlockSize + BlockOffset <= Size
  /\ rFull <= numFullBlocks \/ rpc \in {"consume"}
  /\ rpc \in {"process", "consume"} => numFullBlocks > 0

PositionInv ==
  writePos \div BlockSize = (readBlock + Unread + Pending) % NumBlocks

IInv == TypeOK /\ CountInv /\ PositionInv

\* What has been copied into the ring and not been taken: the elements of the
\* unread blocks, of those about to be committed and of the block that grows,
\* each at its place.
Live == (Unread + Pending) * BlockSize + BlockOffset
Place(j) == (readBlock * BlockSize + j) % Size

\* All that was copied, in the order of the reader: first what it took.
Copied == NumTaken + Live
Stream(k) == IF k <= NumTaken THEN Element(k) ELSE data[Place(k - NumTaken - 1)]

\* The invariant behind StreamOrder and ImplementsPipe: the elements in the
\* ring continue those taken, and what is in neither was given up.
StreamInv ==
  /\ \A k \in 1..Copied : Stream(k) \in 1..next-1
  /\ \A j, k \in 1..Copied : j < k => Stream(j) < Stream(k)
  /\ \A n \in 1..next-1 : n \in dropped \/ \E k \in 1..Copied : n = Stream(k)
  /\ dropped # {} => shutdown

\* The invariant behind NeverBothAsleep and NoLostWakeup.
SleepInv ==
  /\ TypeOK /\ NoLostWakeup /\ NeverBothAsleep
  /\ "writer" \in asleep => wpc = "wait"
  /\ "reader" \in asleep => rpc = "wait"
  /\ shutdown <=> closer # "open"
=============================================================================
