--------------------------- MODULE SpscFrameQueue ---------------------------
(***************************************************************************)
(* The lock-free queue between the thread that decodes frames and the TCP   *)
(* worker (src/include/SpscFrameQueue.hpp).  tryPush and tryPop are broken  *)
(* at every access to shared memory: the load of the other thread's index,  *)
(* the copy of the frame (two words, so that a torn copy is visible) and    *)
(* the releasing store of the thread's own index.                           *)
(*                                                                          *)
(* An acquire load may return an older value than the latest one, never one *)
(* older than the thread saw before: readSeen and writtenSeen remember how  *)
(* far each thread has seen the other get, and a load picks any point from  *)
(* there to the present.  The indices are unsigned words and wrap.          *)
(***************************************************************************)
EXTENDS Naturals, Integers, Sequences

CONSTANTS Frame,      \* the frames the producer may push
          Capacity,   \* template parameter: slots of the ring
          WordSize,   \* number of values of size_t
          NoWord      \* the content of a slot nobody wrote yet

\* The capacity is a power of two, hence divides the 2^64 values of size_t,
\* and a table of Capacity frames is smaller than the address space.
ASSUME CapacityAssumption ==
  /\ Capacity \in Nat \ {0}
  /\ WordSize \in Nat
  /\ Capacity < WordSize
  /\ WordSize % Capacity = 0

ASSUME NoWordAssumption == NoWord \notin Frame

Word == Frame \union {NoWord}
Slot == [lo : Word, hi : Word]
Whole(f) == [lo |-> f, hi |-> f]
WholeFrame == {Whole(f) : f \in Frame}

VARIABLES write,       \* m_write
          read,        \* m_read
          frames,      \* m_frames
          ppc,         \* where the producer is in tryPush
          pframe,      \* tryPush's argument
          readSeen,    \* pops the producer knows of
          cpc,         \* where the consumer is in tryPop
          cframe,      \* tryPop's result while it is copied
          writtenSeen, \* pushes the consumer knows of
          pushed,      \* history: frames whose push was released
          popped       \* history: frames whose pop was released

pvars == <<ppc, pframe, readSeen, write, pushed>>
cvars == <<cpc, cframe, writtenSeen, read, popped>>
vars == <<pvars, cvars, frames>>

SlotOf(index) == index % Capacity        \* index & (Capacity - 1)

Used(w, r) == (w - r) % WordSize         \* unsigned w - r

Bump(index) == (index + 1) % WordSize

Init ==
  /\ write = 0 /\ read = 0
  /\ frames = [s \in 0..Capacity-1 |-> [lo |-> NoWord, hi |-> NoWord]]
  /\ ppc = "idle" /\ pframe = NoWord /\ readSeen = 0
  /\ cpc = "idle" /\ cframe = [lo |-> NoWord, hi |-> NoWord] /\ writtenSeen = 0
  /\ pushed = <<>> /\ popped = <<>>

-----------------------------------------------------------------------------
(* tryPush *)

\* The value of m_read the producer's acquire load returns after k pops.
LoadRead(k) == k % WordSize

\* The queue looks full: tryPush returns false.
PushRefused ==
  /\ ppc = "idle"
  /\ \E k \in readSeen..Len(popped) :
       /\ Used(write, LoadRead(k)) >= Capacity
       /\ readSeen' = k
  /\ UNCHANGED <<ppc, pframe, write, pushed, frames, cvars>>

\* Mutant: one frame too many is let in.
PushClaimOneTooMany(f) ==
  /\ ppc = "idle"
  /\ \E k \in readSeen..Len(popped) :
       /\ Used(write, LoadRead(k)) <= Capacity
       /\ readSeen' = k
  /\ ppc' = "low"
  /\ pframe' = f
  /\ UNCHANGED <<write, pushed, frames, cvars>>

PushClaim(f) ==
  /\ ppc = "idle"
  /\ \E k \in readSeen..Len(popped) :
       /\ Used(write, LoadRead(k)) < Capacity
       /\ readSeen' = k
  /\ ppc' = "low"
  /\ pframe' = f
  /\ UNCHANGED <<write, pushed, frames, cvars>>

PushLow ==
  /\ ppc = "low"
  /\ frames' = [frames EXCEPT ![SlotOf(write)].lo = pframe]
  /\ ppc' = "high"
  /\ UNCHANGED <<pframe, readSeen, write, pushed, cvars>>

PushHigh ==
  /\ ppc = "high"
  /\ frames' = [frames EXCEPT ![SlotOf(write)].hi = pframe]
  /\ ppc' = "release"
  /\ UNCHANGED <<pframe, readSeen, write, pushed, cvars>>

PushRelease ==
  /\ ppc = "release"
  /\ write' = Bump(write)
  /\ pushed' = Append(pushed, pframe)
  /\ ppc' = "idle"
  /\ UNCHANGED <<pframe, readSeen, frames, cvars>>

-----------------------------------------------------------------------------
(* tryPop *)

\* The value of m_write the consumer's acquire load returns after k pushes.
LoadWrite(k) == k % WordSize

\* The queue looks empty: tryPop returns false.
PopRefused ==
  /\ cpc = "idle"
  /\ \E k \in writtenSeen..Len(pushed) :
       /\ read = LoadWrite(k)
       /\ writtenSeen' = k
  /\ UNCHANGED <<cpc, cframe, read, popped, frames, pvars>>

PopClaim ==
  /\ cpc = "idle"
  /\ \E k \in writtenSeen..Len(pushed) :
       /\ read # LoadWrite(k)
       /\ writtenSeen' = k
  /\ cpc' = "low"
  /\ UNCHANGED <<cframe, read, popped, frames, pvars>>

PopLow ==
  /\ cpc = "low"
  /\ cframe' = [cframe EXCEPT !.lo = frames[SlotOf(read)].lo]
  /\ cpc' = "high"
  /\ UNCHANGED <<writtenSeen, read, popped, frames, pvars>>

PopHigh ==
  /\ cpc = "high"
  /\ cframe' = [cframe EXCEPT !.hi = frames[SlotOf(read)].hi]
  /\ cpc' = "release"
  /\ UNCHANGED <<writtenSeen, read, popped, frames, pvars>>

\* Mutant: tryPop returns without giving the slot back.
PopReleaseForgotten ==
  /\ cpc = "release"
  /\ popped' = Append(popped, cframe)
  /\ cpc' = "idle"
  /\ UNCHANGED <<cframe, read, writtenSeen, frames, pvars>>

PopRelease ==
  /\ cpc = "release"
  /\ read' = Bump(read)
  /\ popped' = Append(popped, cframe)
  /\ cpc' = "idle"
  /\ UNCHANGED <<cframe, writtenSeen, frames, pvars>>

-----------------------------------------------------------------------------
Producer == PushRefused \/ PushLow \/ PushHigh \/ PushRelease
              \/ \E f \in Frame : PushClaim(f)
Consumer == PopRefused \/ PopClaim \/ PopLow \/ PopHigh \/ PopRelease

Next == Producer \/ Consumer

SafeSpec == Init /\ [][Next]_vars

\* Both threads run, the worker polls on every turn of its loop and a store
\* becomes visible in finite time: none of it forces a push to begin.
Fairness ==
  /\ WF_vars(PushLow) /\ WF_vars(PushHigh) /\ WF_vars(PushRelease)
  /\ WF_vars(PopClaim)
  /\ WF_vars(PopLow) /\ WF_vars(PopHigh) /\ WF_vars(PopRelease)

Spec == SafeSpec /\ Fairness

-----------------------------------------------------------------------------
(* Correctness *)

TypeOK ==
  /\ write \in 0..WordSize-1 /\ read \in 0..WordSize-1
  /\ frames \in [0..Capacity-1 -> Slot]
  /\ ppc \in {"idle", "low", "high", "release"} /\ pframe \in Word
  /\ cpc \in {"idle", "low", "high", "release"} /\ cframe \in Slot
  /\ readSeen \in Nat /\ writtenSeen \in Nat
  /\ pushed \in Seq(Frame) /\ popped \in Seq(Slot)

\* The copy of tryPush and the copy of tryPop never touch the same slot at
\* the same time: the frames are not atomic and the two copies not ordered.
NoSlotRace ==
  ppc \in {"low", "high"} /\ cpc \in {"low", "high"} =>
    SlotOf(write) # SlotOf(read)

\* tryPop hands out exactly what tryPush accepted, whole, in the order it was
\* accepted, with nothing lost, repeated or overwritten on the way, also
\* after the indices have wrapped.
FifoOrder ==
  /\ Len(popped) <= Len(pushed)
  /\ \A i \in 1..Len(popped) : popped[i] = Whole(pushed[i])

\* The frames between the two indices, oldest first, as they lie in the ring.
Waiting ==
  [i \in 1..Used(write, read) |-> frames[SlotOf((read + i - 1) % WordSize)]]

Fifo == INSTANCE BoundedFifo WITH
          Item <- WholeFrame, queue <- Waiting, delivered <- popped

\* tryPush and tryPop implement a bounded first-in first-out queue: every
\* step of either thread is a push, a pop or invisible.
ImplementsFifoSafety == Fifo!SafeSpec

\* The same with the promise that a waiting frame is eventually delivered.
ImplementsFifo == Fifo!Spec

-----------------------------------------------------------------------------
(* The inductive invariant: what the indices and the views mean in terms of *)
(* the histories, and which slots hold which frame.                         *)

IndexInv ==
  /\ write = Len(pushed) % WordSize
  /\ read = Len(popped) % WordSize
  /\ Len(popped) <= Len(pushed)
  /\ Len(pushed) <= readSeen + Capacity
  /\ readSeen <= Len(popped)
  /\ Len(popped) <= writtenSeen
  /\ writtenSeen <= Len(pushed)

ProducerInv ==
  ppc # "idle" =>
    /\ pframe \in Frame
    /\ Len(pushed) < readSeen + Capacity
    /\ ppc \in {"high", "release"} => frames[SlotOf(write)].lo = pframe
    /\ ppc = "release" => frames[SlotOf(write)].hi = pframe

ConsumerInv ==
  cpc # "idle" =>
    /\ Len(popped) < writtenSeen
    /\ cpc \in {"high", "release"} => cframe.lo = pushed[Len(popped) + 1]
    /\ cpc = "release" => cframe.hi = pushed[Len(popped) + 1]

SlotInv ==
  \A i \in 1..Len(pushed) :
    i > Len(popped) => frames[(i - 1) % Capacity] = Whole(pushed[i])

IInv ==
  /\ TypeOK /\ IndexInv /\ ProducerInv /\ ConsumerInv /\ SlotInv
  /\ \A i \in 1..Len(popped) : popped[i] = Whole(pushed[i])
=============================================================================
