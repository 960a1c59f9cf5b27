----------------------------- MODULE FrameOutput -----------------------------
(***************************************************************************)
(* What becomes of a frame that is sent (MessageHandler.hpp, ModeS.hpp's    *)
(* MLAT, ModeSFrame.hpp, ModeSFrameEncoder.hpp, AVRWriter.hpp): a line on   *)
(* the standard output and, through the queue and the server, a line or a   *)
(* Beast message for a client.  The two lines come from two encoders.       *)
(*                                                                          *)
(* Numbers on the wire are sequences of bytes, the highest first; a line is *)
(* one of hexadecimal digits and of four characters that are none.          *)
(***************************************************************************)
EXTENDS Integers, Sequences

CONSTANTS StreamCounts,  \* NumStreams, of the samplers
          SampleIndexes, \* the times a frame is sent at
          TimeBytes, ShortBytes, LongBytes, \* 6, 7 and 14
          Bytes,         \* those a frame is made of
          EncodedSize,   \* of EncodedModeSFrame::bytes
          BufferSize,    \* of AVRWriter::m_buf
          MaxSent        \* bound: frames

ASSUME FrameOutputAssumption ==
  /\ {TimeBytes, ShortBytes, LongBytes, EncodedSize, BufferSize} \subseteq Nat \ {0}
  /\ ShortBytes < LongBytes /\ Bytes \subseteq 0..255 /\ MaxSent \in Nat
  /\ StreamCounts \subseteq Nat \ {0} /\ SampleIndexes \subseteq Nat

\* The longest line has 45 characters, for which the code has 64 and 96.
ASSUME RoomAssumption ==
  \A size \in {EncodedSize, BufferSize} : 2 * (TimeBytes + 1 + LongBytes) + 3 <= size

VARIABLES streams,          \* NumStreams, of the one sampler of a run
          withRssi,         \* which of the two handlers it has
          handled,          \* history: the frames, as they were told to the handler
          stdoutChars,      \* what went to the standard output
          avrChars, beastBytes \* what a client of each kind was sent

outputVars == <<streams, withRssi, handled, stdoutChars, avrChars, beastBytes>>

-----------------------------------------------------------------------------
(* The time of a frame in ticks of 12 MHz *)

SampleIndexToMlatTime(n, index) ==
  CASE n = 8 -> index + index \div 2
    [] n = 16 -> index \div 2 + index \div 4
    [] n = 6 -> index * 2
    [] n = 12 -> index
    [] n = 24 -> index \div 2
    [] n = 48 -> index \div 4
    [] n = 10 -> index + index \div 5
    [] n = 20 -> index \div 2 + index \div 10
    [] n = 40 -> index \div 4 + index \div 20
    [] OTHER -> (index * 12) \div n

BigEndian(value, size) == [i \in 1..size |-> (value \div 256^(size - i)) % 256]

\* shortFrame and longFrame; the one without a signal keeps a zero.
ModeSFrame(time, payload, signal, hasSignal) ==
  [mlatTimestamp |-> BigEndian(time, TimeBytes), payload |-> payload, signalLevel |-> signal,
   signalAvailable |-> hasSignal]

-----------------------------------------------------------------------------
(* The Beast message *)

Escape == 26
AppendEscaped(out, byte) == IF byte = Escape THEN out \o <<byte, byte>> ELSE Append(out, byte)
AppendBigEndianEscaped(out, bytes) ==
  LET written[n \in 0..Len(bytes)] ==
        IF n = 0 THEN out ELSE AppendEscaped(written[n - 1], bytes[n])
  IN  written[Len(bytes)]

IsLong(payload) == Len(payload) = LongBytes
Kind(payload) == IF IsLong(payload) THEN 51 ELSE 50

\* Mutant: the signal is a number, not a byte of the message.
EncodeBeastRawSignal(frame) ==
  AppendBigEndianEscaped(Append(AppendBigEndianEscaped(<<Escape, Kind(frame.payload)>>, frame.mlatTimestamp),
                                IF frame.signalAvailable THEN frame.signalLevel ELSE 0),
                         frame.payload)
EncodeBeast(frame) ==
  AppendBigEndianEscaped(<<Escape, Kind(frame.payload)>>,
                         frame.mlatTimestamp
                         \o <<IF frame.signalAvailable THEN frame.signalLevel ELSE 0>>
                         \o frame.payload)

-----------------------------------------------------------------------------
(* The lines *)

AtSign == 16
LessSign == 17
Semicolon == 18
NewLine == 19
Hex(bytes) ==
  [i \in 1..(2 * Len(bytes)) |->
     IF i % 2 = 1 THEN bytes[(i + 1) \div 2] \div 16 ELSE bytes[i \div 2] % 16]

EncodeAvr(frame) ==
  <<IF frame.signalAvailable THEN LessSign ELSE AtSign>> \o Hex(frame.mlatTimestamp)
  \o (IF frame.signalAvailable THEN Hex(<<frame.signalLevel>>) ELSE <<>>)
  \o Hex(frame.payload) \o <<Semicolon, NewLine>>

WriteMLAT(time, payload) ==
  <<AtSign>> \o Hex(BigEndian(time, TimeBytes)) \o Hex(payload) \o <<Semicolon, NewLine>>
WriteMLATRSSI(time, payload, rssi) ==
  <<LessSign>> \o Hex(BigEndian(time, TimeBytes)) \o Hex(<<rssi>>) \o Hex(payload) \o <<Semicolon, NewLine>>

-----------------------------------------------------------------------------
(* The handlers; what the queue may refuse is SpscFrameQueue's *)

InitOutput ==
  /\ streams \in StreamCounts /\ withRssi \in BOOLEAN /\ handled = <<>>
  /\ stdoutChars = <<>> /\ avrChars = <<>> /\ beastBytes = <<>>

Handle(index, payload, rssi, line, frame) ==
  /\ Len(handled) < MaxSent
  /\ handled' = Append(handled, [index |-> index, payload |-> payload, rssi |-> rssi])
  /\ stdoutChars' = stdoutChars \o line
  /\ avrChars' = avrChars \o EncodeAvr(frame)
  /\ beastBytes' = beastBytes \o EncodeBeast(frame)
  /\ UNCHANGED <<streams, withRssi>>

\* StdOutMessageHandler and RssiStdOutMessageHandler.
HandleWithout(index, payload) ==
  LET time == SampleIndexToMlatTime(streams, index)
  IN  Handle(index, payload, <<>>, WriteMLAT(time, payload), ModeSFrame(time, payload, 0, FALSE))
HandleWithRssi(index, payload, rssi) ==
  LET time == SampleIndexToMlatTime(streams, index)
  IN  Handle(index, payload, <<rssi>>, WriteMLATRSSI(time, payload, rssi),
             ModeSFrame(time, payload, rssi, TRUE))

\* Bound: every byte of a frame is one of two, in turn.
NextOutput ==
  \E index \in SampleIndexes, size \in {ShortBytes, LongBytes}, odd \in Bytes, even \in Bytes :
    LET payload == [i \in 1..size |-> IF i % 2 = 1 THEN odd ELSE even]
    IN  \/ ~withRssi /\ HandleWithout(index, payload)
        \/ withRssi /\ \E rssi \in Bytes : HandleWithRssi(index, payload, rssi)

-----------------------------------------------------------------------------
(* Properties *)

\* A client that reads byte after byte: an escape is followed by another, and
\* they are a byte of the message, or by a kind, with which a message begins.
\* The kind tells how many bytes are left to come; when there are more or fewer
\* the client is lost.
AtStart == [messages |-> <<>>, message |-> <<>>, left |-> 0, escaped |-> FALSE, lost |-> FALSE]
ReadKind(r, kind) ==
  [messages |-> r.messages, message |-> <<kind>>, escaped |-> FALSE,
   left |-> TimeBytes + 1 + (IF kind = 51 THEN LongBytes ELSE ShortBytes),
   lost |-> r.lost \/ r.left # 0 \/ kind \notin {50, 51}]
ReadByte(r, byte) ==
  LET message == Append(r.message, byte)
  IN  [messages |-> IF r.left = 1 THEN Append(r.messages, message) ELSE r.messages,
       message |-> message, escaped |-> FALSE, left |-> r.left - 1, lost |-> r.lost \/ r.left = 0]
ReadOn(r, byte) ==
  CASE r.escaped /\ byte # Escape -> ReadKind(r, byte)
    [] ~r.escaped /\ byte = Escape -> [r EXCEPT !.escaped = TRUE]
    [] OTHER -> ReadByte(r, byte)
Read(bytes) ==
  LET read[n \in 0..Len(bytes)] == IF n = 0 THEN AtStart ELSE ReadOn(read[n - 1], bytes[n])
  IN  read[Len(bytes)]

Ticks(f) == SampleIndexToMlatTime(streams, f.index)

\* Whatever bytes a frame is made of, a Beast client reads back every frame and
\* loses its place nowhere, no message is longer than its buffer, a line of the
\* server is a line of the standard output, and the time is within two ticks of
\* the sample's (ModeSFrameEncoder.hpp:22-67, AVRWriter.hpp:53-104,
\* MessageHandler.hpp:31-116, ModeS.hpp:226-276).
FramesReadBack ==
  /\ LET reader == Read(beastBytes)
     IN  /\ reader.messages =
              [n \in DOMAIN handled |->
                 LET f == handled[n]
                 IN  <<Kind(f.payload)>> \o BigEndian(Ticks(f), TimeBytes)
                     \o (IF f.rssi = <<>> THEN <<0>> ELSE f.rssi) \o f.payload]
         /\ reader.left = 0 /\ ~reader.escaped /\ ~reader.lost
  /\ avrChars = stdoutChars
  /\ \A n \in DOMAIN handled :
       LET f == handled[n]
           frame == ModeSFrame(Ticks(f), f.payload, IF f.rssi = <<>> THEN 0 ELSE f.rssi[1], f.rssi # <<>>)
       IN  /\ {Len(EncodeBeast(frame)), Len(EncodeAvr(frame))} \subseteq 0..EncodedSize
           /\ Len(EncodeAvr(frame)) <= BufferSize
           /\ f.index * 12 - Ticks(f) * streams \in 0..(2 * streams - 1)
=============================================================================
