---- MODULE TcpOutputServerProofs ----
(***************************************************************************)
(* For any peers, protocols, limits and interleavings: the worker's list of *)
(* clients is the clients it serves, each gets its own stream, and none     *)
(* holds more than the bound.  For any frames: a client reads them back     *)
(* from that stream.                                                        *)
(***************************************************************************)
EXTENDS TcpOutputServer, FrameOutput, ModularArithmetic, SequenceTheorems, FiniteSetTheorems, TLAPS

-----------------------------------------------------------------------------
(* The inductive invariant *)

Client == [peer : Peer, open : BOOLEAN, pending : Seq(Byte), offset : Nat]

PeerState == {"new", "waiting", "connected", "refused", "left"}
Place == {"head", "poll", "accept", "distribute", "flush", "closeSockets", "ended"}

TypeInv ==
  /\ offered \in 0..MaxFrames /\ dropped \in 0..offered
  /\ queue \in Seq(1..MaxFrames) /\ Len(queue) <= QueueRoom
  /\ isRunning \in BOOLEAN /\ mpc \in {"publishing", "join", "stopped"}
  /\ wpc \in Place /\ turn \in Nat \ {0}
  /\ readable \subseteq Protocol /\ hungUp \subseteq Peer
  /\ peerState \in [Peer -> PeerState]
  /\ wire \in [Peer -> Seq(Byte)] /\ unread \in [Peer -> 0..SocketRoom]
  /\ popped \in Seq(1..MaxFrames) /\ since \in [Peer -> Nat]
  /\ \A p \in Peer : since[p] <= Len(popped)
  /\ clients \in Seq(Client)

\* A client's buffer is bounded: what is to be sent by the limit, what was
\* sent by the prefix that is not yet erased.
ClientInv(c) ==
  /\ c \in Client /\ c.offset <= Len(c.pending)
  /\ Unsent(c) <= ClientBufferLimit
  /\ Len(c.pending) <= ClientBufferLimit + CompactAt

ListInv ==
  /\ \A i \in 1..Len(clients) :
       ClientInv(clients[i]) /\ peerState[clients[i].peer] \in {"connected", "left"}
  /\ \A i, j \in 1..Len(clients) : clients[i].peer = clients[j].peer => i = j
  /\ Len(clients) <= MaxClients
  /\ wpc \in {"head", "poll"} => \A i \in 1..Len(clients) : clients[i].open

\* The sequence t is w and then p from behind its first o elements.
Splits(w, p, o, t) ==
  /\ Len(t) = Len(w) + (Len(p) - o)
  /\ \A k \in 1..Len(w) : w[k] = t[k]
  /\ \A k \in 1..(Len(p) - o) : p[o + k] = t[Len(w) + k]

\* The stream of any frames.
StreamOf(frames, n, protocol) ==
  LET size == FrameSize[protocol]
  IN  [k \in 1..(Len(frames) - n) * size |->
        <<frames[n + ((k - 1) \div size) + 1], ((k - 1) % size) + 1>>]

\* The stream of a peer that was accepted after ss[p] of the frames.
Stream(p, ss, frames) == StreamOf(frames, ss[p], ProtocolOf[p])

\* What was sent to a client and what lies ready for it are its stream.
Whole(c, ws, ss, frames) ==
  c.open => Splits(ws[c.peer], c.pending, c.offset, Stream(c.peer, ss, frames))

StreamInv ==
  /\ \A p \in Peer : /\ Starts(wire[p], Stream(p, since, popped))
                     /\ peerState[p] \notin {"connected", "left"} => wire[p] = <<>>
  /\ \A i \in 1..Len(clients) : Whole(clients[i], wire, since, popped)

IInv == TypeInv /\ ListInv /\ StreamInv

-----------------------------------------------------------------------------
(* Streams and buffers *)

\* One sequence after another.
LEMMA Appended ==
  ASSUME NEW S, NEW s \in Seq(S), NEW t \in Seq(S)
  PROVE  /\ s \o t \in Seq(S) /\ Len(s \o t) = Len(s) + Len(t)
         /\ \A k \in 1..Len(s) : (s \o t)[k] = s[k]
         /\ \A k \in 1..Len(t) : (s \o t)[Len(s) + k] = t[k]
<1>1. ASSUME NEW k \in 1..Len(t) PROVE (s \o t)[Len(s) + k] = t[k]
  <2>1. /\ Len(s) + k \in 1..Len(s) + Len(t) /\ ~(Len(s) + k <= Len(s))
        /\ Len(s) + k - Len(s) = k
    OBVIOUS
  <2> QED BY <2>1, ConcatProperties
<1>2. ASSUME NEW k \in 1..Len(s) PROVE (s \o t)[k] = s[k]
  <2>1. k \in 1..Len(s) + Len(t) /\ k <= Len(s)
    OBVIOUS
  <2> QED BY <2>1, ConcatProperties
<1> QED BY <1>1, <1>2, ConcatProperties

\* Places of a frame and of its bytes.
LEMMA BytePlace ==
  ASSUME NEW size \in Nat \ {0}, NEW m \in Nat, NEW k \in 1..m * size
  PROVE  (k - 1) \div size \in 0..m-1 /\ (k - 1) % size \in 0..size-1
<1> DEFINE q == (k - 1) \div size
           r == (k - 1) % size
<1>0. m * size \in Nat
  OBVIOUS
<1>1. k - 1 \in Int /\ k - 1 >= 0 /\ k - 1 < m * size
  BY <1>0
<1>2. q \in Int /\ r \in 0..size-1 /\ k - 1 = size * q + r
  BY <1>1, DivMod
<1> HIDE DEF q, r
<1>3. q >= 0
  <2>1. SUFFICES ASSUME q <= -1 PROVE FALSE
    BY <1>2
  <2>2. size * q <= -size
    BY <1>2, <2>1
  <2> QED BY <1>1, <1>2, <2>2
<1>4. q < m
  <2>1. SUFFICES ASSUME q >= m PROVE FALSE
    BY <1>2
  <2>2. size * q >= m * size
    BY <1>2, <2>1
  <2> QED BY <1>0, <1>1, <1>2, <2>2
<1> QED BY <1>2, <1>3, <1>4 DEF q, r

\* A stream is made of bytes.
LEMMA StreamType ==
  ASSUME NEW frames \in Seq(1..MaxFrames), NEW n \in 0..Len(frames),
         NEW protocol \in Protocol
  PROVE  /\ StreamOf(frames, n, protocol) \in Seq(Byte)
         /\ Len(StreamOf(frames, n, protocol)) = (Len(frames) - n) * FrameSize[protocol]
<1> DEFINE size == FrameSize[protocol]
           m == Len(frames) - n
           t == StreamOf(frames, n, protocol)
<1>1. size \in Nat \ {0} /\ m \in Nat
  BY ServerAssumption
<1>2. m * size \in Nat
  BY <1>1
<1>3. ASSUME NEW k \in 1..m * size
      PROVE  <<frames[n + ((k - 1) \div size) + 1], ((k - 1) % size) + 1>> \in Byte
  <2>1. (k - 1) \div size \in 0..m-1 /\ (k - 1) % size \in 0..size-1
    BY <1>1, BytePlace
  <2>2. n + ((k - 1) \div size) + 1 \in 1..Len(frames)
    BY <1>1, <2>1
  <2>3. frames[n + ((k - 1) \div size) + 1] \in 1..MaxFrames
    BY <2>2, ElementOfSeq
  <2>4. ((k - 1) % size) + 1 \in Nat
    BY <1>1, <2>1
  <2> QED BY <2>3, <2>4 DEF Byte
<1>4. t = [k \in 1..m * size |->
             <<frames[n + ((k - 1) \div size) + 1], ((k - 1) % size) + 1>>]
  BY DEF StreamOf
<1>5. t \in [1..m * size -> Byte]
  BY <1>3, <1>4
<1> HIDE DEF t
<1>6. t \in Seq(Byte) /\ Len(t) = m * size
  BY <1>2, <1>5
<1> QED BY <1>6 DEF t

\* One more frame is one more encoded frame at the end of the stream.
LEMMA StreamGrows ==
  ASSUME NEW frames \in Seq(1..MaxFrames), NEW n \in 0..Len(frames),
         NEW protocol \in Protocol, NEW f \in 1..MaxFrames
  PROVE  LET t == StreamOf(frames, n, protocol)
             u == StreamOf(Append(frames, f), n, protocol)
             e == Encode(f, protocol)
         IN  /\ e \in Seq(Byte) /\ Len(u) = Len(t) + Len(e)
             /\ \A k \in 1..Len(t) : u[k] = t[k]
             /\ \A k \in 1..Len(e) : u[Len(t) + k] = e[k]
<1> DEFINE size == FrameSize[protocol]
           m == Len(frames) - n
           more == Append(frames, f)
           t == StreamOf(frames, n, protocol)
           u == StreamOf(more, n, protocol)
           e == Encode(f, protocol)
<1>1. size \in Nat \ {0} /\ m \in Nat /\ Len(frames) \in Nat
  BY ServerAssumption
<1>2. /\ more \in Seq(1..MaxFrames) /\ Len(more) = Len(frames) + 1 /\ Len(more) - n = m + 1
      /\ more[Len(frames) + 1] = f /\ \A i \in 1..Len(frames) : more[i] = frames[i]
  BY <1>1
<1>3. e \in Seq(Byte) /\ Len(e) = size
  <2>1. \A k \in 1..size : <<f, k>> \in Byte
    BY <1>1 DEF Byte
  <2>2. e \in [1..size -> Byte]
    BY <2>1 DEF Encode
  <2> QED BY <1>1, <2>2
<1>4. Len(t) = m * size /\ Len(u) = (m + 1) * size
  <2>1. n \in 0..Len(more)
    BY <1>1, <1>2
  <2>2. Len(u) = (Len(more) - n) * size
    BY <1>2, <2>1, StreamType
  <2> QED BY <1>2, <2>2, StreamType
<1>5. m * size \in Nat /\ (m + 1) * size = m * size + size
  BY <1>1
<1>6. \A k \in 1..(m + 1) * size :
        u[k] = <<more[n + ((k - 1) \div size) + 1], ((k - 1) % size) + 1>>
  BY <1>2 DEF StreamOf
<1>7. ASSUME NEW k \in 1..m * size PROVE u[k] = t[k]
  <2>1. t[k] = <<frames[n + ((k - 1) \div size) + 1], ((k - 1) % size) + 1>>
    BY DEF StreamOf
  <2>2. (k - 1) \div size \in 0..m-1
    BY <1>1, BytePlace
  <2>3. n + ((k - 1) \div size) + 1 \in 1..Len(frames)
    BY <1>1, <2>2
  <2>4. k \in 1..(m + 1) * size
    BY <1>1, <1>5
  <2> QED BY <1>2, <1>6, <2>1, <2>3, <2>4
<1>8. ASSUME NEW j \in 1..size PROVE u[m * size + j] = e[j]
  <2> DEFINE k == m * size + j
  <2>1. k \in 1..(m + 1) * size /\ k - 1 = size * m + (j - 1)
    BY <1>1, <1>5
  <2>2. (k - 1) \div size = m /\ (k - 1) % size = j - 1
    <3>1. k - 1 \in Int /\ j - 1 \in 0..size-1 /\ m \in Int
      BY <1>1, <1>5
    <3> QED BY <1>1, <2>1, <3>1, DivUnique, ModUnique
  <2> HIDE DEF k
  <2>3. u[k] = <<more[n + m + 1], (j - 1) + 1>>
    BY <1>6, <2>1, <2>2
  <2>4. n + m + 1 = Len(frames) + 1 /\ (j - 1) + 1 = j
    BY <1>1
  <2>5. e[j] = <<f, j>>
    BY DEF Encode
  <2> QED BY <1>2, <2>3, <2>4, <2>5 DEF k
<1> HIDE DEF t, u, e, size, m
<1>9. /\ e \in Seq(Byte) /\ Len(u) = Len(t) + Len(e)
      /\ \A k \in 1..Len(t) : u[k] = t[k]
      /\ \A k \in 1..Len(e) : u[Len(t) + k] = e[k]
  BY <1>3, <1>4, <1>5, <1>7, <1>8
<1> QED BY <1>9 DEF t, u, e

\* What was sent and what lies ready make up the stream.
LEMMA SplitsMeans ==
  ASSUME NEW w \in Seq(Byte), NEW p \in Seq(Byte), NEW o \in 0..Len(p),
         NEW t \in Seq(Byte), Splits(w, p, o, t)
  PROVE  w \o From(p, o + 1) = t
<1> DEFINE r == From(p, o + 1)
<1>1. r \in Seq(Byte) /\ Len(r) = Len(p) - o /\ \A k \in 1..Len(p) - o : r[k] = p[o + k]
  BY DEF From
<1> HIDE DEF r
<1>2. w \o r \in Seq(Byte) /\ Len(w \o r) = Len(t)
  BY <1>1, Appended DEF Splits
<1>0. Len(w) \in Nat /\ Len(p) \in Nat /\ Len(t) \in Nat
  BY LenProperties
<1>3. ASSUME NEW k \in 1..Len(t) PROVE (w \o r)[k] = t[k]
  <2>1. CASE k <= Len(w)
    BY <1>1, <2>1, Appended DEF Splits
  <2>2. CASE k > Len(w)
    <3> DEFINE j == k - Len(w)
    <3>1. j \in 1..Len(p) - o /\ Len(w) + j = k
      BY <1>0, <2>2 DEF Splits
    <3> HIDE DEF j
    <3>2. (w \o r)[Len(w) + j] = r[j] /\ r[j] = p[o + j]
      BY <1>1, <3>1, Appended
    <3>3. p[o + j] = t[Len(w) + j]
      BY <3>1 DEF Splits
    <3> QED BY <3>1, <3>2, <3>3
  <2>3. k <= Len(w) \/ k > Len(w)
    BY <1>0
  <2> QED BY <2>1, <2>2, <2>3
<1> HIDE DEF Splits
<1>4. w \o r = t
  BY <1>2, <1>3, SeqEqual
<1> QED BY <1>4 DEF r

\* A part is sent.
LEMMA SplitsSent ==
  ASSUME NEW w \in Seq(Byte), NEW p \in Seq(Byte), NEW o \in 0..Len(p),
         NEW t \in Seq(Byte), Splits(w, p, o, t), NEW n \in 0..Len(p) - o
  PROVE  LET v == w \o SubSeq(p, o + 1, o + n)
         IN  /\ v \in Seq(Byte) /\ Splits(v, p, o + n, t) /\ Starts(v, t)
             /\ o + n = Len(p) => Splits(v, <<>>, 0, t)
<1> DEFINE s == SubSeq(p, o + 1, o + n)
           v == w \o s
<1>1. s \in Seq(Byte) /\ Len(s) = n /\ \A k \in 1..n : s[k] = p[o + k]
  OBVIOUS
<1> HIDE DEF s
<1>2. v \in Seq(Byte) /\ Len(v) = Len(w) + n
  BY <1>1, Appended
<1>0. Len(w) \in Nat /\ Len(p) \in Nat /\ Len(t) \in Nat
  BY LenProperties
<1>3. ASSUME NEW k \in 1..Len(v) PROVE v[k] = t[k]
  <2>1. CASE k <= Len(w)
    BY <1>1, <2>1, Appended DEF Splits
  <2>2. CASE k > Len(w)
    <3> DEFINE j == k - Len(w)
    <3>1. j \in 1..n /\ j \in 1..Len(p) - o /\ Len(w) + j = k
      BY <1>0, <1>2, <2>2
    <3> HIDE DEF j
    <3>2. v[Len(w) + j] = s[j] /\ s[j] = p[o + j]
      BY <1>1, <3>1, Appended
    <3>3. p[o + j] = t[Len(w) + j]
      BY <3>1 DEF Splits
    <3> QED BY <3>1, <3>2, <3>3
  <2> QED BY <1>0, <1>2, <2>1, <2>2
<1>4. ASSUME NEW k \in 1..Len(p) - (o + n) PROVE p[o + n + k] = t[Len(v) + k]
  <2>1. n + k \in 1..Len(p) - o /\ o + (n + k) = o + n + k /\ Len(w) + (n + k) = Len(v) + k
    BY <1>2
  <2> QED BY <2>1 DEF Splits
<1> HIDE DEF v
<1>5. Len(t) = Len(v) + (Len(p) - (o + n))
  BY <1>2 DEF Splits
<1>6. Splits(v, p, o + n, t)
  BY <1>3, <1>4, <1>5 DEF Splits
<1>7. Starts(v, t)
  BY <1>2, <1>3, <1>5 DEF Starts
<1>8. o + n = Len(p) => Splits(v, <<>>, 0, t)
  BY <1>3, <1>5 DEF Splits
<1> QED BY <1>2, <1>6, <1>7, <1>8 DEF v, s

\* What was sent is erased.
LEMMA SplitsErased ==
  ASSUME NEW w \in Seq(Byte), NEW p \in Seq(Byte), NEW o \in 0..Len(p),
         NEW t \in Seq(Byte), Splits(w, p, o, t)
  PROVE  /\ From(p, o + 1) \in Seq(Byte) /\ Len(From(p, o + 1)) = Len(p) - o
         /\ Splits(w, From(p, o + 1), 0, t)
<1> DEFINE r == From(p, o + 1)
<1>1. /\ r \in Seq(Byte) /\ Len(r) = Len(p) - o
      /\ \A k \in 1..Len(p) - o : r[k] = p[o + k]
  BY DEF From
<1> HIDE DEF r
<1>2. Len(r) - 0 = Len(p) - o /\ \A k \in 1..Len(r) - 0 : r[0 + k] = p[o + k]
  BY <1>1
<1>3. Splits(w, r, 0, t)
  BY <1>1, <1>2 DEF Splits
<1> QED BY <1>1, <1>3 DEF r

\* A frame is added.
LEMMA SplitsGrown ==
  ASSUME NEW w \in Seq(Byte), NEW p \in Seq(Byte), NEW o \in 0..Len(p),
         NEW t \in Seq(Byte), Splits(w, p, o, t), NEW e \in Seq(Byte),
         NEW u \in Seq(Byte), Len(u) = Len(t) + Len(e),
         \A k \in 1..Len(t) : u[k] = t[k],
         \A k \in 1..Len(e) : u[Len(t) + k] = e[k]
  PROVE  Splits(w, p \o e, o, u)
<1>1. Len(p \o e) = Len(p) + Len(e) /\ Len(w) <= Len(t)
  BY Appended DEF Splits
<1>0. /\ Len(w) \in Nat /\ Len(p) \in Nat /\ Len(t) \in Nat /\ Len(e) \in Nat
      /\ Len(u) \in Nat
  BY LenProperties
<1>2. \A k \in 1..Len(w) : w[k] = u[k]
  BY <1>0, <1>1 DEF Splits
<1>3. ASSUME NEW k \in 1..Len(p \o e) - o PROVE (p \o e)[o + k] = u[Len(w) + k]
  <2>1. CASE k <= Len(p) - o
    <3>1. (p \o e)[o + k] = p[o + k] /\ Len(w) + k \in 1..Len(t)
      BY <1>1, <2>1, Appended DEF Splits
    <3>2. p[o + k] = t[Len(w) + k]
      <4>1. k \in 1..Len(p) - o
        BY <1>0, <2>1
      <4> QED BY <4>1 DEF Splits
    <3>3. u[Len(w) + k] = t[Len(w) + k]
      BY <3>1
    <3> QED BY <3>1, <3>2, <3>3
  <2>2. CASE k > Len(p) - o
    <3> DEFINE j == k - (Len(p) - o)
    <3>1. j \in 1..Len(e) /\ o + k = Len(p) + j /\ Len(w) + k = Len(t) + j
      BY <1>1, <2>2 DEF Splits
    <3>2. (p \o e)[Len(p) + j] = e[j]
      BY <3>1, Appended
    <3> QED BY <3>1, <3>2
  <2> QED BY <1>0, <1>1, <2>1, <2>2
<1>4. Len(u) = Len(w) + (Len(p \o e) - o)
  BY <1>0, <1>1 DEF Splits
<1> QED BY <1>2, <1>3, <1>4 DEF Splits

-----------------------------------------------------------------------------
(* What is done to a client *)

\* A frame is appended for a client, or the client is given up.
LEMMA WithFrameOK ==
  ASSUME NEW c, ClientInv(c), NEW f \in 1..MaxFrames
  PROVE  LET d == WithFrame(c, f)
         IN  /\ ClientInv(d) /\ d.peer = c.peer /\ (d.open => c.open)
             /\ \A w, t, u \in Seq(Byte) :
                  LET e == Encode(f, ProtocolOf[c.peer])
                  IN  /\ d.open /\ Splits(w, c.pending, c.offset, t)
                      /\ Len(u) = Len(t) + Len(e)
                      /\ \A k \in 1..Len(t) : u[k] = t[k]
                      /\ \A k \in 1..Len(e) : u[Len(t) + k] = e[k]
                      => Splits(w, d.pending, d.offset, u)
<1> DEFINE e == Encode(f, ProtocolOf[c.peer])
           r == From(c.pending, c.offset + 1)
           d == WithFrame(c, f)
<1>1. /\ c \in Client /\ c.pending \in Seq(Byte) /\ c.offset \in 0..Len(c.pending)
      /\ Len(c.pending) \in Nat /\ ClientBufferLimit \in Nat /\ CompactAt \in Nat
      /\ Unsent(c) = Len(c.pending) - c.offset /\ c.peer \in Peer
  BY ServerAssumption DEF ClientInv, Client, Unsent
<1>2. e \in Seq(Byte) /\ Len(e) \in Nat
  <2>1. ProtocolOf[c.peer] \in Protocol /\ FrameSize[ProtocolOf[c.peer]] \in Nat
    BY <1>1, ServerAssumption
  <2>2. \A k \in 1..FrameSize[ProtocolOf[c.peer]] : <<f, k>> \in Byte
    BY <2>1 DEF Byte
  <2>3. e \in [1..FrameSize[ProtocolOf[c.peer]] -> Byte]
    BY <2>2 DEF Encode
  <2>4. e \in Seq(Byte)
    BY <2>1, <2>3
  <2> QED BY <2>4, LenProperties
<1>3. r \in Seq(Byte) /\ Len(r) = Len(c.pending) - c.offset
  BY <1>1 DEF From
<1>4. \A t, w \in Seq(Byte) : Splits(w, c.pending, c.offset, t) => Splits(w, r, 0, t)
  BY <1>1, SplitsErased
<1> HIDE DEF e, r, d
<1>5. CASE ~c.open
  <2>1. d = c
    BY <1>5 DEF WithFrame, d
  <2> QED BY <1>5, <2>1 DEF d
<1>6. CASE c.open /\ Unsent(c) + Len(e) > ClientBufferLimit
  <2>1. d = [c EXCEPT !.open = FALSE]
    BY <1>6 DEF WithFrame, d, e
  <2>2. /\ d \in Client /\ d.pending = c.pending /\ d.offset = c.offset /\ d.peer = c.peer
        /\ Unsent(d) = Unsent(c)
    BY <1>1, <2>1 DEF Client, Unsent
  <2>3. ~d.open
    BY <1>1, <2>1 DEF Client
  <2> QED BY <2>2, <2>3 DEF ClientInv, d
<1>7. CASE c.open /\ ~(Unsent(c) + Len(e) > ClientBufferLimit)
  <2> DEFINE b == Compacted(c)
  <2>1. \/ /\ b = c /\ (c.offset = 0 \/ c.offset <= CompactAt)
        \/ b = [c EXCEPT !.pending = r, !.offset = 0]
    BY <1>1 DEF Compacted, r
  <2>2. /\ b \in Client /\ b.peer = c.peer /\ b.open = c.open
        /\ b.pending \in Seq(Byte) /\ b.offset \in 0..Len(b.pending)
        /\ Len(b.pending) - b.offset = Unsent(c)
        /\ Len(b.pending) <= Unsent(c) + CompactAt
        /\ Len(b.pending) \in Nat
    <3>1. CASE b = c /\ (c.offset = 0 \/ c.offset <= CompactAt)
      BY <1>1, <3>1
    <3>2. CASE b = [c EXCEPT !.pending = r, !.offset = 0]
      <4> HIDE DEF b
      <4>1. b \in Client
        BY <1>1, <1>3, <3>2 DEF Client
      <4>2. b.peer = c.peer /\ b.open = c.open /\ b.pending = r /\ b.offset = 0
        BY <1>1, <3>2 DEF Client
      <4> QED BY <1>1, <1>3, <4>1, <4>2
    <3> QED BY <2>1, <3>1, <3>2
  <2>3. \A t, w \in Seq(Byte) :
          Splits(w, c.pending, c.offset, t) => Splits(w, b.pending, b.offset, t)
    <3>1. b = c \/ (b.pending = r /\ b.offset = 0)
      BY <1>1, <2>1 DEF Client
    <3> QED BY <1>4, <3>1
  <2>4. d = [b EXCEPT !.pending = b.pending \o e]
    BY <1>7 DEF WithFrame, d, e
  <2> HIDE DEF b
  <2>5. /\ b.pending \o e \in Seq(Byte)
        /\ Len(b.pending \o e) = Len(b.pending) + Len(e)
    BY <1>2, <2>2, Appended
  <2>6. /\ d \in Client /\ d.pending = b.pending \o e /\ d.offset = b.offset
        /\ d.peer = c.peer
    BY <2>2, <2>4, <2>5 DEF Client
  <2>7. Unsent(d) = Unsent(c) + Len(e) /\ d.offset <= Len(d.pending)
    BY <1>1, <1>2, <2>2, <2>5, <2>6 DEF Unsent
  <2>8. ClientInv(d)
    <3>1. Unsent(c) \in Nat /\ Unsent(c) + Len(e) <= ClientBufferLimit
      BY <1>1, <1>2, <1>7
    <3>2. Len(d.pending) = Len(b.pending) + Len(e)
      BY <2>5, <2>6
    <3>3. Len(d.pending) <= ClientBufferLimit + CompactAt
      BY <1>1, <1>2, <2>2, <3>1, <3>2
    <3>4. Unsent(d) <= ClientBufferLimit
      BY <2>7, <3>1
    <3> QED BY <2>6, <2>7, <3>3, <3>4 DEF ClientInv
  <2>9. ASSUME NEW w \in Seq(Byte), NEW t \in Seq(Byte), NEW u \in Seq(Byte),
               Splits(w, c.pending, c.offset, t), Len(u) = Len(t) + Len(e),
               \A k \in 1..Len(t) : u[k] = t[k],
               \A k \in 1..Len(e) : u[Len(t) + k] = e[k]
        PROVE  Splits(w, d.pending, d.offset, u)
    <3>1. Splits(w, b.pending, b.offset, t)
      BY <2>3, <2>9
    <3>2. Splits(w, b.pending \o e, b.offset, u)
      BY <1>2, <2>2, <2>9, <3>1, SplitsGrown
    <3> QED BY <2>6, <3>2
  <2> QED BY <1>7, <2>6, <2>8, <2>9 DEF d, e
<1> QED BY <1>5, <1>6, <1>7

\* Bytes are sent to a client.
LEMMA SentOK ==
  ASSUME NEW c, ClientInv(c), NEW n \in 0..Unsent(c)
  PROVE  /\ ClientInv(Sent(c, n)) /\ Sent(c, n).peer = c.peer /\ Sent(c, n).open = c.open
         /\ \A w, t \in Seq(Byte) :
              LET v == w \o SubSeq(c.pending, c.offset + 1, c.offset + n)
              IN  Splits(w, c.pending, c.offset, t) =>
                    Splits(v, Sent(c, n).pending, Sent(c, n).offset, t)
<1> DEFINE d == Sent(c, n)
<1>1. /\ c \in Client /\ c.pending \in Seq(Byte) /\ c.offset \in 0..Len(c.pending)
      /\ Len(c.pending) \in Nat /\ ClientBufferLimit \in Nat /\ CompactAt \in Nat
      /\ Unsent(c) = Len(c.pending) - c.offset /\ n \in 0..Len(c.pending) - c.offset
  BY ServerAssumption DEF ClientInv, Client, Unsent
<1>2. \/ c.offset + n = Len(c.pending) /\ d = [c EXCEPT !.pending = <<>>, !.offset = 0]
      \/ d = [c EXCEPT !.offset = c.offset + n]
  BY DEF Sent
<1> HIDE DEF d
<1>3. /\ d \in Client /\ d.peer = c.peer /\ d.open = c.open
      /\ \/ c.offset + n = Len(c.pending) /\ d.pending = <<>> /\ d.offset = 0
         \/ d.pending = c.pending /\ d.offset = c.offset + n
  <2>1. CASE c.offset + n = Len(c.pending) /\ d = [c EXCEPT !.pending = <<>>, !.offset = 0]
    <3>1. <<>> \in Seq(Byte) /\ 0 \in Nat
      BY EmptySeq
    <3>2. d \in Client
      BY <1>1, <2>1, <3>1 DEF Client
    <3>3. d.peer = c.peer /\ d.open = c.open /\ d.pending = <<>> /\ d.offset = 0
      BY <1>1, <2>1 DEF Client
    <3> QED BY <2>1, <3>2, <3>3
  <2>2. CASE d = [c EXCEPT !.offset = c.offset + n]
    <3>1. c.offset + n \in Nat
      BY <1>1
    <3>2. d \in Client
      BY <1>1, <2>2, <3>1 DEF Client
    <3>3. /\ d.peer = c.peer /\ d.open = c.open /\ d.pending = c.pending
          /\ d.offset = c.offset + n
      BY <1>1, <2>2 DEF Client
    <3> QED BY <3>2, <3>3
  <2> QED BY <1>2, <2>1, <2>2
<1>4. ClientInv(d)
  BY <1>1, <1>3 DEF ClientInv, Unsent
<1>5. \A w, t \in Seq(Byte) :
        LET v == w \o SubSeq(c.pending, c.offset + 1, c.offset + n)
        IN  Splits(w, c.pending, c.offset, t) => Splits(v, d.pending, d.offset, t)
  BY <1>1, <1>3, SplitsSent
<1> QED BY <1>3, <1>4, <1>5 DEF d

-----------------------------------------------------------------------------
(* One lemma for each kind of step *)

\* What the types say, as the provers need it.
LEMMA Basics ==
  ASSUME TypeInv
  PROVE  /\ Len(clients) \in Nat /\ Len(popped) \in Nat /\ Len(queue) \in Nat
         /\ turn \in Nat /\ MaxClients \in Nat /\ SocketRoom \in Nat
         /\ \A i \in 1..Len(clients) : clients[i] \in Client /\ clients[i].peer \in Peer
         /\ \A p \in Peer :
              /\ Stream(p, since, popped) \in Seq(Byte) /\ ProtocolOf[p] \in Protocol
              /\ since[p] \in 0..Len(popped) /\ wire[p] \in Seq(Byte)
<1>1. Len(clients) \in Nat /\ Len(popped) \in Nat /\ Len(queue) \in Nat
  BY LenProperties DEF TypeInv
<1>2. turn \in Nat /\ MaxClients \in Nat /\ SocketRoom \in Nat
  BY ServerAssumption DEF TypeInv
<1>3. \A i \in 1..Len(clients) : clients[i] \in Client /\ clients[i].peer \in Peer
  <2>1. \A i \in 1..Len(clients) : clients[i] \in Client
    BY ElementOfSeq DEF TypeInv
  <2> QED BY <2>1 DEF Client
<1>4. ASSUME NEW p \in Peer
      PROVE  /\ Stream(p, since, popped) \in Seq(Byte) /\ ProtocolOf[p] \in Protocol
             /\ since[p] \in 0..Len(popped) /\ wire[p] \in Seq(Byte)
  <2>1. ProtocolOf[p] \in Protocol /\ since[p] \in 0..Len(popped) /\ wire[p] \in Seq(Byte)
    BY <1>1, ServerAssumption DEF TypeInv
  <2>2. Stream(p, since, popped) \in Seq(Byte)
    BY <2>1, StreamType DEF TypeInv, Stream
  <2> QED BY <2>1, <2>2
<1> QED BY <1>1, <1>2, <1>3, <1>4

\* A list of clients made place by place.
LEMMA ListOf ==
  ASSUME NEW n \in Nat, NEW f \in [1..n -> Client]
  PROVE  f \in Seq(Client) /\ Len(f) = n
OBVIOUS

\* As long as no stream grows, nothing is sent and nobody comes or goes.
LEMMA StreamKept ==
  ASSUME StreamInv, UNCHANGED <<clients, peerState, wire, popped, since>>
  PROVE  StreamInv'
BY DEF StreamInv

\* A step that is neither the clients' nor the worker's with them.
LEMMA Apart ==
  ASSUME IInv, UNCHANGED <<clients, peerState, wire, popped, since>>, TypeInv',
         wpc' \in {"head", "poll"} => wpc \in {"head", "poll"}
  PROVE  IInv'
<1>1. ListInv'
  BY DEF IInv, ListInv
<1> QED BY <1>1, StreamKept DEF IInv

\* The decoding thread and stop().
LEMMA PublishStop ==
  ASSUME IInv, Publish \/ Stop \/ StopJoins
  PROVE  IInv'
<1>1. TypeInv /\ MaxFrames \in Nat /\ QueueRoom \in Nat /\ Len(queue) \in Nat
  BY Basics, ServerAssumption DEF IInv
<1>2. CASE Publish
  <2>1. offered' \in 1..MaxFrames /\ offered' = offered + 1
    BY <1>1, <1>2 DEF Publish, TypeInv
  <2>2. queue' \in Seq(1..MaxFrames) /\ Len(queue') <= QueueRoom
    <3>1. CASE queue' = queue
      BY <1>1, <3>1 DEF TypeInv
    <3>2. CASE queue' = Append(queue, offered') /\ Len(queue) < QueueRoom
      <4>1. queue \in Seq(1..MaxFrames)
        BY <1>1 DEF TypeInv
      <4>2. /\ Append(queue, offered') \in Seq(1..MaxFrames)
            /\ Len(Append(queue, offered')) = Len(queue) + 1
        BY <2>1, <4>1, AppendProperties
      <4> QED BY <1>1, <3>2, <4>2
    <3> QED BY <1>2, <3>1, <3>2 DEF Publish
  <2>3. dropped' \in 0..offered'
    BY <1>1, <1>2, <2>1 DEF Publish, TypeInv
  <2>4. TypeInv'
    BY <1>1, <1>2, <2>1, <2>2, <2>3
    DEF Publish, TypeInv, stopVars, pollVars, kernelVars
  <2>5. UNCHANGED <<clients, peerState, wire, popped, since, wpc>>
    BY <1>2 DEF Publish, kernelVars
  <2> QED BY <2>4, <2>5, Apart
<1>3. CASE Stop
  <2>1. UNCHANGED <<clients, peerState, wire, popped, since, wpc>>
    BY <1>3 DEF Stop, notStop, kernelVars
  <2>2. TypeInv'
    BY <1>1, <1>3 DEF Stop, notStop, TypeInv, decoderVars, pollVars, kernelVars
  <2> QED BY <2>1, <2>2, Apart
<1>4. CASE StopJoins
  <2>1. UNCHANGED <<clients, peerState, wire, popped, since, wpc>>
    BY <1>4 DEF StopJoins, notStop, kernelVars
  <2>2. TypeInv'
    BY <1>1, <1>4 DEF StopJoins, notStop, TypeInv, decoderVars, pollVars, kernelVars
  <2> QED BY <2>1, <2>2, Apart
<1> QED BY <1>2, <1>3, <1>4

\* The worker between its clients, and a peer that reads.
LEMMA TurnPoll ==
  ASSUME IInv, Turn \/ Poll \/ DistributeDone \/ (\E p \in Peer : PeerReads(p))
  PROVE  IInv'
<1>1. TypeInv
  BY DEF IInv
<1>2. CASE Turn
  <2>1. UNCHANGED <<clients, peerState, wire, popped, since>> /\ wpc \in {"head", "poll"}
    BY <1>2 DEF Turn, kernelVars
  <2>2. TypeInv'
    BY <1>1, <1>2
    DEF Turn, Place, TypeInv, notWorker, decoderVars, stopVars, pollVars, kernelVars
  <2> QED BY <2>1, <2>2, Apart
<1>3. CASE Poll
  <2>1. UNCHANGED <<clients, peerState, wire, popped, since>> /\ wpc \in {"head", "poll"}
    BY <1>3 DEF Poll, kernelVars
  <2>2. TypeInv'
    BY <1>1, <1>3
    DEF Poll, Place, TypeInv, notWorker, decoderVars, stopVars, kernelVars
  <2> QED BY <2>1, <2>2, Apart
<1>4. CASE DistributeDone
  <2>1. UNCHANGED <<clients, peerState, wire, popped, since>> /\ wpc' = "flush"
    BY <1>4 DEF DistributeDone, kernelVars
  <2>2. TypeInv'
    BY <1>1, <1>4
    DEF DistributeDone, Place, TypeInv, notWorker, decoderVars, stopVars, pollVars,
        kernelVars
  <2> QED BY <2>1, <2>2, Apart
<1>5. ASSUME NEW p \in Peer, PeerReads(p) PROVE IInv'
  <2>1. UNCHANGED <<clients, peerState, wire, popped, since, wpc>>
    BY <1>5 DEF PeerReads, notPeers
  <2>2. unread' \in [Peer -> 0..SocketRoom]
    BY <1>1, <1>5, Basics DEF PeerReads, TypeInv
  <2>3. TypeInv'
    BY <1>1, <1>5, <2>2 DEF PeerReads, TypeInv, notPeers, decoderVars, stopVars, pollVars
  <2> QED BY <2>1, <2>3, Apart
<1> QED BY <1>2, <1>3, <1>4, <1>5

\* A peer connects, is refused or leaves.
LEMMA PeerMoves ==
  ASSUME IInv, NEW p \in Peer, NEW to \in PeerState,
         peerState' = [peerState EXCEPT ![p] = to],
         \/ peerState[p] \in {"new", "waiting"} /\ to \in {"waiting", "refused"}
         \/ peerState[p] \in {"connected"} /\ to = "left",
         UNCHANGED <<decoderVars, queue, stopVars, wpc, clients, pollVars, turn, wire,
                     unread, popped, since>>
  PROVE  IInv'
<1>1. peerState' \in [Peer -> PeerState] /\ peerState'[p] = to
      /\ \A q \in Peer : q # p => peerState'[q] = peerState[q]
  BY DEF IInv, TypeInv
<1>2. TypeInv'
  BY <1>1 DEF IInv, TypeInv, decoderVars, stopVars, pollVars
<1>3. \A q \in Peer : peerState[q] \in {"connected", "left"} <=>
                        peerState'[q] \in {"connected", "left"}
  BY <1>1
<1>4. ListInv'
  BY <1>3, Basics DEF IInv, ListInv
<1>5. StreamInv'
  BY <1>3 DEF IInv, StreamInv
<1> QED BY <1>2, <1>4, <1>5 DEF IInv

\* Connect, RefuseClient, Leave.
LEMMA ComeAndGo ==
  ASSUME IInv, NEW p \in Peer, Connect(p) \/ RefuseClient(p) \/ Leave(p)
  PROVE  IInv'
<1>1. CASE Connect(p)
  BY <1>1, PeerMoves DEF Connect, notPeers, PeerState
<1>2. CASE RefuseClient(p)
  <2>1. peerState[p] = "waiting"
    BY <1>2 DEF RefuseClient, NextToAccept, WaitingFor
  <2> QED BY <1>2, <2>1, PeerMoves DEF RefuseClient, PeerState, notWorker
<1>3. CASE Leave(p)
  BY <1>3, PeerMoves DEF Leave, notPeers, PeerState
<1> QED BY <1>1, <1>2, <1>3

\* A client is accepted: its stream begins here.
LEMMA AcceptStep ==
  ASSUME IInv, NEW p \in Peer, AcceptClient(p)
  PROVE  IInv'
<1> DEFINE n == Len(clients)
           c == [peer |-> p, open |-> TRUE, pending |-> <<>>, offset |-> 0]
<1>1. /\ TypeInv /\ ListInv /\ StreamInv /\ n \in Nat /\ n < MaxClients /\ MaxClients \in Nat
      /\ Len(popped) \in Nat /\ wpc = "accept"
      /\ \A i \in 1..n : clients[i] \in Client /\ clients[i].peer \in Peer
  BY Basics DEF IInv, AcceptClient
<1>2. peerState[p] = "waiting" /\ wire[p] = <<>>
  <2>1. peerState[p] = "waiting"
    BY DEF AcceptClient, NextToAccept, WaitingFor
  <2> QED BY <1>1, <2>1 DEF StreamInv
<1>3. <<>> \in Seq(Byte) /\ Len(<<>>) = 0
  BY EmptySeq
<1>4. c \in Client /\ ClientInv(c) /\ c.peer = p
  <2>1. c \in Client
    BY <1>3 DEF Client
  <2>2. Unsent(c) = 0 /\ Len(c.pending) = 0 /\ c.offset = 0
    BY DEF Unsent
  <2> QED BY <2>1, <2>2, ServerAssumption DEF ClientInv
<1>5. /\ clients' \in Seq(Client) /\ Len(clients') = n + 1 /\ clients'[n + 1] = c
      /\ \A i \in 1..n : clients'[i] = clients[i]
  <2>1. clients' = Append(clients, c) /\ clients \in Seq(Client)
    BY <1>1 DEF AcceptClient, TypeInv
  <2> HIDE DEF c
  <2> QED BY <1>4, <2>1, AppendProperties
<1>6. /\ peerState' \in [Peer -> PeerState] /\ peerState'[p] = "connected"
      /\ since' \in [Peer -> Nat] /\ since'[p] = Len(popped)
      /\ \A q \in Peer : q # p => peerState'[q] = peerState[q] /\ since'[q] = since[q]
  BY <1>1 DEF AcceptClient, TypeInv, PeerState
<1>7. /\ UNCHANGED <<decoderVars, queue, stopVars, wpc, pollVars, turn, wire, unread, popped>>
  BY DEF AcceptClient, notWorker
<1> HIDE DEF c
<1>8. TypeInv'
  <2>1. \A q \in Peer : since'[q] <= Len(popped')
    <3>1. since'[p] <= Len(popped)
      BY <1>1, <1>6
    <3>2. \A q \in Peer : q # p => since'[q] <= Len(popped)
      BY <1>1, <1>6 DEF TypeInv
    <3> QED BY <1>7, <3>1, <3>2
  <2> QED BY <1>1, <1>5, <1>6, <1>7, <2>1 DEF TypeInv, decoderVars, stopVars, pollVars
<1>9. \A i \in 1..n : clients[i].peer # p
  BY <1>1, <1>2 DEF ListInv
<1>10. \A i \in 1..Len(clients') : i \in 1..n \/ (i = n + 1 /\ clients'[i] = c)
  BY <1>1, <1>5
<1>11. ListInv'
  <2>1. \A i \in 1..Len(clients') :
          ClientInv(clients'[i]) /\ peerState'[clients'[i].peer] \in {"connected", "left"}
    BY <1>1, <1>4, <1>5, <1>6, <1>9, <1>10 DEF ListInv
  <2>2. \A i, j \in 1..Len(clients') : clients'[i].peer = clients'[j].peer => i = j
    BY <1>1, <1>4, <1>5, <1>9, <1>10 DEF ListInv
  <2>3. Len(clients') <= MaxClients /\ wpc' = "accept"
    BY <1>1, <1>5, <1>7
  <2> QED BY <2>1, <2>2, <2>3 DEF ListInv
<1>12. ASSUME NEW q \in Peer, q # p
       PROVE  Stream(q, since', popped') = Stream(q, since, popped) /\ wire'[q] = wire[q]
  BY <1>6, <1>7, <1>12 DEF Stream
<1> DEFINE t == Stream(p, since', popped')
<1>13. Len(t) = 0
  <2>1. t = StreamOf(popped, Len(popped), ProtocolOf[p])
    BY <1>6, <1>7 DEF Stream
  <2>2. /\ Len(popped) \in 0..Len(popped) /\ ProtocolOf[p] \in Protocol
        /\ FrameSize[ProtocolOf[p]] \in Nat /\ popped \in Seq(1..MaxFrames)
    BY <1>1, ServerAssumption DEF TypeInv
  <2>3. Len(StreamOf(popped, Len(popped), ProtocolOf[p]))
          = (Len(popped) - Len(popped)) * FrameSize[ProtocolOf[p]]
    BY <2>2, StreamType
  <2>4. (Len(popped) - Len(popped)) * FrameSize[ProtocolOf[p]] = 0
    BY <1>1, <2>2
  <2> QED BY <2>1, <2>3, <2>4
<1> HIDE DEF t
<1>14. Splits(wire'[p], <<>>, 0, t) /\ Starts(wire'[p], t)
  BY <1>2, <1>3, <1>7, <1>13 DEF Splits, Starts
<1>15. StreamInv'
  <2>1. ASSUME NEW q \in Peer
        PROVE  /\ Starts(wire'[q], Stream(q, since', popped'))
               /\ peerState'[q] \notin {"connected", "left"} => wire'[q] = <<>>
    BY <1>1, <1>6, <1>7, <1>12, <1>14 DEF StreamInv, t
  <2>2. ASSUME NEW i \in 1..n
        PROVE  Whole(clients'[i], wire', since', popped')
    <3>1. /\ clients[i].peer \in Peer /\ clients[i].peer # p /\ clients'[i] = clients[i]
          /\ Whole(clients[i], wire, since, popped)
      BY <1>1, <1>5, <1>9 DEF StreamInv
    <3> QED BY <1>12, <3>1 DEF Whole
  <2>3. Whole(c, wire', since', popped')
    BY <1>14 DEF Whole, c, t
  <2>4. \A i \in 1..Len(clients') : Whole(clients'[i], wire', since', popped')
    BY <1>5, <1>10, <2>2, <2>3
  <2> QED BY <2>1, <2>4 DEF StreamInv
<1> QED BY <1>8, <1>11, <1>15 DEF IInv

\* Who hung up is closed.
LEMMA ServeStep ==
  ASSUME IInv, ServeInput
  PROVE  IInv'
<1> DEFINE n == Len(clients)
           b(i) == clients[i].open /\ clients[i].peer \notin hungUp
<1>1. /\ TypeInv /\ ListInv /\ StreamInv /\ n \in Nat
      /\ \A i \in 1..n : clients[i] \in Client
  BY Basics DEF IInv
<1>2. /\ wpc' = "distribute" /\ readable' = {} /\ hungUp' = {}
      /\ UNCHANGED <<decoderVars, stopVars, queue, turn, peerState, wire, unread, popped, since>>
  BY DEF ServeInput, notWorker, kernelVars
<1>3. clients' = [i \in 1..n |-> [clients[i] EXCEPT !.open = b(i)]]
  BY Zenon DEF ServeInput, IndexSet
<1>4. ASSUME NEW i \in 1..n
      PROVE  b(i) \in BOOLEAN /\ (b(i) => clients[i].open)
  OBVIOUS
<1> HIDE DEF b
<1>5. ASSUME NEW i \in 1..n
      PROVE  /\ clients'[i] \in Client /\ clients'[i].peer = clients[i].peer
             /\ clients'[i].pending = clients[i].pending
             /\ clients'[i].offset = clients[i].offset /\ clients'[i].open = b(i)
  <2>1. clients'[i] = [clients[i] EXCEPT !.open = b(i)]
    BY <1>3
  <2> QED BY <1>1, <1>4, <2>1 DEF Client
<1>6. clients' \in Seq(Client) /\ Len(clients') = n
  <2>1. clients' \in [1..n -> Client]
    BY <1>3, <1>5
  <2> QED BY <1>1, <2>1, ListOf
<1>7. TypeInv'
  BY <1>1, <1>2, <1>6 DEF TypeInv, Place, decoderVars, stopVars
<1>8. ListInv'
  <2>1. ASSUME NEW i \in 1..n
        PROVE  ClientInv(clients'[i]) /\ peerState'[clients'[i].peer] \in {"connected", "left"}
    BY <1>1, <1>2, <1>5 DEF ListInv, ClientInv, Unsent
  <2>2. \A i, j \in 1..n : clients'[i].peer = clients'[j].peer => i = j
    BY <1>1, <1>5 DEF ListInv
  <2> QED BY <1>1, <1>2, <1>6, <2>1, <2>2 DEF ListInv
<1>9. StreamInv'
  <2>1. ASSUME NEW i \in 1..n PROVE Whole(clients'[i], wire', since', popped')
    <3>1. Whole(clients[i], wire, since, popped)
      BY <1>1 DEF StreamInv
    <3> QED BY <1>2, <1>4, <1>5, <3>1 DEF Whole
  <2> QED BY <1>1, <1>2, <1>6, <2>1 DEF StreamInv
<1> QED BY <1>7, <1>8, <1>9 DEF IInv

\* The next frame is appended for every client.
LEMMA DistributeStep ==
  ASSUME IInv, DistributeFrame
  PROVE  IInv'
<1> DEFINE n == Len(clients)
           f == Head(queue)
<1>1. /\ TypeInv /\ ListInv /\ StreamInv /\ n \in Nat /\ Len(popped) \in Nat
      /\ popped \in Seq(1..MaxFrames)
      /\ \A i \in 1..n : clients[i] \in Client /\ clients[i].peer \in Peer
      /\ \A p \in Peer : /\ since[p] \in 0..Len(popped) /\ ProtocolOf[p] \in Protocol
                         /\ wire[p] \in Seq(Byte)
  BY Basics DEF IInv, TypeInv
<1>2. /\ f \in 1..MaxFrames /\ Tail(queue) \in Seq(1..MaxFrames)
      /\ Len(Tail(queue)) <= QueueRoom
  <2>1. queue \in Seq(1..MaxFrames) /\ queue # <<>> /\ Len(queue) <= QueueRoom
    BY <1>1 DEF TypeInv, DistributeFrame
  <2>2. /\ f \in 1..MaxFrames /\ Tail(queue) \in Seq(1..MaxFrames)
        /\ Len(Tail(queue)) = Len(queue) - 1
    BY <2>1, HeadTailProperties
  <2>3. Len(queue) \in Nat /\ QueueRoom \in Nat
    BY <2>1, LenProperties, ServerAssumption
  <2> QED BY <2>1, <2>2, <2>3
<1>3. /\ wpc = "distribute" /\ queue' = Tail(queue) /\ popped' = Append(popped, f)
      /\ clients' = [i \in 1..n |-> WithFrame(clients[i], f)]
      /\ UNCHANGED <<decoderVars, stopVars, wpc, pollVars, turn, peerState, wire, unread, since>>
  BY DEF DistributeFrame, IndexSet, notWorker, kernelVars
<1> HIDE DEF f
<1>4. popped' \in Seq(1..MaxFrames) /\ Len(popped') = Len(popped) + 1
  BY <1>1, <1>2, <1>3, AppendProperties
<1>5. ASSUME NEW i \in 1..n
      PROVE  /\ clients'[i] = WithFrame(clients[i], f)
             /\ ClientInv(clients'[i]) /\ clients'[i].peer = clients[i].peer
  <2>1. clients'[i] = WithFrame(clients[i], f) /\ ClientInv(clients[i])
    BY <1>1, <1>3 DEF ListInv
  <2> QED BY <1>2, <2>1, WithFrameOK
<1>6. clients' \in Seq(Client) /\ Len(clients') = n
  <2>1. \A i \in 1..n : clients'[i] \in Client
    BY <1>5 DEF ClientInv
  <2>2. clients' \in [1..n -> Client]
    BY <1>3, <2>1
  <2> QED BY <1>1, <2>2, ListOf
<1>7. TypeInv'
  <2>1. \A p \in Peer : since'[p] <= Len(popped')
    BY <1>1, <1>3, <1>4
  <2> QED BY <1>1, <1>2, <1>3, <1>4, <1>6, <2>1 DEF TypeInv, decoderVars, stopVars, pollVars
<1>8. ListInv'
  <2>1. ASSUME NEW i \in 1..n PROVE peerState'[clients'[i].peer] \in {"connected", "left"}
    BY <1>1, <1>3, <1>5 DEF ListInv
  <2>2. \A i, j \in 1..n : clients'[i].peer = clients'[j].peer => i = j
    BY <1>1, <1>5 DEF ListInv
  <2> QED BY <1>1, <1>3, <1>5, <1>6, <2>1, <2>2 DEF ListInv
<1>9. ASSUME NEW p \in Peer
      PROVE  LET t == Stream(p, since, popped)
                 u == Stream(p, since', popped')
                 e == Encode(f, ProtocolOf[p])
             IN  /\ t \in Seq(Byte) /\ u \in Seq(Byte) /\ Len(u) = Len(t) + Len(e)
                 /\ Len(e) \in Nat
                 /\ \A k \in 1..Len(t) : u[k] = t[k]
                 /\ \A k \in 1..Len(e) : u[Len(t) + k] = e[k]
  <2> DEFINE s == since[p]
             protocol == ProtocolOf[p]
             t == StreamOf(popped, s, protocol)
             more == Append(popped, f)
             u == StreamOf(more, s, protocol)
             e == Encode(f, protocol)
  <2>1. s \in 0..Len(popped) /\ s \in 0..Len(more) /\ protocol \in Protocol
    BY <1>1, <1>3, <1>4
  <2>2. Stream(p, since, popped) = t /\ Stream(p, since', popped') = u
    BY <1>3 DEF Stream
  <2>3. t \in Seq(Byte) /\ u \in Seq(Byte)
    BY <1>1, <1>3, <1>4, <2>1, StreamType
  <2>4. /\ e \in Seq(Byte) /\ Len(u) = Len(t) + Len(e)
        /\ \A k \in 1..Len(t) : u[k] = t[k]
        /\ \A k \in 1..Len(e) : u[Len(t) + k] = e[k]
    BY <1>1, <1>2, <2>1, StreamGrows
  <2>5. Len(e) \in Nat
    BY <2>4, LenProperties
  <2> HIDE DEF t, u, more
  <2> QED BY <2>2, <2>3, <2>4, <2>5
<1>10. StreamInv'
  <2>1. ASSUME NEW p \in Peer
        PROVE  /\ Starts(wire'[p], Stream(p, since', popped'))
               /\ peerState'[p] \notin {"connected", "left"} => wire'[p] = <<>>
    <3> DEFINE t == Stream(p, since, popped)
               u == Stream(p, since', popped')
    <3>1. /\ Starts(wire[p], t) /\ t \in Seq(Byte) /\ u \in Seq(Byte)
          /\ Len(t) \in Nat /\ Len(u) \in Nat /\ Len(wire[p]) \in Nat
          /\ Len(t) <= Len(u) /\ \A k \in 1..Len(t) : u[k] = t[k]
      <4>1. /\ Starts(wire[p], t) /\ wire[p] \in Seq(Byte)
            /\ t \in Seq(Byte) /\ u \in Seq(Byte)
            /\ \A k \in 1..Len(t) : u[k] = t[k]
            /\ Len(Encode(f, ProtocolOf[p])) \in Nat
            /\ Len(u) = Len(t) + Len(Encode(f, ProtocolOf[p]))
        BY <1>1, <1>9 DEF StreamInv
      <4> HIDE DEF t, u
      <4>2. Len(t) \in Nat /\ Len(u) \in Nat /\ Len(wire[p]) \in Nat
        BY <4>1, LenProperties
      <4> QED BY <4>1, <4>2
    <3> HIDE DEF t, u
    <3>2. Starts(wire[p], u)
      BY <3>1 DEF Starts
    <3>3. peerState[p] \notin {"connected", "left"} => wire[p] = <<>>
      BY <1>1 DEF StreamInv
    <3> QED BY <1>3, <3>2, <3>3 DEF u
  <2>2. ASSUME NEW i \in 1..n PROVE Whole(clients'[i], wire', since', popped')
    <3> DEFINE c == clients[i]
               p == c.peer
               d == WithFrame(c, f)
               t == Stream(p, since, popped)
               u == Stream(p, since', popped')
    <3>1. /\ p \in Peer /\ ClientInv(c) /\ d = clients'[i] /\ d.peer = p
          /\ wire[p] \in Seq(Byte) /\ Whole(c, wire, since, popped)
      BY <1>1, <1>5 DEF ListInv, StreamInv
    <3>2. SUFFICES ASSUME d.open PROVE Splits(wire[p], d.pending, d.offset, u)
      BY <1>3, <3>1 DEF Whole
    <3>3. c.open /\ Splits(wire[p], c.pending, c.offset, t)
      BY <1>2, <3>1, <3>2, WithFrameOK DEF Whole
    <3>4. /\ t \in Seq(Byte) /\ u \in Seq(Byte)
          /\ Len(u) = Len(t) + Len(Encode(f, ProtocolOf[p]))
          /\ \A k \in 1..Len(t) : u[k] = t[k]
          /\ \A k \in 1..Len(Encode(f, ProtocolOf[p])) :
               u[Len(t) + k] = Encode(f, ProtocolOf[p])[k]
      BY <1>9, <3>1
    <3> HIDE DEF t, u
    <3> QED BY <1>2, <3>1, <3>2, <3>3, <3>4, WithFrameOK
  <2> QED BY <1>6, <2>1, <2>2 DEF StreamInv
<1> QED BY <1>7, <1>8, <1>10 DEF IInv

\* Bytes are sent to one client, or no more can be.
LEMMA FlushKeeps ==
  ASSUME IInv, turn \in 1..Len(clients), wpc = "flush",
         NEW n \in 0..SocketTakes(clients[turn]), NEW d,
         ClientInv(d), d.peer = clients[turn].peer, d.open => clients[turn].open,
         \A w, t \in Seq(Byte) :
           LET c == clients[turn]
               v == w \o SubSeq(c.pending, c.offset + 1, c.offset + n)
           IN  d.open /\ Splits(w, c.pending, c.offset, t) =>
                 Splits(v, d.pending, d.offset, t),
         clients' = [clients EXCEPT ![turn] = d], Transmit(clients[turn], n),
         turn' = turn + 1,
         UNCHANGED <<notWorker, queue, wpc, pollVars, peerState, popped, since>>
  PROVE  IInv'
<1> DEFINE c == clients[turn]
           p == c.peer
           v == wire[p] \o SubSeq(c.pending, c.offset + 1, c.offset + n)
           t == Stream(p, since, popped)
<1>1. /\ TypeInv /\ ListInv /\ StreamInv /\ Len(clients) \in Nat /\ SocketRoom \in Nat
      /\ \A i \in 1..Len(clients) : clients[i] \in Client /\ clients[i].peer \in Peer
      /\ wire[p] \in Seq(Byte) /\ t \in Seq(Byte)
      /\ ClientInv(c) /\ p \in Peer /\ Whole(c, wire, since, popped) /\ unread[p] \in 0..SocketRoom
  BY Basics DEF IInv, ListInv, StreamInv, TypeInv
<1>2. /\ c.pending \in Seq(Byte) /\ c.offset \in 0..Len(c.pending) /\ Len(c.pending) \in Nat
      /\ Unsent(c) = Len(c.pending) - c.offset /\ c.open \in BOOLEAN /\ Starts(wire[p], t)
  BY <1>1 DEF ClientInv, Client, Unsent, StreamInv
<1>3. /\ n \in 0..Len(c.pending) - c.offset /\ unread[p] + n \in 0..SocketRoom
      /\ ~c.open => n = 0
  <2> DEFINE m == SocketTakes(c)
  <2>1. /\ c.open => m = Smaller(Unsent(c), SocketRoom - unread[p])
        /\ ~c.open => m = 0
    BY DEF SocketTakes
  <2>2. n \in 0..m
    OBVIOUS
  <2> HIDE DEF c, p
  <2>3. Unsent(c) \in Nat /\ SocketRoom - unread[p] \in Nat
    BY <1>1, <1>2
  <2>4. /\ Smaller(Unsent(c), SocketRoom - unread[p]) <= Unsent(c)
        /\ Smaller(Unsent(c), SocketRoom - unread[p]) <= SocketRoom - unread[p]
        /\ Smaller(Unsent(c), SocketRoom - unread[p]) \in Nat
    BY <2>3 DEF Smaller
  <2>5. m \in Nat /\ m <= Unsent(c) /\ m <= SocketRoom - unread[p]
    BY <2>1, <2>3, <2>4
  <2> HIDE DEF m
  <2>6. n \in Nat /\ n <= m
    BY <2>2, <2>5
  <2>7. /\ Len(c.pending) \in Nat /\ c.offset \in Nat /\ unread[p] \in Nat /\ SocketRoom \in Nat
        /\ Unsent(c) = Len(c.pending) - c.offset
    BY <1>1, <1>2
  <2>8. n \in 0..Len(c.pending) - c.offset
    BY <2>5, <2>6, <2>7
  <2>9. unread[p] + n \in 0..SocketRoom
    BY <2>5, <2>6, <2>7
  <2>10. ~c.open => n = 0
    BY <2>1, <2>6
  <2> QED BY <2>8, <2>9, <2>10
<1>4. v \in Seq(Byte) /\ Starts(v, t)
  <2>1. CASE c.open
    BY <1>1, <1>2, <1>3, <2>1, SplitsSent DEF Whole
  <2>2. CASE ~c.open
    <3>1. SubSeq(c.pending, c.offset + 1, c.offset + n) = <<>>
      BY <1>2, <1>3, <2>2, SubSeqEmpty
    <3>2. v = wire[p]
      BY <1>1, <3>1, ConcatEmptySeq
    <3> QED BY <1>1, <1>2, <3>2
  <2> QED BY <1>2, <2>1, <2>2
<1>5. /\ wire' = [wire EXCEPT ![p] = v] /\ unread' = [unread EXCEPT ![p] = unread[p] + n]
  BY DEF Transmit
<1>6. /\ clients' \in Seq(Client) /\ Len(clients') = Len(clients) /\ clients'[turn] = d
      /\ \A i \in 1..Len(clients) : i # turn => clients'[i] = clients[i]
  <2>1. d \in Client /\ clients \in Seq(Client)
    BY <1>1 DEF ClientInv, TypeInv
  <2> QED BY <2>1, ExceptSeq
<1> HIDE DEF v, t, c, p
<1>7. /\ wire' \in [Peer -> Seq(Byte)] /\ wire'[p] = v
      /\ \A q \in Peer : q # p => wire'[q] = wire[q]
  BY <1>1, <1>4, <1>5 DEF TypeInv
<1>8. unread' \in [Peer -> 0..SocketRoom]
  BY <1>1, <1>3, <1>5 DEF TypeInv
<1>9. TypeInv'
  <2>1. turn' \in Nat \ {0}
    BY <1>1 DEF TypeInv
  <2>2. UNCHANGED <<offered, dropped, isRunning, mpc, queue, wpc, readable, hungUp,
                    peerState, popped, since>>
    BY DEF notWorker, decoderVars, stopVars, pollVars
  <2> QED BY <1>1, <1>6, <1>7, <1>8, <2>1, <2>2 DEF TypeInv
<1>10. ListInv'
  <2>1. ASSUME NEW i \in 1..Len(clients)
        PROVE  /\ ClientInv(clients'[i]) /\ clients'[i].peer = clients[i].peer
               /\ peerState'[clients'[i].peer] \in {"connected", "left"}
    BY <1>1, <1>6 DEF ListInv, c
  <2> QED BY <1>1, <1>6, <2>1 DEF ListInv
<1>11. StreamInv'
  <2>1. UNCHANGED <<since, popped, peerState>>
    OBVIOUS
  <2>2. ASSUME NEW q \in Peer
        PROVE  /\ Starts(wire'[q], Stream(q, since', popped'))
               /\ peerState'[q] \notin {"connected", "left"} => wire'[q] = <<>>
    <3>1. CASE q # p
      BY <1>1, <1>7, <2>1, <3>1 DEF StreamInv
    <3>2. CASE q = p
      <4>1. peerState[p] \in {"connected", "left"}
        BY <1>1 DEF ListInv, p, c
      <4> QED BY <1>4, <1>7, <2>1, <3>2, <4>1 DEF t
    <3> QED BY <3>1, <3>2
  <2>3. Whole(d, wire', since', popped')
    <3>1. SUFFICES ASSUME d.open PROVE Splits(v, d.pending, d.offset, t)
      BY <1>7, <2>1 DEF Whole, t, p, c
    <3>2. Splits(wire[p], c.pending, c.offset, t)
      BY <1>1, <3>1 DEF Whole, t, p, c
    <3> QED BY <1>1, <3>1, <3>2 DEF v, c
  <2>4. ASSUME NEW i \in 1..Len(clients), i # turn
        PROVE  Whole(clients'[i], wire', since', popped')
    <3>1. /\ clients'[i] = clients[i] /\ clients[i].peer # p /\ clients[i].peer \in Peer
          /\ Whole(clients[i], wire, since, popped)
      BY <1>1, <1>6, <2>4 DEF ListInv, StreamInv, p, c
    <3> QED BY <1>7, <2>1, <3>1 DEF Whole
  <2>5. \A i \in 1..Len(clients') : Whole(clients'[i], wire', since', popped')
    BY <1>6, <2>3, <2>4
  <2> QED BY <2>2, <2>5 DEF StreamInv
<1> QED BY <1>9, <1>10, <1>11 DEF IInv

\* The worker goes on to the next client.
LEMMA FlushStep ==
  ASSUME IInv, FlushClient \/ FlushFails
  PROVE  IInv'
<1> DEFINE c == clients[turn]
           p == c.peer
<1>1. TypeInv /\ ListInv /\ Len(clients) \in Nat /\ turn \in Nat \ {0} /\ SocketRoom \in Nat
  BY Basics DEF IInv, TypeInv
<1>2. turn \in 1..Len(clients) /\ wpc = "flush"
  <2>1. turn <= Len(clients) /\ wpc = "flush"
    BY DEF FlushClient, FlushFails
  <2> QED BY <1>1, <2>1
<1>3. ClientInv(c) /\ c \in Client /\ p \in Peer
  BY <1>1, <1>2, Basics DEF IInv, ListInv
<1>4. unread[p] \in 0..SocketRoom
  BY <1>1, <1>3 DEF TypeInv
<1>5. /\ c.pending \in Seq(Byte) /\ c.offset \in 0..Len(c.pending)
      /\ Len(c.pending) \in Nat /\ Unsent(c) = Len(c.pending) - c.offset
  <2> HIDE DEF c
  <2>1. c.pending \in Seq(Byte) /\ c.offset \in 0..Len(c.pending)
    BY <1>3 DEF ClientInv, Client
  <2> QED BY <2>1, LenProperties DEF Unsent
<1>6. SocketTakes(c) \in 0..Unsent(c)
  <2> HIDE DEF c, p
  <2>1. Unsent(c) \in Nat /\ SocketRoom - unread[c.peer] \in Nat
    BY <1>3, <1>4, <1>5, <1>1 DEF p
  <2>2. Smaller(Unsent(c), SocketRoom - unread[c.peer]) \in 0..Unsent(c)
    BY <2>1 DEF Smaller
  <2> QED BY <2>1, <2>2 DEF SocketTakes
<1>7. CASE FlushClient
  <2> DEFINE n == SocketTakes(c)
             d == Sent(c, n)
  <2>1. /\ ClientInv(d) /\ d.peer = c.peer /\ (d.open => c.open)
        /\ \A w, t \in Seq(Byte) :
             LET v == w \o SubSeq(c.pending, c.offset + 1, c.offset + n)
             IN  Splits(w, c.pending, c.offset, t) => Splits(v, d.pending, d.offset, t)
    BY <1>1, <1>2, <1>3, <1>4, <1>5, <1>6, SentOK
  <2>2. n \in 0..SocketTakes(c)
    BY <1>1, <1>2, <1>3, <1>4, <1>5, <1>6
  <2>3. /\ clients' = [clients EXCEPT ![turn] = d] /\ Transmit(c, n) /\ turn' = turn + 1
        /\ UNCHANGED <<notWorker, queue, wpc, pollVars, peerState, popped, since>>
    BY <1>7 DEF FlushClient
  <2> HIDE DEF d, n
  <2> QED BY <1>2, <2>1, <2>2, <2>3, FlushKeeps
<1>8. CASE FlushFails
  <2>1. PICK n \in 0..SocketTakes(c) :
          /\ n < Unsent(c)
          /\ clients' = [clients EXCEPT
                         ![turn] = [c EXCEPT !.open = FALSE, !.offset = c.offset + n]]
          /\ Transmit(c, n)
    BY <1>8 DEF FlushFails
  <2> DEFINE d == [c EXCEPT !.open = FALSE, !.offset = c.offset + n]
  <2>2. ClientInv(d) /\ d.peer = c.peer /\ ~d.open
    <3>1. c.offset + n \in Nat /\ c.offset + n <= Len(c.pending) /\ n \in Nat
      BY <1>1, <1>2, <1>3, <1>4, <1>5, <1>6, <2>1
    <3> HIDE DEF c
    <3>2. d \in Client
      BY <1>1, <1>2, <1>3, <1>4, <1>5, <3>1 DEF Client
    <3>3. d.peer = c.peer /\ d.open = FALSE /\ d.pending = c.pending /\ d.offset = c.offset + n
      BY <1>3, <1>5 DEF Client
    <3> HIDE DEF d
    <3>4. Unsent(d) <= Unsent(c)
      BY <1>1, <1>2, <1>3, <1>4, <1>5, <3>1, <3>3 DEF Unsent
    <3>5. Unsent(d) <= ClientBufferLimit
      BY <1>1, <1>2, <1>3, <1>4, <1>5, <3>1, <3>3, <3>4, ServerAssumption DEF ClientInv, Unsent
    <3> QED BY <1>1, <1>2, <1>3, <1>4, <1>5, <3>1, <3>2, <3>3, <3>5 DEF ClientInv
  <2>3. /\ clients' = [clients EXCEPT ![turn] = d] /\ Transmit(c, n) /\ turn' = turn + 1
        /\ UNCHANGED <<notWorker, queue, wpc, pollVars, peerState, popped, since>>
    BY <1>8, <2>1 DEF FlushFails
  <2> HIDE DEF d
  <2> QED BY <1>2, <2>1, <2>2, <2>3, FlushKeeps
<1> QED BY <1>7, <1>8

\* The list gets shorter by the closed clients, and the order stays.
LEMMA RemoveStep ==
  ASSUME IInv, RemoveClosedClients
  PROVE  IInv'
<1> DEFINE n == Len(clients)
           S == {i \in 1..n : clients[i].open}
           m == Cardinality(S)
<1>1. /\ TypeInv /\ ListInv /\ StreamInv /\ n \in Nat
      /\ \A i \in 1..n : clients[i] \in Client
  BY Basics DEF IInv
<1>2. m \in Nat /\ m <= n
  <2>1. IsFiniteSet(1..n) /\ Cardinality(1..n) = n
    BY <1>1, FS_Interval
  <2>2. S \in SUBSET (1..n)
    OBVIOUS
  <2> HIDE DEF S
  <2>3. IsFiniteSet(S) /\ Cardinality(S) <= n
    BY <2>1, <2>2, FS_Subset
  <2> QED BY <2>3, FS_CardinalityType
<1>3. PICK order \in Ascending(S) :
        clients' = [i \in DOMAIN order |-> clients[order[i]]]
  BY DEF RemoveClosedClients, IndexSet
<1>4. /\ order \in [1..m -> S] /\ DOMAIN order = 1..m
      /\ \A i, j \in 1..m : i < j => order[i] < order[j]
  BY <1>3 DEF Ascending
<1> HIDE DEF m
<1>5. ASSUME NEW i \in 1..m
      PROVE  clients'[i] = clients[order[i]] /\ order[i] \in 1..n /\ clients'[i].open
  BY <1>3, <1>4
<1>6. clients' \in Seq(Client) /\ Len(clients') = m
  <2>1. clients' \in [1..m -> Client]
    BY <1>1, <1>3, <1>4, <1>5
  <2> QED BY <1>2, <2>1, ListOf
<1>7. /\ wpc' = "head" /\ turn' = 1
      /\ UNCHANGED <<decoderVars, stopVars, queue, pollVars, peerState, wire, unread,
                     popped, since>>
  BY DEF RemoveClosedClients, notWorker, kernelVars
<1>8. TypeInv'
  BY <1>1, <1>6, <1>7 DEF TypeInv, Place, decoderVars, stopVars, pollVars
<1>9. ListInv'
  <2>1. \A i \in 1..m : ClientInv(clients'[i])
                          /\ peerState'[clients'[i].peer] \in {"connected", "left"}
    BY <1>1, <1>5, <1>7 DEF ListInv
  <2>2. ASSUME NEW i \in 1..m, NEW j \in 1..m, clients'[i].peer = clients'[j].peer
        PROVE  i = j
    <3>1. order[i] = order[j] /\ order[i] \in Nat
      BY <1>1, <1>5, <2>2 DEF ListInv
    <3>2. ~(i < j) /\ ~(j < i)
      BY <1>4, <3>1
    <3> QED BY <1>2, <3>2
  <2>3. m <= MaxClients
    BY <1>1, <1>2, ServerAssumption DEF ListInv
  <2> QED BY <1>5, <1>6, <2>1, <2>2, <2>3 DEF ListInv
<1>10. StreamInv'
  <2>1. \A i \in 1..m : Whole(clients'[i], wire, since, popped)
    BY <1>1, <1>5 DEF StreamInv
  <2> QED BY <1>1, <1>6, <1>7, <2>1 DEF StreamInv
<1> QED BY <1>8, <1>9, <1>10 DEF IInv

\* No client is left.
LEMMA CloseStep ==
  ASSUME IInv, CloseSockets
  PROVE  IInv'
<1>1. /\ clients' \in Seq(Client) /\ Len(clients') = 0 /\ wpc' = "ended"
      /\ UNCHANGED <<decoderVars, stopVars, queue, pollVars, turn, peerState, wire, unread,
                     popped, since>>
  BY EmptySeq DEF CloseSockets, notWorker, kernelVars
<1>2. TypeInv'
  BY <1>1 DEF IInv, TypeInv, Place, decoderVars, stopVars, pollVars
<1>3. ListInv'
  BY <1>1, ServerAssumption DEF ListInv
<1>4. StreamInv'
  BY <1>1 DEF IInv, StreamInv
<1> QED BY <1>2, <1>3, <1>4 DEF IInv

-----------------------------------------------------------------------------
(* The theorems *)

\* Nobody is there yet.
LEMMA TcpInit ==
  ASSUME Init
  PROVE  IInv
<1>1. <<>> \in Seq(Byte) /\ <<>> \in Seq(Client) /\ <<>> \in Seq(1..MaxFrames) /\ Len(<<>>) = 0
  BY EmptySeq
<1>2. TypeInv
  <2>1. MaxFrames \in Nat /\ QueueRoom \in Nat /\ SocketRoom \in Nat
    BY ServerAssumption
  <2> QED BY <1>1, <2>1 DEF Init, TypeInv, Place, PeerState
<1>3. ListInv
  BY <1>1, ServerAssumption DEF Init, ListInv
<1>4. ASSUME NEW p \in Peer PROVE Starts(wire[p], Stream(p, since, popped)) /\ wire[p] = <<>>
  <2>1. Stream(p, since, popped) \in Seq(Byte)
    BY <1>2, Basics
  <2>2. Len(Stream(p, since, popped)) \in Nat
    BY <2>1, LenProperties
  <2>3. wire[p] = <<>>
    BY DEF Init
  <2> QED BY <1>1, <2>2, <2>3 DEF Starts
<1>5. StreamInv
  BY <1>1, <1>4 DEF Init, StreamInv
<1> QED BY <1>2, <1>3, <1>5 DEF IInv

\* Every step keeps it.
LEMMA TcpNext ==
  ASSUME IInv, [Next]_vars
  PROVE  IInv'
<1>1. CASE UNCHANGED vars
  <2>1. UNCHANGED <<offered, dropped, queue, isRunning, mpc, wpc, clients, readable, hungUp,
                    turn, peerState, wire, unread, popped, since>>
    BY <1>1 DEF vars, decoderVars, stopVars, pollVars, kernelVars
  <2>2. TypeInv'
    BY <2>1 DEF IInv, TypeInv
  <2> QED BY <2>1, <2>2, Apart
<1>2. CASE Publish \/ Stop \/ StopJoins
  BY <1>2, PublishStop
<1>3. CASE Worker
  BY <1>3, TurnPoll, AcceptStep, ComeAndGo, ServeStep, DistributeStep, FlushStep,
     RemoveStep, CloseStep DEF Worker
<1>4. ASSUME NEW p \in Peer, Connect(p) \/ PeerReads(p) \/ Leave(p)
      PROVE  IInv'
  BY <1>4, ComeAndGo, TurnPoll
<1> QED BY <1>1, <1>2, <1>3, <1>4 DEF Next

\* The inductive invariant holds in every behaviour.
THEOREM TcpIInv ==
  SafeSpec => []IInv
<1>1. Init => IInv
  BY TcpInit
<1>2. IInv /\ [Next]_vars => IInv'
  BY TcpNext
<1> QED BY <1>1, <1>2, PTL DEF SafeSpec

\* A slow client cannot grow memory without a fixed bound, for whatever
\* limits and sizes of frames (TcpOutputServer.cpp:217-230).
THEOREM TcpMemoryBounded ==
  SafeSpec => []MemoryBounded
<1>1. IInv => MemoryBounded
  BY DEF IInv, ListInv, ClientInv, MemoryBounded, IndexSet
<1> QED BY <1>1, TcpIInv, PTL

\* Each client gets its own stream, byte for byte, and the list the worker
\* goes through by index holds exactly the clients it serves
\* (TcpOutputServer.cpp:168-345).
THEOREM TcpEachItsStream ==
  SafeSpec => []EachItsStream
<1>1. IInv => EachItsStream
  <2> SUFFICES ASSUME IInv PROVE EachItsStream
    OBVIOUS
  <2>1. ClientsServed
    BY DEF IInv, ListInv, ClientsServed, IndexSet
  <2>2. \A p \in Peer : Stream(p, since, popped) = StreamFrom(since[p], ProtocolOf[p])
    BY DEF Stream, StreamOf, StreamFrom
  <2>3. \A p \in Peer : Starts(wire[p], StreamFrom(since[p], ProtocolOf[p]))
    BY <2>2 DEF IInv, StreamInv
  <2>4. ASSUME NEW i \in 1..Len(clients), clients[i].open
        PROVE  LET c == clients[i]
               IN  wire[c.peer] \o From(c.pending, c.offset + 1)
                     = StreamFrom(since[c.peer], ProtocolOf[c.peer])
    <3> DEFINE c == clients[i]
               p == c.peer
    <3>1. /\ p \in Peer /\ wire[p] \in Seq(Byte) /\ Stream(p, since, popped) \in Seq(Byte)
          /\ c.pending \in Seq(Byte) /\ c.offset \in 0..Len(c.pending)
      BY Basics DEF IInv, ListInv, ClientInv, Client
    <3>2. Splits(wire[p], c.pending, c.offset, Stream(p, since, popped))
      BY <2>4 DEF IInv, StreamInv, Whole
    <3> HIDE DEF c, p
    <3>3. wire[p] \o From(c.pending, c.offset + 1) = Stream(p, since, popped)
      BY <3>1, <3>2, SplitsMeans
    <3> QED BY <2>2, <3>1, <3>3 DEF p, c
  <2> QED BY <2>1, <2>3, <2>4 DEF EachItsStream, StreamIntact, IndexSet
<1> QED BY <1>1, TcpIInv, PTL

-----------------------------------------------------------------------------
(* What a client reads *)

\* The bytes of a message.  Those of a time are named by how they are made: that
\* they are below 256 too is arithmetic with powers, and nothing here needs it.
TimeByte(t, i) == BigEndian(t, TimeBytes)[i]
MessageByte == (0..255) \cup {TimeByte(t, i) : t \in Int, i \in 1..TimeBytes}
Bytestring == Seq(MessageByte)

LEMMA SmallBytes == 0..255 \subseteq MessageByte
  BY DEF MessageByte

LEMMA Marks == \A n \in {0, 50, 51, Escape} : n \in MessageByte
  BY SmallBytes DEF Escape

ClientReader ==
  [messages : Seq(Bytestring), message : Bytestring, left : Int, escaped : BOOLEAN,
   lost : BOOLEAN]

LEMMA EscapedTyped ==
  ASSUME NEW out \in Bytestring, NEW byte \in MessageByte
  PROVE  AppendEscaped(out, byte) \in Bytestring
<1>1. <<byte, byte>> \in Bytestring
  BY DEF Bytestring
<1>2. out \o <<byte, byte>> \in Bytestring /\ Append(out, byte) \in Bytestring
  BY <1>1, ConcatProperties, AppendProperties DEF Bytestring
<1> QED BY <1>2 DEF AppendEscaped

LEMMA ReadOnTyped ==
  ASSUME NEW r \in ClientReader, NEW byte \in MessageByte
  PROVE  ReadOn(r, byte) \in ClientReader
<1>1. Append(r.message, byte) \in Bytestring /\ <<byte>> \in Bytestring
  BY DEF Bytestring, ClientReader
<1>2. Append(r.messages, Append(r.message, byte)) \in Seq(Bytestring)
  BY <1>1 DEF ClientReader
<1>3. ReadByte(r, byte) \in ClientReader
  BY <1>1, <1>2 DEF ReadByte, ClientReader
<1>4. ReadKind(r, byte) \in ClientReader
  BY <1>1, FrameOutputAssumption DEF ReadKind, ClientReader
<1>5. [r EXCEPT !.escaped = TRUE] \in ClientReader
  BY DEF ClientReader
<1> QED BY <1>3, <1>4, <1>5 DEF ReadOn

LEMMA AtStartTyped == AtStart \in ClientReader
<1>1. <<>> \in Seq(Bytestring) /\ <<>> \in Bytestring
  BY DEF Bytestring
<1> QED BY <1>1 DEF AtStart, ClientReader

\* The loop of the encoder, pass after pass.
WrittenBy(w, out, bytes) ==
  /\ w \in [0..Len(bytes) -> Bytestring] /\ w[0] = out
  /\ \A n \in 1..Len(bytes) : w[n] = AppendEscaped(w[n - 1], bytes[n])

LEMMA Written ==
  ASSUME NEW out \in Bytestring, NEW bytes \in Bytestring
  PROVE  \E w : WrittenBy(w, out, bytes) /\ AppendBigEndianEscaped(out, bytes) = w[Len(bytes)]
<1> DEFINE L == Len(bytes)
           step == [p \in Bytestring \X Nat |->
                      IF p[2] \in 1..L THEN AppendEscaped(p[1], bytes[p[2]]) ELSE p[1]]
           Loop(f) == f = [n \in 0..L |-> IF n = 0 THEN out ELSE AppendEscaped(f[n - 1], bytes[n])]
           w == CHOOSE f : Loop(f)
<1>1. L \in Nat /\ \A n \in 1..L : bytes[n] \in MessageByte
  BY DEF Bytestring
<1>2. step \in [Bytestring \X Nat -> Bytestring]
  <2>1. ASSUME NEW p \in Bytestring \X Nat
        PROVE  (IF p[2] \in 1..L THEN AppendEscaped(p[1], bytes[p[2]]) ELSE p[1]) \in Bytestring
    BY <1>1, EscapedTyped
  <2> QED BY <2>1
<1>3. \A s \in Bytestring, n \in 1..L : step[<<s, n>>] = AppendEscaped(s, bytes[n])
  BY <1>1
<1>4. AppendBigEndianEscaped(out, bytes) = w[L]
  BY DEF AppendBigEndianEscaped
<1> HIDE DEF step, L
<1>5. PICK f \in [0..L -> Bytestring] : IsIterate(f, out, step, L)
  BY <1>1, <1>2, IterateExists
<1>6. Loop(f)
  <2>1. f = [n \in 0..L |-> IF n = 0 THEN out ELSE step[<<f[n - 1], n>>]]
    BY <1>5 DEF IsIterate
  <2>2. ASSUME NEW n \in 0..L, n # 0 PROVE step[<<f[n - 1], n>>] = AppendEscaped(f[n - 1], bytes[n])
    <3>1. n \in 1..L /\ n - 1 \in 0..L
      BY <1>1, <2>2
    <3> QED BY <1>3, <1>5, <3>1
  <2> QED BY <2>1, <2>2
<1>7. Loop(w)
  <2> HIDE DEF Loop
  <2> QED BY <1>6
<1>8. w = f
  <2> DEFINE P == {n \in 0..L : w[n] = f[n]}
  <2>1. \A n \in 0..L : /\ w[n] = IF n = 0 THEN out ELSE AppendEscaped(w[n - 1], bytes[n])
                        /\ f[n] = IF n = 0 THEN out ELSE AppendEscaped(f[n - 1], bytes[n])
    BY <1>6, <1>7
  <2>2. 0 \in P
    <3>1. 0 \in 0..L
      BY <1>1
    <3>2. w[0] = out /\ f[0] = out
      BY <2>1, <3>1
    <3> QED BY <3>1, <3>2
  <2>3. ASSUME NEW n \in 0..(L - 1), n \in P PROVE n + 1 \in P
    <3>1. n + 1 \in 0..L /\ n + 1 # 0 /\ (n + 1) - 1 = n /\ w[n] = f[n]
      BY <1>1, <2>3
    <3>2. w[n + 1] = AppendEscaped(w[(n + 1) - 1], bytes[n + 1]) /\ f[n + 1] = AppendEscaped(f[(n + 1) - 1], bytes[n + 1])
      BY <2>1, <3>1
    <3> QED BY <3>1, <3>2
  <2> HIDE DEF P
  <2>4. \A n \in 0..L : n \in P
    BY <1>1, <2>2, <2>3, EveryPass
  <2>5. w = [n \in 0..L |-> w[n]] /\ f = [n \in 0..L |-> f[n]]
    BY <1>6, <1>7
  <2> HIDE DEF w
  <2> QED BY <2>4, <2>5 DEF P
<1>9. \A n \in 1..L : n \in 0..L /\ n # 0
  BY <1>1
<1>10. WrittenBy(f, out, bytes)
  BY <1>1, <1>5, <1>6, <1>9 DEF WrittenBy, L
<1> HIDE DEF w
<1> QED BY <1>4, <1>8, <1>10 DEF L

\* And the client's.
ReadBy(r, bytes) ==
  /\ r \in [0..Len(bytes) -> ClientReader] /\ r[0] = AtStart
  /\ \A n \in 1..Len(bytes) : r[n] = ReadOn(r[n - 1], bytes[n])

LEMMA ReadThrough ==
  ASSUME NEW bytes \in Bytestring
  PROVE  \E r : ReadBy(r, bytes) /\ Read(bytes) = r[Len(bytes)]
<1> DEFINE L == Len(bytes)
           step == [p \in ClientReader \X Nat |->
                      IF p[2] \in 1..L THEN ReadOn(p[1], bytes[p[2]]) ELSE p[1]]
           Loop(f) == f = [n \in 0..L |-> IF n = 0 THEN AtStart ELSE ReadOn(f[n - 1], bytes[n])]
           r == CHOOSE f : Loop(f)
<1>1. L \in Nat /\ \A n \in 1..L : bytes[n] \in MessageByte
  BY DEF Bytestring
<1>2. step \in [ClientReader \X Nat -> ClientReader]
  <2>1. ASSUME NEW p \in ClientReader \X Nat
        PROVE  (IF p[2] \in 1..L THEN ReadOn(p[1], bytes[p[2]]) ELSE p[1]) \in ClientReader
    BY <1>1, ReadOnTyped
  <2> QED BY <2>1
<1>3. \A s \in ClientReader, n \in 1..L : step[<<s, n>>] = ReadOn(s, bytes[n])
  BY <1>1
<1>4. Read(bytes) = r[L]
  BY DEF Read
<1> HIDE DEF step, L
<1>5. PICK f \in [0..L -> ClientReader] : IsIterate(f, AtStart, step, L)
  BY <1>1, <1>2, AtStartTyped, IterateExists
<1>6. Loop(f)
  <2>1. f = [n \in 0..L |-> IF n = 0 THEN AtStart ELSE step[<<f[n - 1], n>>]]
    BY <1>5 DEF IsIterate
  <2>2. ASSUME NEW n \in 0..L, n # 0 PROVE step[<<f[n - 1], n>>] = ReadOn(f[n - 1], bytes[n])
    <3>1. n \in 1..L /\ n - 1 \in 0..L
      BY <1>1, <2>2
    <3> QED BY <1>3, <1>5, <3>1
  <2> QED BY <2>1, <2>2
<1>7. Loop(r)
  <2> HIDE DEF Loop
  <2> QED BY <1>6
<1>8. r = f
  <2> DEFINE P == {n \in 0..L : r[n] = f[n]}
  <2>1. \A n \in 0..L : /\ r[n] = IF n = 0 THEN AtStart ELSE ReadOn(r[n - 1], bytes[n])
                        /\ f[n] = IF n = 0 THEN AtStart ELSE ReadOn(f[n - 1], bytes[n])
    BY <1>6, <1>7
  <2>2. 0 \in P
    <3>1. 0 \in 0..L
      BY <1>1
    <3>2. r[0] = AtStart /\ f[0] = AtStart
      BY <2>1, <3>1
    <3> QED BY <3>1, <3>2
  <2>3. ASSUME NEW n \in 0..(L - 1), n \in P PROVE n + 1 \in P
    <3>1. n + 1 \in 0..L /\ n + 1 # 0 /\ (n + 1) - 1 = n /\ r[n] = f[n]
      BY <1>1, <2>3
    <3>2. /\ r[n + 1] = ReadOn(r[(n + 1) - 1], bytes[n + 1])
          /\ f[n + 1] = ReadOn(f[(n + 1) - 1], bytes[n + 1])
      BY <2>1, <3>1
    <3> QED BY <3>1, <3>2
  <2> HIDE DEF P
  <2>4. \A n \in 0..L : n \in P
    BY <1>1, <2>2, <2>3, EveryPass
  <2>5. r = [n \in 0..L |-> r[n]] /\ f = [n \in 0..L |-> f[n]]
    BY <1>6, <1>7
  <2> HIDE DEF r
  <2> QED BY <2>4, <2>5 DEF P
<1>9. \A n \in 1..L : n \in 0..L /\ n # 0
  BY <1>1
<1>10. ReadBy(f, bytes)
  BY <1>1, <1>5, <1>6, <1>9, SMTT(30) DEF ReadBy, L
<1> HIDE DEF r
<1> QED BY <1>4, <1>8, <1>10 DEF L

\* One byte more is one pass more.
LEMMA ReadMore ==
  ASSUME NEW bytes \in Bytestring, NEW byte \in MessageByte
  PROVE  /\ Read(bytes) \in ClientReader
         /\ Append(bytes, byte) \in Bytestring
         /\ Read(Append(bytes, byte)) = ReadOn(Read(bytes), byte)
<1> DEFINE more == Append(bytes, byte)
           L == Len(bytes)
<1>1. /\ more \in Bytestring /\ L \in Nat /\ Len(more) = L + 1
      /\ more[L + 1] = byte /\ \A n \in 1..L : more[n] = bytes[n]
  BY AppendProperties DEF Bytestring
<1> HIDE DEF more
<1>2. PICK r : ReadBy(r, bytes) /\ Read(bytes) = r[L]
  BY ReadThrough
<1>3. PICK s : ReadBy(s, more) /\ Read(more) = s[L + 1]
  BY <1>1, ReadThrough
<1>4. s[L] = r[L]
  <2> DEFINE P == {n \in 0..L : s[n] = r[n]}
  <2>1. 0 \in P
    BY <1>1, <1>2, <1>3 DEF ReadBy
  <2>2. ASSUME NEW n \in 0..(L - 1), n \in P PROVE n + 1 \in P
    <3>1. n + 1 \in 0..L /\ n + 1 \in 1..L /\ n + 1 \in 1..(L + 1) /\ (n + 1) - 1 = n /\ s[n] = r[n]
      BY <1>1, <2>2
    <3>2. s[n + 1] = ReadOn(s[(n + 1) - 1], more[n + 1]) /\ r[n + 1] = ReadOn(r[(n + 1) - 1], bytes[n + 1])
      BY <1>1, <1>2, <1>3, <3>1 DEF ReadBy
    <3> QED BY <1>1, <3>1, <3>2
  <2> HIDE DEF P
  <2>3. \A n \in 0..L : n \in P
    BY <1>1, <2>1, <2>2, EveryPass
  <2>4. L \in 0..L
    BY <1>1
  <2> QED BY <2>3, <2>4 DEF P
<1>5. s[L + 1] = ReadOn(s[L], byte)
  <2>1. L + 1 \in 1..(L + 1) /\ (L + 1) - 1 = L
    BY <1>1
  <2>2. s[L + 1] = ReadOn(s[(L + 1) - 1], more[L + 1])
    BY <1>1, <1>3, <2>1 DEF ReadBy
  <2> QED BY <1>1, <2>1, <2>2
<1>6. r[L] \in ClientReader
  BY <1>1, <1>2 DEF ReadBy
<1> QED BY <1>1, <1>2, <1>3, <1>4, <1>5, <1>6 DEF more

LEMMA ReadNothing == Read(<<>>) = AtStart
<1>1. <<>> \in Bytestring /\ Len(<<>>) = 0
  BY DEF Bytestring
<1>2. PICK r : ReadBy(r, <<>>) /\ Read(<<>>) = r[0]
  BY <1>1, ReadThrough
<1> QED BY <1>2 DEF ReadBy

LEMMA BytesAssociative ==
  \A s, t, u \in Bytestring : (s \o t) \o u = s \o (t \o u)
BY ConcatAssociative DEF Bytestring

LEMMA BytesConcatenated ==
  \A s, t \in Bytestring : s \o t \in Bytestring /\ Len(s \o t) = Len(s) + Len(t)
BY ConcatProperties DEF Bytestring

\* What is written after something else is what is written after nothing.
LEMMA WrittenAfter ==
  ASSUME NEW before \in Bytestring, NEW out \in Bytestring, NEW bytes \in Bytestring
  PROVE  /\ AppendBigEndianEscaped(out, bytes) \in Bytestring
         /\ AppendBigEndianEscaped(before \o out, bytes) = before \o AppendBigEndianEscaped(out, bytes)
<1> DEFINE L == Len(bytes)
<1>1. L \in Nat /\ (\A n \in 1..L : bytes[n] \in MessageByte) /\ before \o out \in Bytestring
  BY ConcatProperties DEF Bytestring
<1>2. PICK v : WrittenBy(v, out, bytes) /\ AppendBigEndianEscaped(out, bytes) = v[L]
  BY Written
<1>3. PICK w : WrittenBy(w, before \o out, bytes) /\ AppendBigEndianEscaped(before \o out, bytes) = w[L]
  BY <1>1, Written
<1> DEFINE P == {n \in 0..L : w[n] = before \o v[n]}
<1>4. 0 \in P
  BY <1>1, <1>2, <1>3 DEF WrittenBy
<1>5. ASSUME NEW n \in 0..(L - 1), n \in P PROVE n + 1 \in P
  <2>1. n + 1 \in 0..L /\ n + 1 \in 1..L /\ (n + 1) - 1 = n /\ n \in 0..L /\ w[n] = before \o v[n]
    BY <1>1, <1>5
  <2>2. w[n + 1] = AppendEscaped(before \o v[n], bytes[n + 1]) /\ v[n + 1] = AppendEscaped(v[n], bytes[n + 1])
    BY <1>2, <1>3, <2>1 DEF WrittenBy
  <2>3. v[n] \in Bytestring /\ bytes[n + 1] \in MessageByte
    BY <1>1, <1>2, <2>1 DEF WrittenBy
  <2>4. AppendEscaped(before \o v[n], bytes[n + 1]) = before \o AppendEscaped(v[n], bytes[n + 1])
    <3> DEFINE b == bytes[n + 1]
               u == v[n]
    <3>1. b \in MessageByte /\ u \in Bytestring /\ <<b, b>> \in Bytestring /\ <<b>> \in Bytestring
      BY <2>3 DEF Bytestring
    <3> HIDE DEF b, u
    <3>2. \A t \in Bytestring : (before \o u) \o t = before \o (u \o t)
      BY <3>1, BytesAssociative
    <3>3. before \o u \in Bytestring
      BY <3>1, ConcatProperties DEF Bytestring
    <3>4. Append(before \o u, b) = (before \o u) \o <<b>> /\ Append(u, b) = u \o <<b>>
      BY <3>1, <3>3, AppendIsConcat DEF Bytestring
    <3>5. AppendEscaped(before \o u, b) = before \o AppendEscaped(u, b)
      BY <3>1, <3>2, <3>4 DEF AppendEscaped
    <3> QED BY <3>5 DEF b, u
  <2> QED BY <2>1, <2>2, <2>4
<1> HIDE DEF P
<1>6. \A n \in 0..L : n \in P
  BY <1>1, <1>4, <1>5, EveryPass
<1>7. L \in 0..L
  BY <1>1
<1>8. w[L] = before \o v[L]
  BY <1>6, <1>7 DEF P
<1>9. v[L] \in Bytestring
  BY <1>2, <1>7 DEF WrittenBy
<1> QED BY <1>2, <1>3, <1>8, <1>9

\* A byte is read as it was written, whether it had to be written twice or not.
LEMMA EscapedRead ==
  ASSUME NEW out \in Bytestring, NEW byte \in MessageByte, ~Read(out).escaped
  PROVE  Read(AppendEscaped(out, byte)) = ReadByte(Read(out), byte)
<1> DEFINE r == Read(out)
<1>1. r \in ClientReader /\ Append(out, byte) \in Bytestring /\ Read(Append(out, byte)) = ReadOn(r, byte)
  BY ReadMore
<1>2. CASE byte # Escape
  BY <1>1, <1>2 DEF AppendEscaped, ReadOn, ClientReader
<1>3. CASE byte = Escape
  <2> DEFINE once == Append(out, byte)
  <2>1. Read(Append(once, byte)) = ReadOn(Read(once), byte)
    BY <1>1, ReadMore
  <2>2. Append(once, byte) = out \o <<byte, byte>>
    <3>1. /\ once \in Seq(MessageByte) /\ Append(once, byte) \in Seq(MessageByte)
          /\ out \o <<byte, byte>> \in Seq(MessageByte)
      BY <1>1, AppendProperties, ConcatProperties DEF Bytestring
    <3>2. /\ Len(Append(once, byte)) = Len(out) + 2 /\ Len(out \o <<byte, byte>>) = Len(out) + 2
          /\ Len(out) \in Nat
      BY <3>1, AppendProperties, ConcatProperties DEF Bytestring
    <3>3. ASSUME NEW i \in 1..(Len(out) + 2) PROVE Append(once, byte)[i] = (out \o <<byte, byte>>)[i]
      <4>1. out \in Seq(MessageByte)
        BY DEF Bytestring
      <4> QED BY <3>1, <3>2, <4>1
    <3> QED BY <3>1, <3>2, <3>3, SeqEqual
  <2>3. AppendEscaped(out, byte) = Append(once, byte)
    BY <1>3, <2>2 DEF AppendEscaped
  <2>4. Read(once) = [r EXCEPT !.escaped = TRUE]
    BY <1>1, <1>3 DEF ReadOn, ClientReader
  <2> HIDE DEF r, once
  <2>5. ReadOn([r EXCEPT !.escaped = TRUE], byte) = ReadByte(r, byte)
    BY <1>1, <1>3 DEF ReadOn, ReadByte, ClientReader
  <2> QED BY <2>1, <2>3, <2>4, <2>5 DEF r
<1> QED BY <1>2, <1>3

\* The client after the first so many of the bytes that are left to come.
ReadSoFar(r, bytes, n) ==
  LET message == r.message \o SubSeq(bytes, 1, n)
  IN  [messages |-> IF n > 0 /\ n = r.left THEN Append(r.messages, message) ELSE r.messages,
       message |-> message, escaped |-> FALSE, left |-> r.left - n, lost |-> r.lost]

LEMMA BytesReadBack ==
  ASSUME NEW out \in Bytestring, NEW bytes \in Bytestring,
         ~Read(out).escaped, Len(bytes) <= Read(out).left
  PROVE  Read(AppendBigEndianEscaped(out, bytes)) = ReadSoFar(Read(out), bytes, Len(bytes))
<1> DEFINE L == Len(bytes)
           r == Read(out)
<1>1. /\ L \in Nat /\ (\A n \in 1..L : bytes[n] \in MessageByte)
      /\ r \in ClientReader /\ r.left \in Int /\ r.message \in Bytestring
  <2>1. r \in ClientReader
    <3>1. 0 \in MessageByte
      BY Marks
    <3> QED BY <3>1, ReadMore
  <2> HIDE DEF r
  <2> QED BY <2>1 DEF Bytestring, ClientReader
<1>2. PICK w : WrittenBy(w, out, bytes) /\ AppendBigEndianEscaped(out, bytes) = w[L]
  BY Written
<1>3. ~r.escaped /\ L <= r.left
  OBVIOUS
<1> DEFINE P == {n \in 0..L : Read(w[n]) = ReadSoFar(r, bytes, n)}
<1>4. 0 \in P
  <2>1. w[0] = out
    BY <1>2 DEF WrittenBy
  <2>2. r.message \o SubSeq(bytes, 1, 0) = r.message
    <3>1. SubSeq(bytes, 1, 0) = <<>>
      BY SubSeqEmpty
    <3> QED BY <1>1, <3>1, ConcatEmptySeq DEF Bytestring
  <2> HIDE DEF r
  <2>3. ReadSoFar(r, bytes, 0) = r
    BY <1>1, <1>3, <2>2 DEF ReadSoFar, ClientReader
  <2> QED BY <1>1, <2>1, <2>3 DEF r
<1>5. ASSUME NEW n \in 0..(L - 1), n \in P PROVE n + 1 \in P
  <2> DEFINE b == bytes[n + 1]
             now == ReadSoFar(r, bytes, n)
  <2>1. /\ n + 1 \in 0..L /\ n + 1 \in 1..L /\ (n + 1) - 1 = n /\ n \in 0..L /\ n \in Nat
        /\ Read(w[n]) = now /\ b \in MessageByte
    BY <1>1, <1>5
  <2>2. w[n + 1] = AppendEscaped(w[n], b) /\ w[n] \in Bytestring
    BY <1>2, <2>1 DEF WrittenBy
  <2>3. ~now.escaped
    BY DEF ReadSoFar
  <2>4. Read(w[n + 1]) = ReadByte(now, b)
    BY <2>1, <2>2, <2>3, EscapedRead
  <2> HIDE DEF r
  <2>5. Append(r.message \o SubSeq(bytes, 1, n), b) = r.message \o SubSeq(bytes, 1, n + 1)
    <3>1. SubSeq(bytes, 1, n + 1) = SubSeq(bytes, 1, (n + 1) - 1) \o <<b>>
      <4>1. 1 \in 1..Len(bytes) /\ n + 1 \in 1..Len(bytes)
        BY <1>1, <2>1
      <4> QED BY <4>1, SubSeqRecursiveSecond DEF Bytestring
    <3>2. SubSeq(bytes, 1, n) \in Seq(MessageByte) /\ <<b>> \in Seq(MessageByte) /\ r.message \in Seq(MessageByte)
      <4>1. \A i \in 1..n : bytes[i] \in MessageByte
        BY <1>1, <2>1
      <4> QED BY <1>1, <2>1, <4>1, SubSeqProperties DEF Bytestring
    <3>3. r.message \o SubSeq(bytes, 1, n) \in Seq(MessageByte)
      BY <3>2, ConcatProperties
    <3> HIDE DEF b
    <3>4. Append(r.message \o SubSeq(bytes, 1, n), b) = (r.message \o SubSeq(bytes, 1, n)) \o <<b>>
      BY <2>1, <3>3, AppendIsConcat
    <3>5. (r.message \o SubSeq(bytes, 1, n)) \o <<b>> = r.message \o (SubSeq(bytes, 1, n) \o <<b>>)
      BY <3>2, BytesAssociative, ZenonT(60) DEF Bytestring
    <3> QED BY <2>1, <3>1, <3>4, <3>5
  <2>6. n # r.left /\ ((r.left - n) = 1 <=> n + 1 = r.left) /\ r.left - n # 0 /\ n + 1 > 0
        /\ (r.left - n) - 1 = r.left - (n + 1)
    <3> DEFINE k == r.left
    <3>1. k \in Int /\ n \in Nat /\ n + 1 <= k
      BY <1>1, <1>3, <2>1
    <3> HIDE DEF k
    <3>2. n # k /\ ((k - n) = 1 <=> n + 1 = k) /\ k - n # 0 /\ n + 1 > 0 /\ (k - n) - 1 = k - (n + 1)
      BY <3>1
    <3> QED BY <3>2 DEF k
  <2>7. ReadByte(now, b) = ReadSoFar(r, bytes, n + 1)
    <3>1. /\ now.messages = r.messages /\ now.message = r.message \o SubSeq(bytes, 1, n)
          /\ now.left = r.left - n /\ now.lost = r.lost
      BY <2>6 DEF ReadSoFar
    <3>2. (now.lost \/ now.left = 0) = r.lost
      BY <1>1, <2>6, <3>1 DEF ClientReader
    <3> HIDE DEF now, b
    <3> QED BY <2>5, <2>6, <3>1, <3>2 DEF ReadByte, ReadSoFar
  <2> QED BY <2>1, <2>4, <2>7 DEF P
<1> HIDE DEF P
<1>6. \A n \in 0..L : n \in P
  BY <1>1, <1>4, <1>5, EveryPass
<1>7. L \in 0..L
  BY <1>1
<1> QED BY <1>2, <1>6, <1>7 DEF P

\* A whole message is read by a client that was between two of them.
BetweenMessages(r) == r \in ClientReader /\ r.left = 0 /\ ~r.escaped /\ ~r.lost
LeftOf(kind) == TimeBytes + 1 + (IF kind = 51 THEN LongBytes ELSE ShortBytes)

ReadyFor(stream, kind, data) ==
  /\ stream \in Bytestring /\ BetweenMessages(Read(stream))
  /\ kind \in {50, 51} /\ data \in Bytestring /\ Len(data) = LeftOf(kind)
HasRead(stream, kind, data) ==
  LET longer == stream \o AppendBigEndianEscaped(<<Escape, kind>>, data)
  IN  /\ longer \in Bytestring /\ BetweenMessages(Read(longer))
      /\ Read(longer).messages = Append(Read(stream).messages, <<kind>> \o data)

LEMMA MessageReadBack ==
  ASSUME NEW stream, NEW kind, NEW data, ReadyFor(stream, kind, data)
  PROVE  HasRead(stream, kind, data)
<1>0. /\ stream \in Bytestring /\ BetweenMessages(Read(stream))
      /\ kind \in {50, 51} /\ data \in Bytestring /\ Len(data) = LeftOf(kind)
  BY DEF ReadyFor
<1> DEFINE begun == stream \o <<Escape, kind>>
           message == AppendBigEndianEscaped(<<Escape, kind>>, data)
           r == Read(begun)
<1>1. /\ Escape \in MessageByte /\ kind \in MessageByte /\ kind # Escape
      /\ <<Escape, kind>> \in Bytestring /\ <<kind>> \in Bytestring
  <2>1. Escape \in MessageByte /\ kind \in MessageByte /\ kind # Escape
    BY <1>0, Marks DEF Escape
  <2> QED BY <2>1 DEF Bytestring
<1>2. begun = Append(Append(stream, Escape), kind) /\ Append(stream, Escape) \in Bytestring /\ begun \in Bytestring
  <2>1. Append(stream, Escape) \in Seq(MessageByte) /\ stream \in Seq(MessageByte)
    BY <1>0, <1>1, AppendProperties DEF Bytestring
  <2>2. begun \in Seq(MessageByte) /\ Append(Append(stream, Escape), kind) \in Seq(MessageByte)
    BY <1>1, <2>1, AppendProperties, ConcatProperties DEF Bytestring
  <2>3. /\ Len(begun) = Len(stream) + 2 /\ Len(Append(Append(stream, Escape), kind)) = Len(stream) + 2
        /\ Len(stream) \in Nat
    BY <1>1, <2>1, <2>2, AppendProperties, ConcatProperties DEF Bytestring
  <2>4. ASSUME NEW i \in 1..(Len(stream) + 2) PROVE begun[i] = Append(Append(stream, Escape), kind)[i]
    BY <2>1, <2>2, <2>3
  <2>5. begun = Append(Append(stream, Escape), kind)
    BY <2>2, <2>3, <2>4, SeqEqual
  <2> QED BY <2>1, <2>2, <2>5 DEF Bytestring
<1>3. /\ r = [messages |-> Read(stream).messages, message |-> <<kind>>, escaped |-> FALSE,
              left |-> LeftOf(kind), lost |-> FALSE]
      /\ Read(stream) \in ClientReader /\ r \in ClientReader
  <2> DEFINE q == Read(stream)
  <2>1. q \in ClientReader /\ q.left = 0 /\ ~q.escaped /\ ~q.lost
    BY <1>0 DEF BetweenMessages
  <2>2. Read(Append(stream, Escape)) = ReadOn(q, Escape)
    BY <1>0, <1>1, ReadMore
  <2>3. r = ReadOn(Read(Append(stream, Escape)), kind) /\ r \in ClientReader
    BY <1>0, <1>1, <1>2, ReadMore
  <2> HIDE DEF q
  <2>4. ReadOn(q, Escape) = [q EXCEPT !.escaped = TRUE]
    BY <2>1 DEF ReadOn
  <2>5. ReadOn([q EXCEPT !.escaped = TRUE], kind) = ReadKind([q EXCEPT !.escaped = TRUE], kind)
    BY <1>1, <2>1 DEF ReadOn, ClientReader
  <2>6. ReadKind([q EXCEPT !.escaped = TRUE], kind)
          = [messages |-> q.messages, message |-> <<kind>>, escaped |-> FALSE, left |-> LeftOf(kind), lost |-> FALSE]
    BY <1>0, <2>1 DEF ReadKind, ClientReader, LeftOf
  <2> QED BY <2>1, <2>2, <2>3, <2>4, <2>5, <2>6 DEF q
<1>4. message \in Bytestring /\ AppendBigEndianEscaped(begun, data) = stream \o message
  BY <1>0, <1>1, WrittenAfter, ZenonT(60)
<1>5. stream \o message \in Bytestring
  BY <1>0, <1>4, ConcatProperties DEF Bytestring
<1>6. LeftOf(kind) \in Nat \ {0}
  BY FrameOutputAssumption DEF LeftOf
<1>7. ~r.escaped /\ Len(data) <= r.left
  BY <1>0, <1>3, <1>6
<1>8. Read(stream \o message) = ReadSoFar(r, data, Len(data))
  BY <1>0, <1>2, <1>3, <1>4, <1>7, BytesReadBack, ZenonT(60)
<1>9. SubSeq(data, 1, Len(data)) = data
  BY <1>0, SubSeqFull DEF Bytestring
<1>10. ReadSoFar(r, data, Len(data))
         = [messages |-> Append(Read(stream).messages, <<kind>> \o data), message |-> <<kind>> \o data,
            escaped |-> FALSE, left |-> 0, lost |-> FALSE]
  <2> HIDE DEF r
  <2>1. /\ r.messages = Read(stream).messages /\ r.message = <<kind>> /\ r.left = LeftOf(kind)
        /\ r.lost = FALSE /\ LeftOf(kind) - LeftOf(kind) = 0 /\ LeftOf(kind) > 0
    BY <1>3, <1>6
  <2> QED BY <1>0, <1>9, <2>1 DEF ReadSoFar
<1>11. BetweenMessages(Read(stream \o message))
  <2>1. <<kind>> \o data \in Bytestring
    BY <1>0, <1>1, ConcatProperties DEF Bytestring
  <2>2. Append(Read(stream).messages, <<kind>> \o data) \in Seq(Bytestring)
    BY <1>3, <2>1 DEF ClientReader
  <2> DEFINE after == [messages |-> Append(Read(stream).messages, <<kind>> \o data),
                       message |-> <<kind>> \o data, escaped |-> FALSE, left |-> 0, lost |-> FALSE]
  <2>3. BetweenMessages(after)
    BY <2>1, <2>2 DEF BetweenMessages, ClientReader
  <2>4. Read(stream \o message) = after
    BY <1>8, <1>10
  <2> HIDE DEF after, message
  <2> QED BY <2>3, <2>4
<1> HIDE DEF message, begun, r
<1>12. Read(stream \o message).messages = Append(Read(stream).messages, <<kind>> \o data)
  BY <1>8, <1>10
<1> QED BY <1>5, <1>11, <1>12 DEF message, HasRead

\* A byte takes two at most.
LEMMA WrittenLength ==
  ASSUME NEW out \in Bytestring, NEW bytes \in Bytestring
  PROVE  Len(AppendBigEndianEscaped(out, bytes)) \in 0..(Len(out) + 2 * Len(bytes))
<1> DEFINE L == Len(bytes)
<1>1. L \in Nat /\ Len(out) \in Nat /\ (\A n \in 1..L : bytes[n] \in MessageByte)
  BY DEF Bytestring
<1>2. PICK w : WrittenBy(w, out, bytes) /\ AppendBigEndianEscaped(out, bytes) = w[L]
  BY Written
<1> DEFINE P == {n \in 0..L : Len(w[n]) \in 0..(Len(out) + 2 * n)}
<1>3. 0 \in P
  BY <1>1, <1>2 DEF WrittenBy
<1>4. ASSUME NEW n \in 0..(L - 1), n \in P PROVE n + 1 \in P
  <2> DEFINE b == bytes[n + 1]
  <2>1. /\ n + 1 \in 0..L /\ n + 1 \in 1..L /\ (n + 1) - 1 = n /\ n \in 0..L /\ n \in Nat
        /\ Len(w[n]) \in 0..(Len(out) + 2 * n) /\ b \in MessageByte
    BY <1>1, <1>4
  <2>2. w[n + 1] = AppendEscaped(w[n], b) /\ w[n] \in Seq(MessageByte)
    BY <1>2, <2>1 DEF WrittenBy, Bytestring
  <2>3. Len(AppendEscaped(w[n], b)) \in {Len(w[n]) + 1, Len(w[n]) + 2}
    <3> HIDE DEF b
    <3>1. Len(Append(w[n], b)) = Len(w[n]) + 1
      BY <2>1, <2>2, AppendProperties
    <3>2. <<b, b>> \in Seq(MessageByte) /\ Len(<<b, b>>) = 2
      BY <2>1
    <3>3. Len(w[n] \o <<b, b>>) = Len(w[n]) + 2
      BY <2>2, <3>2, ConcatProperties
    <3> QED BY <3>1, <3>3 DEF AppendEscaped
  <2>4. Len(w[n + 1]) \in 0..(Len(out) + 2 * (n + 1))
    BY <1>1, <2>1, <2>2, <2>3
  <2> QED BY <2>1, <2>4
<1> HIDE DEF P
<1>5. \A n \in 0..L : n \in P
  BY <1>1, <1>3, <1>4, EveryPass
<1>6. L \in 0..L
  BY <1>1
<1> QED BY <1>2, <1>5, <1>6 DEF P

-----------------------------------------------------------------------------
(* The lines *)

Digit == {b \div 16 : b \in MessageByte} \cup {b % 16 : b \in MessageByte}
           \cup {AtSign, LessSign, Semicolon, NewLine}

LEMMA DigitsConcatenated ==
  \A s, t \in Seq(Digit) : s \o t \in Seq(Digit) /\ Len(s \o t) = Len(s) + Len(t)
BY ConcatProperties

LEMMA HexLength ==
  ASSUME NEW bytes \in Bytestring
  PROVE  Hex(bytes) \in Seq(Digit) /\ Len(Hex(bytes)) = 2 * Len(bytes)
<1>1. Len(bytes) \in Nat /\ \A n \in 1..Len(bytes) : bytes[n] \in MessageByte
  BY DEF Bytestring
<1>2. ASSUME NEW i \in 1..(2 * Len(bytes)) PROVE Hex(bytes)[i] \in Digit
  <2>1. CASE i % 2 = 1
    <3>1. (i + 1) \div 2 \in 1..Len(bytes)
      BY <1>1, <2>1
    <3> QED BY <1>1, <2>1, <3>1 DEF Hex, Digit
  <2>2. CASE i % 2 # 1
    <3>1. i \div 2 \in 1..Len(bytes)
      BY <1>1, <2>2
    <3> QED BY <1>1, <2>2, <3>1 DEF Hex, Digit
  <2> QED BY <2>1, <2>2
<1>3. Hex(bytes) \in [1..(2 * Len(bytes)) -> Digit]
  BY <1>2 DEF Hex
<1> QED BY <1>1, <1>3

\* The time and the payload of a frame, and its signal if there is one.
Payload == [1..ShortBytes -> Bytes] \cup [1..LongBytes -> Bytes]
Signal == {<<>>} \cup {<<b>> : b \in Bytes}
SentFrame == [index : SampleIndexes, payload : Payload, rssi : Signal]

FrameOf(time, payload, rssi) ==
  ModeSFrame(time, payload, IF rssi = <<>> THEN 0 ELSE rssi[1], rssi # <<>>)

LEMMA FrameTyped ==
  ASSUME NEW time \in Int, NEW payload \in Payload, NEW rssi \in Signal
  PROVE  /\ BigEndian(time, TimeBytes) \in Bytestring /\ Len(BigEndian(time, TimeBytes)) = TimeBytes
         /\ payload \in Bytestring /\ Len(payload) \in {ShortBytes, LongBytes}
         /\ (IF rssi = <<>> THEN <<0>> ELSE rssi) = <<IF rssi = <<>> THEN 0 ELSE rssi[1]>>
         /\ (IF rssi = <<>> THEN 0 ELSE rssi[1]) \in MessageByte
         /\ TimeBytes \in Nat /\ ShortBytes \in Nat /\ LongBytes \in Nat /\ ShortBytes < LongBytes
<1>1. TimeBytes \in Nat /\ ShortBytes \in Nat /\ LongBytes \in Nat /\ ShortBytes < LongBytes
  BY FrameOutputAssumption
<1>2. BigEndian(time, TimeBytes) \in [1..TimeBytes -> MessageByte]
  <2>1. ASSUME NEW i \in 1..TimeBytes PROVE BigEndian(time, TimeBytes)[i] \in MessageByte
    <3>1. \E t \in Int, j \in 1..TimeBytes : BigEndian(time, TimeBytes)[i] = TimeByte(t, j)
      BY Zenon DEF TimeByte
    <3> QED BY <3>1 DEF MessageByte
  <2>2. DOMAIN BigEndian(time, TimeBytes) = 1..TimeBytes
    BY DEF BigEndian
  <2>3. BigEndian(time, TimeBytes) = [i \in 1..TimeBytes |-> BigEndian(time, TimeBytes)[i]]
    BY DEF BigEndian
  <2> QED BY <2>1, <2>3
<1>3. Bytes \subseteq MessageByte /\ 0 \in MessageByte
  BY FrameOutputAssumption, SmallBytes, Marks
<1>4. payload \in Bytestring /\ Len(payload) \in {ShortBytes, LongBytes}
  <2>1. ASSUME NEW n \in Nat, payload \in [1..n -> Bytes] PROVE payload \in Bytestring /\ Len(payload) = n
    BY <1>3, <2>1 DEF Bytestring
  <2> QED BY <1>1, <2>1 DEF Payload
<1>5. /\ (IF rssi = <<>> THEN <<0>> ELSE rssi) = <<IF rssi = <<>> THEN 0 ELSE rssi[1]>>
      /\ (IF rssi = <<>> THEN 0 ELSE rssi[1]) \in MessageByte
  <2>1. CASE rssi = <<>>
    BY <1>3, <2>1
  <2>2. CASE rssi # <<>>
    <3>1. PICK b \in Bytes : rssi = <<b>>
      BY <2>2 DEF Signal
    <3> QED BY <1>3, <2>2, <3>1
  <2> QED BY <2>1, <2>2
<1>6. BigEndian(time, TimeBytes) \in Bytestring /\ Len(BigEndian(time, TimeBytes)) = TimeBytes
  <2> DEFINE s == BigEndian(time, TimeBytes)
  <2>1. s \in [1..TimeBytes -> MessageByte]
    BY <1>2
  <2> HIDE DEF s
  <2>2. s \in Bytestring /\ Len(s) = TimeBytes
    BY <1>1, <2>1 DEF Bytestring
  <2> QED BY <2>2 DEF s
<1> QED BY <1>1, <1>4, <1>5, <1>6

\* A message is the kind, the time, the signal and the payload.
LEMMA BeastMessage ==
  ASSUME NEW time \in Int, NEW payload \in Payload, NEW rssi \in Signal
  PROVE  LET data == BigEndian(time, TimeBytes) \o <<IF rssi = <<>> THEN 0 ELSE rssi[1]>> \o payload
         IN  /\ data \in Bytestring /\ Len(data) = LeftOf(Kind(payload))
             /\ Kind(payload) \in {50, 51}
             /\ EncodeBeast(FrameOf(time, payload, rssi))
                  = AppendBigEndianEscaped(<<Escape, Kind(payload)>>, data)
             /\ <<Kind(payload)>> \o data
                  = <<Kind(payload)>> \o BigEndian(time, TimeBytes)
                    \o (IF rssi = <<>> THEN <<0>> ELSE rssi) \o payload
<1> DEFINE ticks == BigEndian(time, TimeBytes)
           level == IF rssi = <<>> THEN 0 ELSE rssi[1]
           kind == Kind(payload)
<1>1. /\ ticks \in Bytestring /\ Len(ticks) = TimeBytes
      /\ payload \in Bytestring /\ Len(payload) \in {ShortBytes, LongBytes}
      /\ (IF rssi = <<>> THEN <<0>> ELSE rssi) = <<level>>
      /\ level \in MessageByte
      /\ TimeBytes \in Nat /\ ShortBytes \in Nat /\ LongBytes \in Nat /\ ShortBytes < LongBytes
  BY FrameTyped
<1>2. kind \in {50, 51} /\ LeftOf(kind) = TimeBytes + 1 + Len(payload)
  BY <1>1 DEF Kind, IsLong, LeftOf
<1>3. EncodeBeast(FrameOf(time, payload, rssi))
        = AppendBigEndianEscaped(<<Escape, kind>>, ticks \o <<level>> \o payload)
  BY DEF EncodeBeast, FrameOf, ModeSFrame
<1> HIDE DEF ticks, level, kind
<1>4. <<level>> \in Bytestring /\ Len(<<level>>) = 1 /\ <<kind>> \in Bytestring
  <2>1. kind \in MessageByte
    BY <1>2, Marks
  <2> QED BY <1>1, <2>1 DEF Bytestring
<1>5. ticks \o <<level>> \in Bytestring /\ Len(ticks \o <<level>>) = TimeBytes + 1
  BY <1>1, <1>4, ConcatProperties DEF Bytestring
<1>6. /\ ticks \o <<level>> \o payload \in Bytestring
      /\ Len(ticks \o <<level>> \o payload) = TimeBytes + 1 + Len(payload)
  BY <1>1, <1>5, BytesConcatenated
<1>7. <<kind>> \o (ticks \o <<level>> \o payload) = <<kind>> \o ticks \o <<level>> \o payload
  <2>1. <<kind>> \o ((ticks \o <<level>>) \o payload) = (<<kind>> \o (ticks \o <<level>>)) \o payload
    BY <1>1, <1>4, <1>5, BytesAssociative, ZenonT(60)
  <2>2. <<kind>> \o (ticks \o <<level>>) = (<<kind>> \o ticks) \o <<level>>
    BY <1>1, <1>4, BytesAssociative
  <2> QED BY <2>1, <2>2
<1> QED BY <1>1, <1>2, <1>3, <1>6, <1>7 DEF ticks, level, kind

\* It fits its buffer, and so does the line.
LEMMA FrameFits ==
  ASSUME NEW time \in Int, NEW payload \in Payload, NEW rssi \in Signal
  PROVE  LET frame == FrameOf(time, payload, rssi)
         IN  /\ {Len(EncodeBeast(frame)), Len(EncodeAvr(frame))} \subseteq 0..EncodedSize
             /\ Len(EncodeAvr(frame)) <= BufferSize
<1> DEFINE ticks == BigEndian(time, TimeBytes)
           level == IF rssi = <<>> THEN 0 ELSE rssi[1]
           frame == FrameOf(time, payload, rssi)
           room == 2 * (TimeBytes + 1 + LongBytes) + 3
<1>1. /\ ticks \in Bytestring /\ Len(ticks) = TimeBytes
      /\ payload \in Bytestring /\ Len(payload) \in {ShortBytes, LongBytes}
      /\ level \in MessageByte
      /\ TimeBytes \in Nat /\ ShortBytes \in Nat /\ LongBytes \in Nat /\ ShortBytes < LongBytes
  BY FrameTyped
<1>2. EncodedSize \in Nat /\ BufferSize \in Nat /\ room <= EncodedSize /\ room <= BufferSize
  BY FrameOutputAssumption, RoomAssumption
<1>3. Len(EncodeBeast(frame)) \in 0..EncodedSize
  <2> DEFINE data == ticks \o <<level>> \o payload
             kind == Kind(payload)
  <2>1. /\ data \in Bytestring /\ Len(data) = LeftOf(kind) /\ kind \in {50, 51}
        /\ EncodeBeast(frame) = AppendBigEndianEscaped(<<Escape, kind>>, data)
    BY BeastMessage, ZenonT(60)
  <2>2. <<Escape, kind>> \in Bytestring /\ Len(<<Escape, kind>>) = 2
    BY <2>1, Marks DEF Bytestring
  <2> HIDE DEF data, kind, frame
  <2>3. Len(EncodeBeast(frame)) \in 0..(2 + 2 * LeftOf(kind))
    BY <2>1, <2>2, WrittenLength
  <2>4. 2 + 2 * LeftOf(kind) <= room /\ LeftOf(kind) \in Nat
    BY <1>1, <2>1 DEF LeftOf
  <2> QED BY <1>1, <1>2, <2>3, <2>4
<1>4. Len(EncodeAvr(frame)) \in 0..room
  <2> DEFINE first == <<IF frame.signalAvailable THEN LessSign ELSE AtSign>>
             middle == IF frame.signalAvailable THEN Hex(<<frame.signalLevel>>) ELSE <<>>
             last == <<Semicolon, NewLine>>
  <2>1. frame.mlatTimestamp = ticks /\ frame.payload = payload /\ frame.signalLevel = level
    BY DEF FrameOf, ModeSFrame
  <2>2. first \in Seq(Digit) /\ Len(first) = 1 /\ last \in Seq(Digit) /\ Len(last) = 2
    BY DEF Digit
  <2>3. middle \in Seq(Digit) /\ Len(middle) \in 0..2
    <3>1. <<level>> \in Bytestring /\ Len(<<level>>) = 1
      BY <1>1 DEF Bytestring
    <3> HIDE DEF level
    <3>2. Hex(<<level>>) \in Seq(Digit) /\ Len(Hex(<<level>>)) = 2 * Len(<<level>>)
      BY <3>1, HexLength
    <3>3. 2 * Len(<<level>>) = 2
      BY <3>1
    <3> QED BY <2>1, <3>2, <3>3
  <2>4. /\ Hex(ticks) \in Seq(Digit) /\ Len(Hex(ticks)) = 2 * TimeBytes
        /\ Hex(payload) \in Seq(Digit) /\ Len(Hex(payload)) = 2 * Len(payload)
    BY <1>1, HexLength
  <2>5. EncodeAvr(frame) = first \o Hex(ticks) \o middle \o Hex(payload) \o last
    BY <2>1 DEF EncodeAvr
  <2> HIDE DEF first, middle, last, ticks, frame
  <2>6. /\ first \o Hex(ticks) \in Seq(Digit)
        /\ Len(first \o Hex(ticks)) = 1 + 2 * TimeBytes
    BY <2>2, <2>4, DigitsConcatenated
  <2>7. /\ first \o Hex(ticks) \o middle \in Seq(Digit)
        /\ Len(first \o Hex(ticks) \o middle) = 1 + 2 * TimeBytes + Len(middle)
    BY <2>3, <2>6, DigitsConcatenated
  <2>8. /\ first \o Hex(ticks) \o middle \o Hex(payload) \in Seq(Digit)
        /\ Len(first \o Hex(ticks) \o middle \o Hex(payload)) = 1 + 2 * TimeBytes + Len(middle) + 2 * Len(payload)
    BY <2>4, <2>7, DigitsConcatenated
  <2>9. Len(EncodeAvr(frame)) = 1 + 2 * TimeBytes + Len(middle) + 2 * Len(payload) + 2
    BY <2>2, <2>5, <2>8, DigitsConcatenated
  <2>10. PICK m \in 0..2, p \in Nat : m = Len(middle) /\ p = Len(payload) /\ p <= LongBytes
    BY <1>1, <2>3
  <2>11. 1 + 2 * TimeBytes + m + 2 * p + 2 \in 0..room
    BY <1>1, <2>10
  <2> HIDE DEF room
  <2> QED BY <2>9, <2>10, <2>11
<1> HIDE DEF frame
<1>5. Len(EncodeAvr(frame)) \in 0..EncodedSize /\ Len(EncodeAvr(frame)) <= BufferSize
  BY <1>1, <1>2, <1>4
<1> QED BY <1>3, <1>5 DEF frame

\* The line of the server is the line of the standard output.
LEMMA SameLine ==
  ASSUME NEW time \in Int, NEW payload \in Payload
  PROVE  /\ EncodeAvr(FrameOf(time, payload, <<>>)) = WriteMLAT(time, payload)
         /\ \A b \in Bytes :
              EncodeAvr(FrameOf(time, payload, <<b>>)) = WriteMLATRSSI(time, payload, b)
<1>1. EncodeAvr(FrameOf(time, payload, <<>>)) = WriteMLAT(time, payload)
  <2> DEFINE first == <<AtSign>> \o Hex(BigEndian(time, TimeBytes))
  <2>1. EncodeAvr(FrameOf(time, payload, <<>>))
          = first \o <<>> \o Hex(payload) \o <<Semicolon, NewLine>>
    BY DEF EncodeAvr, FrameOf, ModeSFrame
  <2>2. WriteMLAT(time, payload) = first \o Hex(payload) \o <<Semicolon, NewLine>>
    BY DEF WriteMLAT
  <2>3. first \in Seq(Digit)
    <3>1. BigEndian(time, TimeBytes) \in Bytestring
      <4>1. <<>> \in Signal
        BY DEF Signal
      <4> QED BY <4>1, FrameTyped
    <3>2. <<AtSign>> \in Seq(Digit) /\ Hex(BigEndian(time, TimeBytes)) \in Seq(Digit)
      BY <3>1, HexLength DEF Digit
    <3> QED BY <3>2, ConcatProperties
  <2> HIDE DEF first
  <2>4. first \o <<>> = first
    BY <2>3, ConcatEmptySeq
  <2> QED BY <2>1, <2>2, <2>4
<1>2. ASSUME NEW b \in Bytes
      PROVE  EncodeAvr(FrameOf(time, payload, <<b>>)) = WriteMLATRSSI(time, payload, b)
  <2>1. <<b>> # <<>> /\ <<b>>[1] = b
    OBVIOUS
  <2>2. FrameOf(time, payload, <<b>>) = ModeSFrame(time, payload, b, TRUE)
    BY <2>1 DEF FrameOf
  <2> DEFINE frame == ModeSFrame(time, payload, b, TRUE)
  <2>3. /\ frame.signalAvailable = TRUE /\ frame.mlatTimestamp = BigEndian(time, TimeBytes)
        /\ frame.signalLevel = b /\ frame.payload = payload
    BY DEF ModeSFrame
  <2> HIDE DEF frame
  <2>4. EncodeAvr(frame) = WriteMLATRSSI(time, payload, b)
    BY <2>3 DEF EncodeAvr, WriteMLATRSSI
  <2> QED BY <2>2, <2>4 DEF frame
<1> QED BY <1>1, <1>2

\* The time is not more than two ticks before that of the sample.
LEMMA TicksInTime ==
  ASSUME NEW n \in Nat \ {0}, NEW index \in Nat
  PROVE  /\ SampleIndexToMlatTime(n, index) \in Nat
         /\ index * 12 - SampleIndexToMlatTime(n, index) * n \in 0..(2 * n - 1)
<1>1. CASE n \in {8, 16, 6, 12, 24, 48, 10, 20, 40}
  BY <1>1 DEF SampleIndexToMlatTime
<1>2. CASE n \notin {8, 16, 6, 12, 24, 48, 10, 20, 40}
  <2> DEFINE t == (index * 12) \div n
             rest == (index * 12) % n
  <2>1. SampleIndexToMlatTime(n, index) = t
    BY <1>2 DEF SampleIndexToMlatTime
  <2>2. t \in Int /\ rest \in 0..(n - 1) /\ index * 12 = n * t + rest
    <3>1. index * 12 \in Int
      OBVIOUS
    <3> QED BY <3>1, DivMod
  <2>3. t \in Nat
    <3>1. index * 12 \in Nat
      OBVIOUS
    <3> QED BY <3>1
  <2> HIDE DEF t, rest
  <2>4. index * 12 - t * n = rest
    BY <2>2
  <2>5. rest \in 0..(2 * n - 1)
    BY <2>2
  <2> QED BY <2>1, <2>3, <2>4, <2>5
<1> QED BY <1>1, <1>2

-----------------------------------------------------------------------------
(* The handlers *)

SpecOutput == InitOutput /\ [][NextOutput]_outputVars

\* What the client has read of a frame, by the number of streams.
MessageOf(n, f) ==
  <<Kind(f.payload)>> \o BigEndian(SampleIndexToMlatTime(n, f.index), TimeBytes)
  \o (IF f.rssi = <<>> THEN <<0>> ELSE f.rssi) \o f.payload

OutputInv ==
  /\ streams \in StreamCounts /\ handled \in Seq(SentFrame)
  /\ beastBytes \in Bytestring /\ BetweenMessages(Read(beastBytes))
  /\ Read(beastBytes).messages = [n \in DOMAIN handled |-> MessageOf(streams, handled[n])]
  /\ avrChars = stdoutChars

LEMMA OutputHandle ==
  ASSUME OutputInv, NEW index \in SampleIndexes, NEW payload \in Payload, NEW rssi \in Signal,
         NEW line, NEW time, time = SampleIndexToMlatTime(streams, index),
         line = EncodeAvr(FrameOf(time, payload, rssi)),
         Handle(index, payload, rssi, line, FrameOf(time, payload, rssi))
  PROVE  OutputInv'
<1> DEFINE f == [index |-> index, payload |-> payload, rssi |-> rssi]
           message == EncodeBeast(FrameOf(time, payload, rssi))
           data == BigEndian(time, TimeBytes) \o <<IF rssi = <<>> THEN 0 ELSE rssi[1]>> \o payload
           kind == Kind(payload)
<1>1. /\ streams' = streams /\ handled' = Append(handled, f)
      /\ beastBytes' = beastBytes \o message /\ avrChars' = avrChars \o line
      /\ stdoutChars' = stdoutChars \o line
  BY DEF Handle
<1>2. streams \in Nat \ {0} /\ index \in Nat /\ time \in Int
  <2>1. streams \in Nat \ {0} /\ index \in Nat
    BY FrameOutputAssumption DEF OutputInv
  <2> QED BY <2>1, TicksInTime
<1>3. f \in SentFrame /\ handled \in Seq(SentFrame) /\ handled' \in Seq(SentFrame)
  <2>1. f \in SentFrame /\ handled \in Seq(SentFrame)
    BY DEF SentFrame, OutputInv
  <2> QED BY <1>1, <2>1, AppendProperties
<1>4. /\ data \in Bytestring /\ Len(data) = LeftOf(kind) /\ kind \in {50, 51}
      /\ message = AppendBigEndianEscaped(<<Escape, kind>>, data)
      /\ <<kind>> \o data
           = <<kind>> \o BigEndian(time, TimeBytes) \o (IF rssi = <<>> THEN <<0>> ELSE rssi) \o payload
  BY <1>2, BeastMessage, ZenonT(60)
<1>5. MessageOf(streams, f) = <<kind>> \o data
  BY <1>4 DEF MessageOf
<1> HIDE DEF f, message, data, kind
<1>6. /\ beastBytes' \in Bytestring /\ BetweenMessages(Read(beastBytes'))
      /\ Read(beastBytes').messages = Append(Read(beastBytes).messages, <<kind>> \o data)
  <2>1. ReadyFor(beastBytes, kind, data)
    BY <1>4 DEF OutputInv, ReadyFor
  <2>2. HasRead(beastBytes, kind, data)
    BY <2>1, MessageReadBack
  <2> QED BY <1>1, <1>4, <2>2 DEF HasRead
<1>7. Append([n \in DOMAIN handled |-> MessageOf(streams, handled[n])], <<kind>> \o data)
        = [n \in DOMAIN Append(handled, f) |-> MessageOf(streams, Append(handled, f)[n])]
  <2> DEFINE more == Append(handled, f)
             new == [n \in DOMAIN more |-> MessageOf(streams, more[n])]
             old == [n \in DOMAIN handled |-> MessageOf(streams, handled[n])]
             T == {MessageOf(streams, handled[n]) : n \in DOMAIN handled} \cup {<<kind>> \o data}
             L == Len(handled)
  <2>1. /\ L \in Nat /\ DOMAIN handled = 1..L /\ DOMAIN more = 1..(L + 1)
        /\ \A n \in 1..L : more[n] = handled[n]
        /\ more[L + 1] = f
    BY <1>3, AppendProperties, LenProperties
  <2> HIDE DEF more, L
  <2>2. old \in Seq(T) /\ Len(old) = L /\ <<kind>> \o data \in T
    BY <2>1
  <2>3. ASSUME NEW n \in 1..L PROVE old[n] = MessageOf(streams, handled[n]) /\ n \in 1..(L + 1)
    BY <2>1
  <2>4. ASSUME NEW n \in 1..(L + 1) PROVE new[n] = MessageOf(streams, more[n])
    BY <2>1
  <2>5. DOMAIN new = 1..(L + 1) /\ new = [n \in 1..(L + 1) |-> new[n]]
    BY <2>1
  <2> HIDE DEF old, new, T
  <2>6. /\ Append(old, <<kind>> \o data) \in Seq(T) /\ Len(Append(old, <<kind>> \o data)) = L + 1
        /\ \A n \in 1..L : Append(old, <<kind>> \o data)[n] = old[n]
        /\ Append(old, <<kind>> \o data)[L + 1] = <<kind>> \o data
    BY <2>1, <2>2, AppendProperties
  <2>7. ASSUME NEW n \in 1..(L + 1) PROVE new[n] = Append(old, <<kind>> \o data)[n]
    <3>1. n \in 1..L \/ n = L + 1
      BY <2>1
    <3> QED BY <1>5, <2>1, <2>3, <2>4, <2>6, <3>1
  <2>8. Append(old, <<kind>> \o data) = [n \in 1..(L + 1) |-> Append(old, <<kind>> \o data)[n]]
    BY <2>1, <2>6
  <2>9. new = Append(old, <<kind>> \o data)
    BY <2>5, <2>7, <2>8
  <2> QED BY <2>9 DEF new, old, more
<1>8. streams' \in StreamCounts /\ avrChars' = stdoutChars'
  BY <1>1 DEF OutputInv
<1>9. Read(beastBytes').messages = [n \in DOMAIN handled' |-> MessageOf(streams', handled'[n])]
  BY <1>1, <1>6, <1>7 DEF OutputInv
<1> QED BY <1>3, <1>6, <1>8, <1>9 DEF OutputInv

LEMMA OutputNext == OutputInv /\ [NextOutput]_outputVars => OutputInv'
<1> SUFFICES ASSUME OutputInv, [NextOutput]_outputVars PROVE OutputInv'
  OBVIOUS
<1>1. CASE UNCHANGED outputVars
  BY <1>1 DEF OutputInv, outputVars
<1>2. CASE NextOutput
  <2>1. PICK index \in SampleIndexes, size \in {ShortBytes, LongBytes}, odd \in Bytes, even \in Bytes :
          LET payload == [i \in 1..size |-> IF i % 2 = 1 THEN odd ELSE even]
          IN  \/ ~withRssi /\ HandleWithout(index, payload)
              \/ withRssi /\ \E rssi \in Bytes : HandleWithRssi(index, payload, rssi)
    BY <1>2 DEF NextOutput
  <2> DEFINE payload == [i \in 1..size |-> IF i % 2 = 1 THEN odd ELSE even]
             time == SampleIndexToMlatTime(streams, index)
  <2>2. payload \in Payload
    BY DEF Payload
  <2>3. time \in Int
    <3>1. streams \in Nat \ {0} /\ index \in Nat
      BY FrameOutputAssumption DEF OutputInv
    <3> QED BY <3>1, TicksInTime
  <2>4. HandleWithout(index, payload) \/ \E rssi \in Bytes : HandleWithRssi(index, payload, rssi)
    BY <2>1
  <2> HIDE DEF payload
  <2>5. CASE HandleWithout(index, payload)
    <3>1. Handle(index, payload, <<>>, WriteMLAT(time, payload), ModeSFrame(time, payload, 0, FALSE))
      BY <2>5 DEF HandleWithout
    <3>2. <<>> \in Signal /\ FrameOf(time, payload, <<>>) = ModeSFrame(time, payload, 0, FALSE)
      BY DEF Signal, FrameOf
    <3>3. WriteMLAT(time, payload) = EncodeAvr(FrameOf(time, payload, <<>>))
      BY <2>2, <2>3, SameLine
    <3> QED BY <2>2, <3>1, <3>2, <3>3, OutputHandle
  <2>6. CASE \E rssi \in Bytes : HandleWithRssi(index, payload, rssi)
    <3>1. PICK b \in Bytes : HandleWithRssi(index, payload, b)
      BY <2>6
    <3>2. Handle(index, payload, <<b>>, WriteMLATRSSI(time, payload, b), ModeSFrame(time, payload, b, TRUE))
      BY <3>1 DEF HandleWithRssi
    <3>3. <<b>> \in Signal /\ FrameOf(time, payload, <<b>>) = ModeSFrame(time, payload, b, TRUE)
      BY DEF Signal, FrameOf
    <3>4. WriteMLATRSSI(time, payload, b) = EncodeAvr(FrameOf(time, payload, <<b>>))
      BY <2>2, <2>3, SameLine
    <3> QED BY <2>2, <3>2, <3>3, <3>4, OutputHandle
  <2> QED BY <2>4, <2>5, <2>6
<1> QED BY <1>1, <1>2

LEMMA OutputStart == InitOutput => OutputInv
<1> SUFFICES ASSUME InitOutput PROVE OutputInv
  OBVIOUS
<1>1. beastBytes = <<>> /\ handled = <<>> /\ streams \in StreamCounts /\ avrChars = stdoutChars
  BY DEF InitOutput
<1>2. BetweenMessages(AtStart) /\ AtStart.messages = <<>>
  BY AtStartTyped DEF BetweenMessages, AtStart
<1>3. <<>> \in Bytestring /\ <<>> \in Seq(SentFrame) /\ DOMAIN <<>> = {}
  BY DEF Bytestring
<1>4. <<>> = [n \in {} |-> MessageOf(streams, handled[n])]
  OBVIOUS
<1>5. [n \in DOMAIN handled |-> MessageOf(streams, handled[n])] = <<>>
  BY <1>1, <1>3, <1>4
<1> QED BY <1>1, <1>2, <1>3, <1>5, ReadNothing DEF OutputInv

LEMMA OutputReadBack == OutputInv => FramesReadBack
<1> SUFFICES ASSUME OutputInv PROVE FramesReadBack
  OBVIOUS
<1>1. streams \in Nat \ {0} /\ SampleIndexes \subseteq Nat
  BY FrameOutputAssumption DEF OutputInv
<1>2. ASSUME NEW n \in DOMAIN handled
      PROVE  LET f == handled[n]
                 frame == ModeSFrame(Ticks(f), f.payload, IF f.rssi = <<>> THEN 0 ELSE f.rssi[1], f.rssi # <<>>)
             IN  /\ {Len(EncodeBeast(frame)), Len(EncodeAvr(frame))} \subseteq 0..EncodedSize
                 /\ Len(EncodeAvr(frame)) <= BufferSize
                 /\ f.index * 12 - Ticks(f) * streams \in 0..(2 * streams - 1)
  <2> DEFINE f == handled[n]
  <2>1. f \in SentFrame
    BY DEF OutputInv
  <2> HIDE DEF f
  <2>2. f.index \in Nat /\ f.payload \in Payload /\ f.rssi \in Signal
    BY <1>1, <2>1 DEF SentFrame
  <2>3. Ticks(f) \in Int /\ f.index * 12 - Ticks(f) * streams \in 0..(2 * streams - 1)
    BY <1>1, <2>2, TicksInTime DEF Ticks
  <2>4. /\ {Len(EncodeBeast(FrameOf(Ticks(f), f.payload, f.rssi))), Len(EncodeAvr(FrameOf(Ticks(f), f.payload, f.rssi)))}
              \subseteq 0..EncodedSize
        /\ Len(EncodeAvr(FrameOf(Ticks(f), f.payload, f.rssi))) <= BufferSize
    BY <2>2, <2>3, FrameFits
  <2> QED BY <2>3, <2>4 DEF FrameOf, f
<1>3. Read(beastBytes).messages
        = [n \in DOMAIN handled |->
             LET f == handled[n]
             IN  <<Kind(f.payload)>> \o BigEndian(Ticks(f), TimeBytes)
                 \o (IF f.rssi = <<>> THEN <<0>> ELSE f.rssi) \o f.payload]
  BY DEF OutputInv, MessageOf, Ticks
<1> QED BY <1>2, <1>3 DEF FramesReadBack, OutputInv, BetweenMessages

\* Whatever bytes the frames are made of and however many there are, a client
\* reads back every frame it was sent, every message and line fits its buffer,
\* and the times are right (ModeSFrameEncoder.hpp:22-67).
THEOREM OutputFramesReadBack == SpecOutput => []FramesReadBack
<1>1. InitOutput => OutputInv
  BY OutputStart
<1>2. OutputInv /\ [NextOutput]_outputVars => OutputInv'
  BY OutputNext
<1>3. OutputInv => FramesReadBack
  BY OutputReadBack
<1> QED BY <1>1, <1>2, <1>3, PTL DEF SpecOutput
====
