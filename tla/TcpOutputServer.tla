-------------------------- MODULE TcpOutputServer --------------------------
(***************************************************************************)
(* The network output (src/src/TcpOutputServer.cpp): the decoding thread    *)
(* publishes frames into a bounded queue, one worker thread accepts the     *)
(* clients, encodes each frame for each of them, sends without blocking and *)
(* drops a client that falls behind; stop() ends the worker.                *)
(*                                                                          *)
(* The worker alone touches its clients, so what it does between two        *)
(* accesses to the queue, to isRunning or to the kernel is one step.  The   *)
(* queue is atomic here; SpscFrameQueue shows that it is.  A byte of a      *)
(* stream is a pair of the frame it belongs to and its place therein.       *)
(***************************************************************************)
EXTENDS Integers, Sequences, FiniteSets

CONSTANTS Peer,              \* the programs that may connect, each once
          ProtocolOf,        \* the port a peer connects to
          Readers,           \* the peers that read what they are sent
          FrameSize,         \* bytes of an encoded frame, by protocol
          MaxFrames,         \* bound: frames the decoder offers
          QueueRoom,         \* slots of the frame queue
          ClientBufferLimit, \* config.clientBufferLimit
          CompactAt,         \* 4096: a longer sent prefix is erased
          MaxClients,        \* config.maxClients
          SocketRoom         \* bytes a socket takes before it would block

Protocol == {"Avr", "Beast"}

ASSUME ServerAssumption ==
  /\ ProtocolOf \in [Peer -> Protocol] /\ Readers \subseteq Peer
  /\ FrameSize \in [Protocol -> Nat \ {0}]
  /\ MaxFrames \in Nat /\ QueueRoom \in Nat \ {0}
  /\ ClientBufferLimit \in Nat /\ CompactAt \in Nat
  /\ MaxClients \in Nat /\ SocketRoom \in Nat \ {0}

VARIABLES
  offered,    \* decoder: frames given to tryPublish so far
  queue,      \* frames: accepted, not yet popped
  dropped,    \* counter of the frames tryPublish refused
  isRunning,
  mpc,        \* the thread that calls stop()
  wpc,        \* where the worker is in its loop
  clients,    \* worker: its clients, in the order of their acceptance
  readable,   \* worker: the protocols whose listener poll reported
  hungUp,     \* worker: the peers whose end poll reported
  turn,       \* worker: the client to flush next
  peerState,  \* "new", "waiting", "connected", "refused" or "left"
  wire,       \* history: all bytes sent to a peer
  unread,     \* bytes of it that are still in the socket
  popped,     \* history: the frames the worker took from the queue
  since       \* history: how many it had taken when it accepted a peer

decoderVars == <<offered, dropped>>
stopVars == <<isRunning, mpc>>
pollVars == <<readable, hungUp>>
kernelVars == <<peerState, wire, unread>>
vars == <<decoderVars, queue, stopVars, wpc, clients, pollVars, turn,
          kernelVars, popped, since>>

Init ==
  /\ offered = 0 /\ queue = <<>> /\ dropped = 0
  /\ isRunning = TRUE /\ mpc = "publishing"
  /\ wpc = "head" /\ clients = <<>> /\ readable = {} /\ hungUp = {} /\ turn = 1
  /\ peerState = [p \in Peer |-> "new"]
  /\ wire = [p \in Peer |-> <<>>] /\ unread = [p \in Peer |-> 0]
  /\ popped = <<>> /\ since = [p \in Peer |-> 0]

Encode(f, protocol) == [k \in 1..FrameSize[protocol] |-> <<f, k>>]

Smaller(a, b) == IF a <= b THEN a ELSE b
IndexSet(s) == 1..Len(s)
From(s, k) == SubSeq(s, k, Len(s))

\* The numbers of S in ascending order.
Ascending(S) ==
  {s \in [1..Cardinality(S) -> S] :
     \A i, j \in 1..Cardinality(S) : i < j => s[i] < s[j]}
Unsent(client) == Len(client.pending) - client.offset

-----------------------------------------------------------------------------
(* The decoding thread *)

Publish ==
  /\ mpc = "publishing" /\ isRunning /\ offered < MaxFrames
  /\ offered' = offered + 1
  /\ IF Len(queue) < QueueRoom
       THEN queue' = Append(queue, offered') /\ UNCHANGED dropped
       ELSE dropped' = dropped + 1 /\ UNCHANGED queue
  /\ UNCHANGED <<stopVars, wpc, clients, pollVars, turn, kernelVars,
                 popped, since>>

notStop == <<decoderVars, queue, wpc, clients, pollVars, turn, kernelVars,
             popped, since>>

\* The byte stop() writes to the control pipe only ends the worker's poll,
\* which ends by itself after 10 ms, and is left out.
Stop ==
  /\ mpc = "publishing"
  /\ isRunning' = FALSE
  /\ mpc' = "join"
  /\ UNCHANGED notStop

StopJoins ==
  /\ mpc = "join" /\ wpc = "ended"
  /\ mpc' = "stopped"
  /\ UNCHANGED <<isRunning, notStop>>

-----------------------------------------------------------------------------
(* The worker: one turn of run() *)

notWorker == <<decoderVars, stopVars>>

\* Mutant: the loop does not look at isRunning.
TurnForever ==
  /\ wpc = "head"
  /\ wpc' = "poll"
  /\ UNCHANGED <<notWorker, queue, clients, pollVars, turn, kernelVars,
                 popped, since>>

Turn ==
  /\ wpc = "head"
  /\ wpc' = IF isRunning THEN "poll" ELSE "closeSockets"
  /\ UNCHANGED <<notWorker, queue, clients, pollVars, turn, kernelVars,
                 popped, since>>

WaitingFor(protocol) ==
  {p \in Peer : ProtocolOf[p] = protocol /\ peerState[p] = "waiting"}

\* poll reports the state of this moment; when it fails it reports nothing.
Poll ==
  /\ wpc = "poll"
  /\ \/ /\ readable' = {q \in Protocol : WaitingFor(q) # {}}
        /\ hungUp' = {p \in Peer : peerState[p] = "left"}
     \/ readable' = {} /\ hungUp' = {}
  /\ wpc' = "accept"
  /\ UNCHANGED <<notWorker, queue, clients, turn, kernelVars, popped,
                 since>>

\* acceptClients: the AVR listener first, each until nobody waits.  (An AVR
\* peer that comes while Beast peers are accepted need not wait a turn here.)
NextToAccept ==
  IF "Avr" \in readable /\ WaitingFor("Avr") # {} THEN WaitingFor("Avr")
  ELSE IF "Beast" \in readable THEN WaitingFor("Beast") ELSE {}

AcceptClient(p) ==
  /\ wpc = "accept" /\ p \in NextToAccept
  /\ Len(clients) < MaxClients
  /\ clients' = Append(clients, [peer |-> p, open |-> TRUE,
                                 pending |-> <<>>, offset |-> 0])
  /\ peerState' = [peerState EXCEPT ![p] = "connected"]
  /\ since' = [since EXCEPT ![p] = Len(popped)]
  /\ UNCHANGED <<notWorker, queue, wpc, pollVars, turn, wire, unread,
                 popped>>

RefuseClient(p) ==
  /\ wpc = "accept" /\ p \in NextToAccept
  /\ Len(clients) >= MaxClients
  /\ peerState' = [peerState EXCEPT ![p] = "refused"]
  /\ UNCHANGED <<notWorker, queue, wpc, clients, pollVars, turn, wire,
                 unread, popped, since>>

\* What the clients poll knew of sent, and who of them hung up.
ServeInput ==
  /\ wpc = "accept" /\ NextToAccept = {}
  /\ clients' = [i \in IndexSet(clients) |->
                   [clients[i] EXCEPT !.open = @ /\ clients[i].peer \notin hungUp]]
  /\ readable' = {} /\ hungUp' = {}
  /\ wpc' = "distribute"
  /\ UNCHANGED <<notWorker, queue, turn, kernelVars, popped, since>>

\* Mutant: sent bytes stay in the buffer.
CompactedNever(client) == client

\* appendFrame.
Compacted(client) ==
  IF client.offset # 0
       /\ (client.offset = Len(client.pending) \/ client.offset > CompactAt)
    THEN [client EXCEPT !.pending = From(@, client.offset + 1), !.offset = 0]
    ELSE client

\* Mutant: a client that still has bytes to be sent misses the frame.
WithFrameWhenIdle(client, f) ==
  IF client.open /\ Unsent(client) = 0
    THEN [Compacted(client) EXCEPT !.pending = @ \o Encode(f, ProtocolOf[client.peer])]
    ELSE client

WithFrame(client, f) ==
  LET encoded == Encode(f, ProtocolOf[client.peer])
  IN  IF ~client.open THEN client
      ELSE IF Unsent(client) + Len(encoded) > ClientBufferLimit
             THEN [client EXCEPT !.open = FALSE]
             ELSE [Compacted(client) EXCEPT !.pending = @ \o encoded]

DistributeFrame ==
  /\ wpc = "distribute" /\ queue # <<>>
  /\ queue' = Tail(queue)
  /\ popped' = Append(popped, Head(queue))
  /\ clients' = [i \in IndexSet(clients) |-> WithFrame(clients[i], Head(queue))]
  /\ UNCHANGED <<notWorker, wpc, pollVars, turn, kernelVars, since>>

DistributeDone ==
  /\ wpc = "distribute" /\ queue = <<>>
  /\ wpc' = "flush"
  /\ UNCHANGED <<notWorker, queue, clients, pollVars, turn, kernelVars,
                 popped, since>>

\* flushClient: what the socket takes, n bytes of it, is sent; an emptied
\* buffer is cleared.
Sent(client, n) ==
  IF client.offset + n = Len(client.pending)
    THEN [client EXCEPT !.pending = <<>>, !.offset = 0]
    ELSE [client EXCEPT !.offset = @ + n]

SocketTakes(client) ==
  IF client.open THEN Smaller(Unsent(client), SocketRoom - unread[client.peer])
  ELSE 0

Transmit(c, n) ==
  /\ wire' = [wire EXCEPT ![c.peer] =
                @ \o SubSeq(c.pending, c.offset + 1, c.offset + n)]
  /\ unread' = [unread EXCEPT ![c.peer] = @ + n]

FlushClient ==
  /\ wpc = "flush" /\ turn <= Len(clients)
  /\ LET c == clients[turn]
     IN  /\ clients' = [clients EXCEPT ![turn] = Sent(c, SocketTakes(c))]
         /\ Transmit(c, SocketTakes(c))
  /\ turn' = turn + 1
  /\ UNCHANGED <<notWorker, queue, wpc, pollVars, peerState, popped,
                 since>>

\* send fails because the peer has gone, maybe after it took a part.
FlushFails ==
  /\ wpc = "flush" /\ turn <= Len(clients)
  /\ LET c == clients[turn]
     IN  /\ peerState[c.peer] = "left" /\ c.open
         /\ \E n \in 0..SocketTakes(c) :
              /\ n < Unsent(c)
              /\ clients' = [clients EXCEPT
                              ![turn] = [c EXCEPT !.open = FALSE, !.offset = @ + n]]
              /\ Transmit(c, n)
  /\ turn' = turn + 1
  /\ UNCHANGED <<notWorker, queue, wpc, pollVars, peerState, popped,
                 since>>

\* Mutant: closed clients stay in the list.
RemoveNobody ==
  /\ wpc = "flush" /\ turn > Len(clients)
  /\ turn' = 1
  /\ wpc' = "head"
  /\ UNCHANGED <<notWorker, queue, clients, pollVars, kernelVars,
                 popped, since>>

RemoveClosedClients ==
  /\ wpc = "flush" /\ turn > Len(clients)
  /\ \E order \in Ascending({i \in IndexSet(clients) : clients[i].open}) :
       clients' = [i \in DOMAIN order |-> clients[order[i]]]
  /\ turn' = 1
  /\ wpc' = "head"
  /\ UNCHANGED <<notWorker, queue, pollVars, kernelVars, popped, since>>

\* cleanup().
CloseSockets ==
  /\ wpc = "closeSockets"
  /\ clients' = <<>>
  /\ wpc' = "ended"
  /\ UNCHANGED <<notWorker, queue, pollVars, turn, kernelVars, popped, since>>

Worker ==
  \/ Turn \/ Poll
  \/ \E p \in Peer : AcceptClient(p) \/ RefuseClient(p)
  \/ ServeInput \/ DistributeFrame \/ DistributeDone
  \/ FlushClient \/ FlushFails \/ RemoveClosedClients
  \/ CloseSockets

-----------------------------------------------------------------------------
(* The other ends of the sockets *)

notPeers == <<decoderVars, queue, stopVars, wpc, clients, pollVars,
              turn, wire, popped, since>>

Connect(p) ==
  /\ peerState[p] = "new"
  /\ peerState' = [peerState EXCEPT ![p] = "waiting"]
  /\ UNCHANGED <<unread, notPeers>>

PeerReads(p) ==
  /\ p \in Readers /\ unread[p] > 0
  /\ unread' = [unread EXCEPT ![p] = 0]
  /\ UNCHANGED <<peerState, notPeers>>

Leave(p) ==
  /\ peerState[p] = "connected"
  /\ peerState' = [peerState EXCEPT ![p] = "left"]
  /\ UNCHANGED <<unread, notPeers>>

-----------------------------------------------------------------------------
Next == \/ Publish \/ Stop \/ StopJoins \/ Worker
        \/ \E p \in Peer : Connect(p) \/ PeerReads(p) \/ Leave(p)

SafeSpec == Init /\ [][Next]_vars

\* The worker is scheduled, stop() once called runs, and the readers read;
\* nobody has to publish, to stop, to connect or to leave.
Fairness ==
  /\ WF_vars(Worker) /\ WF_vars(StopJoins)
  /\ \A p \in Readers : WF_vars(PeerReads(p))

Spec == SafeSpec /\ Fairness

-----------------------------------------------------------------------------
(* Correctness *)

Byte == (1..MaxFrames) \X Nat

TypeOK ==
  /\ offered \in 0..MaxFrames /\ dropped \in 0..MaxFrames
  /\ queue \in Seq(1..MaxFrames) /\ Len(queue) <= QueueRoom
  /\ isRunning \in BOOLEAN /\ mpc \in {"publishing", "join", "stopped"}
  /\ wpc \in {"head", "poll", "accept", "distribute", "flush", "closeSockets",
              "ended"}
  /\ \A i \in IndexSet(clients) :
       clients[i] \in [peer : Peer, open : BOOLEAN, pending : Seq(Byte),
                       offset : 0..Len(clients[i].pending)]
  /\ readable \subseteq Protocol /\ hungUp \subseteq Peer /\ turn \in Nat
  /\ peerState \in [Peer -> {"new", "waiting", "connected", "refused", "left"}]
  /\ wire \in [Peer -> Seq(Byte)] /\ unread \in [Peer -> 0..SocketRoom]
  /\ popped \in Seq(1..MaxFrames) /\ since \in [Peer -> 0..Len(popped)]

\* The whole stream of frames from the one after the first n on, encoded.
StreamFrom(n, protocol) ==
  LET size == FrameSize[protocol]
  IN  [k \in 1..(Len(popped) - n) * size |->
        <<popped[n + ((k - 1) \div size) + 1], ((k - 1) % size) + 1>>]

Starts(s, t) == Len(s) <= Len(t) /\ \A k \in 1..Len(s) : s[k] = t[k]

\* What a client is sent is, byte for byte, the frames the worker took from
\* the queue since it accepted the client: in order, none torn, repeated or
\* skipped by the partial sends and the compaction of its buffer; and what a
\* client that is still served was not yet sent lies ready in its buffer.
StreamIntact ==
  /\ \A p \in Peer : Starts(wire[p], StreamFrom(since[p], ProtocolOf[p]))
  /\ \A i \in IndexSet(clients) :
       LET c == clients[i]
       IN  c.open => wire[c.peer] \o From(c.pending, c.offset + 1)
                       = StreamFrom(since[c.peer], ProtocolOf[c.peer])

\* A slow client cannot grow memory without a fixed bound: not the bytes it
\* has to be sent, nor the sent ones its buffer still holds.
MemoryBounded ==
  \A i \in IndexSet(clients) :
    Unsent(clients[i]) <= ClientBufferLimit
      /\ Len(clients[i].pending) <= ClientBufferLimit + CompactAt

\* Every client the worker polls is one it still serves, no peer is served
\* twice and there are never more than the limit; that is what the matching
\* of poll results and clients by index relies on.
ClientsServed ==
  /\ Len(clients) <= MaxClients
  /\ wpc \in {"head", "poll"} => \A i \in IndexSet(clients) : clients[i].open
  /\ \A i, j \in IndexSet(clients) : clients[i].peer = clients[j].peer => i = j

\* However accepting, closing and partial sends change the list while the
\* worker goes through it by index, it holds exactly the clients that are
\* served and each of them gets its own stream (TcpOutputServer.cpp:168-345).
EachItsStream == StreamIntact /\ ClientsServed

Serves(p) == \E i \in IndexSet(clients) : clients[i].peer = p /\ clients[i].open

\* The bytes of every frame up to and with f that p is to receive are sent.
HasFrame(p, f) ==
  \E j \in 1..Len(popped) :
    popped[j] = f
      /\ Len(wire[p]) - unread[p] >= (j - since[p]) * FrameSize[ProtocolOf[p]]

\* A queued frame reaches every client that reads, however slow the others
\* are, unless that client is dropped or the server stopped first.
FrameReachesReaders ==
  \A p \in Readers, f \in 1..MaxFrames :
    Serves(p) /\ (\E i \in IndexSet(queue) : queue[i] = f)
      ~> HasFrame(p, f) \/ ~Serves(p) \/ ~isRunning

\* stop() returns, whatever the clients do.
StopReturns == ~isRunning ~> mpc = "stopped"

-----------------------------------------------------------------------------
(* What the documents say and the code does not do *)

\* README: shutdown performs a bounded drain, so what was published when
\* stop() is called is at least taken from the queue.
ShutdownDrains == wpc = "ended" => queue = <<>>
=============================================================================
