SPECIFICATION SafeSpec
CONSTANTS
  reader = reader
  sleeper = sleeper
  beast = beast
  Peer = {reader, sleeper, beast}
  Readers = {reader, beast}
  ProtocolOf <- MCProtocolOf
  FrameSize <- MCFrameSize
  MaxFrames = 2
  QueueRoom = 1
  ClientBufferLimit = 4
  CompactAt = 1
  MaxClients = 2
  SocketRoom = 1
INVARIANTS EachItsStream MemoryBounded
CHECK_DEADLOCK FALSE
