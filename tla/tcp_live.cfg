SPECIFICATION Spec
CONSTANTS
  reader = reader
  sleeper = sleeper
  beast = beast
  Peer = {reader, sleeper}
  Readers = {reader}
  ProtocolOf <- MCProtocolOf
  FrameSize <- MCFrameSize
  MaxFrames = 3
  QueueRoom = 2
  ClientBufferLimit = 5
  CompactAt = 1
  MaxClients = 2
  SocketRoom = 1
PROPERTIES FrameReachesReaders StopReturns
CHECK_DEADLOCK FALSE
