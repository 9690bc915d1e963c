CONSTANTS
  client = client
  server = server
  Peers <- MCPeers
  MaxSequence = 6
  BufferEntries = 2
  FullEntries = 2
  PacketSize = 1
  First <- MCFirst
  Limit <- MCLimit
  InFlight = 1
SPECIFICATION LiveSpec
INVARIANTS TypeOK NothingForgotten NotLockedOut GapsNoticed
PROPERTIES ImplementsVitalChannel AllDelivered
CHECK_DEADLOCK FALSE
