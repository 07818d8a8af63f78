SPECIFICATION FairSpec
CONSTANTS
  Peers <- MCPeers
  Sessions = {"server"}
  Clocks <- MCClocks
  Calls <- MCCalls
  SlotCalls <- MCSlotCalls
  DataKinds = {"data", "big"}
  MaxData = 1
  MaxPings = 1
  PartialWrites = FALSE
CHECK_DEADLOCK FALSE
INVARIANTS
  TypeOK CloseIsLast OneReporter CleanShutdown PingIsOwned
PROPERTIES HandshakeCompletes CloseReported PeerGoneNoticed
