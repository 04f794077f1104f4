SPECIFICATION FairSpec
CONSTANTS
  p1 = p1
  p2 = p2
  Bootstraps <- MCBootstraps
  Peers = {p1, p2}
  BadAddr = BadAddr
  Junk = Junk
  Idle = Idle
  MaxPeers = 2
  Capacity = 1
  MaxTransmitBytes = 4
  Outgoing <- MCOutgoing
  Gossip <- MCGossip
  ConnIds = {1}
INVARIANTS
  PeersAreConnected
PROPERTIES
  SwarmKeepsPumping
CHECK_DEADLOCK FALSE
