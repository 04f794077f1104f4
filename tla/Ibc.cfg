SPECIFICATION IbcSpec
CONSTANTS
  east = east
  west = west
  Chains = {east, west}
  Senders = {east}
  Openings <- MCOpenings
  MaxChannels <- MCMaxChannels
  MaxSequence = 3
  MaxSends = 3
  MaxHeight = 1
  MaxTime = 1
  TimeoutBlocks = 1
  TimeoutSeconds = 1
INVARIANTS
  SettledOnce
  DeliveredOnce
  OrderedInOrder
