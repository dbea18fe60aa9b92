SPECIFICATION FairSpec
CONSTANTS
  N = 4
  Producers = {udp0, udp1}
  MaxIn = 8
INVARIANT TakesAWholePacket
INVARIANT LapNeedsRace
INVARIANT NoLossUnlessLapped
INVARIANT FirstOfBurstIntact
PROPERTY ChannelSpec
PROPERTY AcceptedIsTaken
