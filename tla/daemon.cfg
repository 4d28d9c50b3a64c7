\* The daemon against every fault of network and broker.
SPECIFICATION FairSpec
CONSTANTS
  MaxPacketId = 3
  Window = 2
  MaxFaults = 3
  MaxPublish = 1
  LinkFaults = {"lost", "fin", "notify", "rst"}
  SubackCodes = {"granted", "refused"}
INVARIANTS
  ConnectedMeansAnswered
  StateMatchesSocket
  NoSocketLeak
  SubackIsComing
  ProtocolOrder
PROPERTIES
  ImplementsContract
  Recovers
  LossNoticed
  Shutdown
