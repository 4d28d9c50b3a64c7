\* A broker that may refuse the auto-subscribe, on a network without faults.
SPECIFICATION Spec
CONSTANTS
  MaxPacketId = 3
  Window = 1
  MaxFaults = 0
  MaxPublish = 0
  LinkFaults = {}
  SubackCodes = {"granted", "refused"}
INVARIANT
  ConnectedMeansSubscribed
