\* A program that disconnects, connects again and starts over.
SPECIFICATION Spec
CONSTANTS
  MaxPacketId = 3
  Window = 2
  MaxFaults = 3
  MaxPublish = 1
  LinkFaults = {"lost", "fin", "notify", "rst"}
  SubackCodes = {"granted", "refused"}
INVARIANTS
  FollowsUser
PROPERTIES
  ImplementsContract
  ComesBack
