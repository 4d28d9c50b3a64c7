\* Messages that are complete, partial, or for another channel; the first
\* allocation may fail, or everything.
SPECIFICATION ParseSpec
CONSTANTS
  Blocks = {b1, b2, b3, b4}
  Null = Null
  MaxUser = 1
  FailureSets = {{"device"}, {"device", "json", "msgid", "data"}}
INVARIANTS
  MessageOwned
  NothingLeaked
PROPERTY UserKeepsItsBlocks
