\* Callbacks that call the API while a message is given, with or without
\* withdrawing their own topic.
SPECIFICATION Spec
CONSTANTS
  Topics <- MCTopics
  Callbacks = {f, g}
  Policies = {{"register", "unregister"}, {"register", "unregister", "unregister own"}}
  MaxRegistrations = 4
INVARIANTS
  NoDuplicates
PROPERTIES
  WalkEnds
  KeepsContract
