\* The daemon's one context, and HTTP requests beside it.
SPECIFICATION Spec
CONSTANTS
  Contexts = {"mqtt", "http"}
  UserSets = {{"mqtt"}, {"mqtt", "http"}}
  MaxFd = 3
  StdFds = {0, 1}
  MaxAddrs = 2
  MaxFiles = 2
INVARIANTS
  LinkedOwnsSocket
  NoSocketLeak
 
