\* Crashes and files that cannot be opened, with lookups that succeed; and
\* every fault.
SPECIFICATION Spec
CONSTANTS
  Regions = {AY, EU}
  Keys = {pro, pr_0}
  FirstRegion = AY
  DefaultKey = pro
  Blocks = {b1, b2}
  FaultSets = {{"open", "crash"}, {"open", "flush", "lookup", "decode", "crash"}}
INVARIANTS
  CertUsable
  NoCertLeak
  StoredIsSet
  
