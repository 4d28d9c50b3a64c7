\* The daemon's proportions, in units of 5 s.
SPECIFICATION Spec
CONSTANTS
  KeepAlive = 20
  PingTimeout = 12
  LoopTime = 1
  ReadTime = 1
  PauseTime = 2
  Rtt = 4
  MaxBurst = 1
  TickMod = 64

  
  
PROPERTY
  NoFalseAlarm
