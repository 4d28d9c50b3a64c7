SPECIFICATION TimerSpec
CONSTANTS
  Timers = {t1, t2, t3}
  Head = Head
  Null = Null
  Modulus = 8
  Delays = {1, 3}
  Periods = {0, 2}
  Settings <- MCSettings
INVARIANTS
  ListSound
  WalkDefined
PROPERTIES
  NeverEarly
  Served
