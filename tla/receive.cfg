\* Packets of one to three length digits, and one with too many, on a buffer of two bytes; the three
\* timeouts are equal, as in the daemon.
SPECIFICATION Spec
CONSTANTS
  Base = 2
  MaxDigits = 3
  BufferSize = 2
  ValidTypes = {1, 2, 3}
  CONNACK = 2
  Packets <- MCPackets
  MaxPackets = 3
  ReadTime = 2
  BodyTime = 2
  ConnectTime = 2
  TickMod = 13
INVARIANTS
  FramesKept
  
