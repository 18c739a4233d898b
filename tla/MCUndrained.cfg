CONSTANTS
  Kinds = {"TRADE"}
  RECONNECT_BACKOFF = 1
  RECONNECT_BACKOFF_CAP = 3
  MaxFrames = 0
  Readable = {0}
  MaxDrops = 0
  Lines <- ThreeLines
  MaxFatal = 0
SPECIFICATION Spec
INVARIANT
  StopKeepsAccepted
CHECK_DEADLOCK FALSE
