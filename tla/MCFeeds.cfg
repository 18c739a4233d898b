CONSTANTS
  Kinds = {"TRADE", "ACCOUNT_UPDATE", "listenKeyExpired"}
  RECONNECT_BACKOFF = 1
  RECONNECT_BACKOFF_CAP = 3
  MaxFrames = 2
  Readable = {0, 2}
  MaxDrops = 1
  Lines <- ThreeLines
  MaxFatal = 1
SPECIFICATION Spec
INVARIANTS
  FedInOrder
  DrainKeepsAccepted
CHECK_DEADLOCK FALSE
