\* The head is written a second time after an error: violated.
SPECIFICATION BridgeSpec
CONSTANTS
  Readers = {engine}
  HttpReader = engine
  MaxFrames = 4
  Sizes = {1}
  Data = {"set_status", "set_headers", "body"}
  MaxPendingBytes = 2
INVARIANTS
  HeadIsSentOnce
CHECK_DEADLOCK FALSE
