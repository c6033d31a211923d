\* One request, a worker that writes up to four frames in any order.
SPECIFICATION FairBridgeSpec
CONSTANTS
  Readers = {engine}
  HttpReader = engine
  MaxFrames = 4
  Sizes = {1}
  Data = {"set_status", "set_headers", "body"}
  MaxPendingBytes = 2
INVARIANTS
  BridgeInv
  SuccessIsComplete
  OnlyFailureCutsStream
PROPERTIES
  WriterCloseEndsResponse
CHECK_DEADLOCK FALSE
