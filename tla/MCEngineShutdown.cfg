\* One call forwarded between two workers: shutdown does not wait for it.
SPECIFICATION Spec
CONSTANTS
  MaxWorkers = 2
  MaxMessages = 4
  Functions = {f}
  Names = {n}
  Calls = {c1}
  ChatFn = f
  DefaultHttpFn = f
PROPERTIES
  ShutdownWaitsForInFlight
CHECK_DEADLOCK FALSE
