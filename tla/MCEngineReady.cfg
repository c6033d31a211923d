\* Two HTTP workers: the readiness of README.md is violated.
SPECIFICATION Spec
CONSTANTS
  MaxWorkers = 2
  MaxMessages = 4
  Functions = {f}
  Names = {n}
  Calls = {c1}
  ChatFn = f
  DefaultHttpFn = f
INVARIANTS
  ReadyWhenHttpWorkerConnected
CHECK_DEADLOCK FALSE
