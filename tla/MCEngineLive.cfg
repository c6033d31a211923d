\* Liveness of the engine's own calls: no symmetry, one call beside any
\* worker behaviour.
SPECIFICATION FairSpec
CONSTANTS
  MaxWorkers = 2
  MaxMessages = 4
  Functions = {f}
  Names = {n}
  Calls = {c1}
  ChatFn = f
  DefaultHttpFn = f
PROPERTIES
  EngineCallsSettle
CHECK_DEADLOCK FALSE
