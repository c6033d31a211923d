\* Two workers, two calls, every order of three registration messages.
SPECIFICATION Spec
CONSTANTS
  MaxWorkers = 2
  MaxMessages = 3
  Functions = {f}
  Names = {n}
  Calls = {c1, c2}
  ChatFn = f
  DefaultHttpFn = f
SYMMETRY CallSymmetry
INVARIANTS
  EngineInv
  SlaAgreesWithOutcomes
  HttpWorkerIsConnected
PROPERTIES
  ImplementsLedger
CHECK_DEADLOCK FALSE
