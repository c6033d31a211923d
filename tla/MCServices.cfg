\* Each service on its own: two passwords and three rows for the vault, three
\* threads for the brain, three nodes and workers for the distributor, one
\* bucket more than there is room for, two overlapping refreshes and polls.
SPECIFICATION MCSpec
CONSTANTS
  Passwords = {right, other}
  Providers = {groq, openai}
  Secrets = {key}
  Empty = empty
  MaxRows = 3
  max_retries = 3
  MaxLines = 3
  Values = {given}
  Threads = {t1, t2, t3}
  na = na
  nb = nb
  nc = nc
  nd = nd
  wa = wa
  wb = wb
  wc = wc
  Stages <- MCStages
  Workers = {wa, wb, wc}
  Capable <- MCCapable
  retryCap = 1
  Keys = {alice, bob}
  capacity = 2
  windowMs = 3
  maxKeys = 1
  MaxNow = 3
  groq = groq
  together = together
  custom = custom
  Known <- MCKnown
  Unknown = {custom}
  Refreshes = {r1, r2}
  MaxProbes = 2
  Peers = {east, west}
  MaxPolls = 3
  MaxTimers = 2
  MaxIntents = 4
  RetryCap = 2
  Gated = {1, 2, 3}
  Broken = {3}
  numReviewers = 3
  consensusThreshold = 7
  ReviewScores <- MCReviewScores
INVARIANTS
  ServicesTypeOK
  WorkerKeysOpen
  ReadersAgree
  RetriesAreJustified
  StreamIsPrefix
  ModelIsLoadedOnce
  ResultsOnce
  GrantsAreBounded
  CallersShareProbe
  EventsFollowPeers
  OrchestrateInv
PROPERTIES
  KeyInUseMoves
  KnownTierIsKept
CHECK_DEADLOCK FALSE
