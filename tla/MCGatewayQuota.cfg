\* A limit is exceeded by requests that were admitted before it: violated.
SPECIFICATION GatewaySpec
CONSTANTS
  groq = groq
  together = together
  paid = paid
  Requests = {r1, r2}
  Providers <- MCProviders
  Free <- MCFree
  Chains <- MCChains
  Limits <- MCLimits
  EngramPipeline = FALSE
  MaxTasks = 2
  MaxRestarts = 0
INVARIANTS
  LimitIsEnforced
