\* Two requests at a time, of two tasks at most, against limits of 1 or 2, and a
\* restart, with the same or other settings, in the middle of them.
SPECIFICATION FairGatewaySpec
CONSTANTS
  groq = groq
  together = together
  paid = paid
  Requests = {r1, r2}
  Providers <- MCProviders
  Free <- MCFree
  Chains <- MCChains
  Limits <- MCLimits
  EngramPipeline = TRUE
  MaxTasks = 2
  MaxRestarts = 1
INVARIANTS
  GatewayInv
  RequestOvershootIsBounded
PROPERTIES
  ExhaustedStaysExhausted
  RequestsAreAnswered
