CONSTANTS
  MaxWait = 6
  Budget = 10
  MaxAttempts = 4
  Second = 2
  MaxDuration = 127
  Payloads <- NestedPayloads
  Refusals <- ToldRefusals
  ParentCancels = TRUE
SPECIFICATION Spec
INVARIANTS AtMostOneOpen OutboundBounded TotalWaitBounded SleepsAsTold
PROPERTY ImplementsStreamHandle
