CONSTANTS
  MaxWait = 3
  Budget = 6
  MaxAttempts = 3
  Second = 1
  MaxDuration = 127
  Refusals <- TwoRefusals
  ParentCancels = FALSE
  Modes = {"execute", "stream"}
SPECIFICATION Spec
INVARIANTS SingleSource EndIsTold OneUsage
PROPERTY EveryRequestEnds
