CONSTANTS
  NumEvents = 3
  MaxPayload = 6
SPECIFICATION Spec
INVARIANTS OnlyStruckAreMissed HealthyStreamCompletes CancelMeansClosed
PROPERTY EveryStreamCloses
