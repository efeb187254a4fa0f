CONSTANTS
  Deltas <- SmallDeltas
  Indices = {0, 1}
  MaxBuf = 4
  MaxEvents = 5
SPECIFICATION Spec
INVARIANTS TextIntact CallsAreFinal EndsOnce AggregateFaithful
