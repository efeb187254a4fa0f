CONSTANTS
  MapKeys = {k1, k2, k3, k4}
  Values = {a, b}
  Cap = 3
SPECIFICATION MapSpec
INVARIANT Consistent
PROPERTY ImplementsRecencyMap

