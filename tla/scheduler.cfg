CONSTANTS
  a1 = a1
  a2 = a2
  Pickers = {p1, p2}
  Accounts = {a1, a2}
  x = x
  Others = {x}
  CandidateSets <- MixedOrForeign
  Keys = {c1, c2}
  NoKey = none
  Priority <- PreferSecond
  StickyMax = 1
  QuotaTTL = 1
  CooldownDefault = 2
  RetryAfters = {0, 1}
  MaxClock = 2
  MaxPicks = 2
  MaxNotes = 2
SPECIFICATION Spec
INVARIANTS AnswersUsable DelegatesOnlyWithoutReady ConversationStays WeightsOrPriorities
SYMMETRY Alike
CHECK_DEADLOCK FALSE
