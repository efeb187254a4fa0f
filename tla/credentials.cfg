CONSTANTS
  Refreshes = {r1, r2}
  Requests = {m1, m2}
  Profiles = {api2, bearer}
  Types = {team}
  Missing = missing
  MaxEdits = 1
SPECIFICATION Spec
INVARIANTS OneRefreshUpstream WaitersGetAnswer TokenLives FileKeepsOthersWork
PROPERTY AllReturn
