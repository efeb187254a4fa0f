CONSTANTS
  Refreshes = {r1}
  Requests = {m1}
  Profiles = {api2, bearer}
  Types = {team}
  Missing = missing
  MaxEdits = 0
SPECIFICATION Spec
PROPERTY RotatedTokensStayDead
