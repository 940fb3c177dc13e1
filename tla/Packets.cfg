SPECIFICATION Spec
CONSTANTS
  Captures <- SomeCaptures
  MaxIdle = 2
  SnapLen = 160
  MinLen = 60
  Stray = {0, 255}
INVARIANTS
  DecodedAsSent
  ReportsFollowCapture
