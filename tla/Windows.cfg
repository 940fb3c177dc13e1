SPECIFICATION FairSpec
CONSTANTS
  Controllers = {c1, c2}
  NoController = NoController
  Flags = {"CanBeSuspended", "NeedsStopOnShutdown"}
  MaxPolls = 2
INVARIANTS TypeOK OwnCompletion StatusTruth NothingLeftBehind
PROPERTIES LegalStatus ControllersReturn StartsAndStops
