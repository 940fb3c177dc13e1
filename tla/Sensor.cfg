SPECIFICATION FairSpec
CONSTANTS
  Adapters = {a1, a2}
  NoAdapter = NoAdapter
INVARIANTS TypeOK LateBound AbortNeedsTwoExpiries
PROPERTIES StoppedForGood PauseHolds CaptureEnds
