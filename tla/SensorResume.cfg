SPECIFICATION FairSpec
CONSTANTS
  Adapters = {a1}
  NoAdapter = NoAdapter
PROPERTY ResumeRestartsCapture
