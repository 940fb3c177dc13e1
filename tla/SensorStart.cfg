SPECIFICATION Spec
CONSTANTS
  Hosts <- SomeHosts
  OddNames = {"odd"}
  Junk <- SomeJunk
  MaxChanges = 1
INVARIANTS
  TypeOK
  Announcement
  CapturesWithAddress
