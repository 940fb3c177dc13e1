SPECIFICATION FairSpec
CONSTANTS
  Controllers = {c1, c2}
  Peers = {p1}
  Addrs = {x1, x2}
  Backlog = 2
  Flags = {"CanBeSuspended"}
  Requests = {"terminate", "pause", "junk", "alive"}
  PeerWrites <- WholeLines
  NoClient = NoClient
  NoAddr = NoAddr
INVARIANTS TypeOK OwnAnswer CacheDrained
PROPERTIES KeepsPromise ControllersReturn
