SPECIFICATION FairSpec
CONSTANTS
  Adapters = {a1}
  NoAdapter = NoAdapter
  Controllers = {c1, c2}
  Peers = {}
  Addrs = {x1, x2}
  Backlog = 2
  Flags = {"CanBeSuspended"}
  Requests = {"terminate", "pause", "resume"}
  PeerWrites = {}
  NoClient = NoClient
  NoAddr = NoAddr
INVARIANTS AnsweredMeansStopping AnsweredStopDetaches OrderlyExit
PROPERTIES StopEndsProcess ControllersReturn ChannelRefined
