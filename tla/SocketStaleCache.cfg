SPECIFICATION Spec
CONSTANTS
  Controllers = {c1}
  Peers = {p1}
  Addrs = {x1, x2}
  Backlog = 2
  Flags = {"CanBeSuspended"}
  Requests = {"terminate", "pause", "junk", "alive"}
  PeerWrites <- Fragments
  NoClient = NoClient
  NoAddr = NoAddr
SYMMETRY Symmetry
INVARIANT StopIsServed
