SPECIFICATION Spec
CONSTANTS
  Calls = {c1, c2, c3}
  Daemons = {d1, d2}
  Options = {"none", "version"}
  NoDaemon = NoDaemon
PROPERTIES
  RunningIsReported
