SPECIFICATION Spec
CONSTANTS
  Calls = {c1, c2, c3}
  Daemons = {d1, d2}
  Options = {"none", "install", "uninstall", "version", "exec", "terminate", "command", "help", "start"}
  NoDaemon = NoDaemon
INVARIANTS
  TypeOK
  PathOwned
  OneDaemon
PROPERTIES
  CarefulIsReported
  StartedServes
  CallsReturn
