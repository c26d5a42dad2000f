SPECIFICATION FairSpec
CONSTANTS
  pl1 = pl1
  x1 = x1
  x2 = x2
  p1 = p1
  op = op
  watcher = watcher
  None = None
  Players = {pl1}
  Proxies = {x1, x2}
  Procs = {p1}
  Operator = op
  Watcher = watcher
  Jobs = {"on", "off"}
  Reboots = TRUE
INVARIANTS TypeOK  PortIsAccounted
PROPERTIES LoginAnswered 
