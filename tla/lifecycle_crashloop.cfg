SPECIFICATION FairSpec
CONSTANTS
  s1 = s1
  c1 = c1
  p1 = p1
  p2 = p2
  None = None
  Servers = {s1}
  Callers = {c1}
  Procs = {p1, p2}
  MaxRunning = 1
  MaxAttempts = 2
  AutoSleep = {}
  AutoRestart = {s1}
  Jobs = {"start", "autoOn", "autoOff"}
  LongUptime = FALSE
  Reboots = FALSE
INVARIANT TypeOK
PROPERTY LeftAlone
