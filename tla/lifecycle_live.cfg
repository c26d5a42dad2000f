SPECIFICATION FairSpec
CONSTANTS
  s1 = s1
  c1 = c1
  c2 = c2
  p1 = p1
  None = None
  Servers = {s1}
  Callers = {c1, c2}
  Procs = {p1}
  MaxRunning = 1
  MaxAttempts = 1
  AutoSleep = {}
  AutoRestart = {}
  Jobs = {"start", "stop", "force"}
  LongUptime = FALSE
  Reboots = FALSE
PROPERTIES StopReturns ExitIsHandled
