SPECIFICATION Spec
CONSTANTS
  s1 = s1
  c1 = c1
  p1 = p1
  p2 = p2
  None = None
  Servers = {s1}
  Callers = {c1}
  Procs = {p1, p2}
  MaxRunning = 1
  MaxAttempts = 1
  AutoSleep = {}
  AutoRestart = {}
  Jobs = {"start", "stop"}
  LongUptime = FALSE
  Reboots = FALSE
SYMMETRY Interchangeable
INVARIANT RestingHasNoJvm
