SPECIFICATION Spec
CONSTANTS
  s1 = s1
  s2 = s2
  c1 = c1
  p1 = p1
  p2 = p2
  None = None
  Servers = {s1, s2}
  Callers = {c1}
  Procs = {p1, p2}
  MaxRunning = 1
  MaxAttempts = 1
  AutoSleep = {s1}
  AutoRestart = {}
  Jobs = {"start", "stop", "force", "wake", "sleep", "restart"}
  LongUptime = TRUE
  Reboots = TRUE
SYMMETRY Interchangeable
INVARIANTS TransitionalOwned NoStaleHandle EveryJvmWatched 
