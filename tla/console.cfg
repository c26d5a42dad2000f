SPECIFICATION Spec
CONSTANTS
  c1 = c1
  l1 = l1
  l2 = l2
  None = None
  Clients = {c1}
  SendCap = 1
  QueueCap = 1
  Loops = {l1, l2}
INVARIANTS AllTypeOK NoLoopLost
PROPERTIES GoneIsForgotten CancelledReturns
