SPECIFICATION Spec
CONSTANTS
  u1 = u1
  u2 = u2
  r1 = r1
  r2 = r2
  s1 = s1
  s2 = s2
  c1 = c1
  p = p
  q = q
  Users = {u1, u2}
  Realms = {r1, r2}
  Old = {s1}
  New = {s2}
  Callers = {c1}
  Players = {p, q}
  Starts = 2
  Runs = 2
  Lines = 3
  HistoryCap = 2
  TailCap = 1
  LastId = 4
  Parts = 2
  Word = 8
  Group = 3
  GB = 1024
  Recent = 2
  Questions <- Inputs
SYMMETRY Interchangeable
CHECK_DEADLOCK FALSE
INVARIANTS TypeOK RealmsExist Migrated     CrashLogKept AuthVerdict ReplyIsPrefix VarIntRoundTrip UpdateIsRead JavaSuits HeapAdviceHelps CountsAddUp 
