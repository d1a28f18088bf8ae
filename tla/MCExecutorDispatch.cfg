CONSTANTS
  t1 = t1
  t2 = t2
  t3 = t3
  s1 = s1
  s2 = s2
  Proc = {p1}
  Task = {t1, t2, t3}
  Session = {s1, s2}
  SessionOf <- Sessions
  ClassOf <- Classes
  Fixed = {t3}
  Disturbed = {}
  Drainable = {p1}
  Maximum = 2
  MaxStarts = 1
  MaxFaults = 0
SPECIFICATION FairSpec
INVARIANTS SessionSerial DrainedIsIdle
PROPERTIES QueuedStarts
CHECK_DEADLOCK FALSE
