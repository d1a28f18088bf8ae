CONSTANTS
  t1 = t1
  t2 = t2
  t3 = t3
  s1 = s1
  s2 = s2
  Proc = {p1, p2}
  Task = {t1}
  Session = {s1}
  SessionOf <- Sessions
  ClassOf <- Classes
  Fixed = {}
  Disturbed = {t1}
  Drainable = {}
  Maximum = 2
  MaxStarts = 3
  MaxFaults = 1
SPECIFICATION Spec
INVARIANTS NoReplay FinishAgrees NoOrphan
CHECK_DEADLOCK FALSE
