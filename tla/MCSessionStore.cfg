CONSTANTS
  p1 = p1  p2 = p2  p3 = p3  a1 = a1  a2 = a2
  NoOrg = NoOrg  None = None
  Principal = {p1, p2, p3}
  Actor = {a1, a2}
  Org = {NoOrg}
  Session = {s1}
  ActorOf <- MCActorOf
  OrgOf <- MCOrgOf
  Administrators = {p2}
  PrivateScope = {p1}
  HarnessWriters = {}
  Legacy <- MCLegacy
  Token = {t1, t2, t3}
  BatchId = {b1, b2}
  Body = {x}
  LeaseLength = 1
  MaxTime = 1
  MaxEpoch = 4
  MaxEvents = 3
  MaxBatch = 2
SPECIFICATION Spec
INVARIANTS ReceiptsInLog SingleWriter
PROPERTIES ImplementsFencedLog
CHECK_DEADLOCK FALSE
