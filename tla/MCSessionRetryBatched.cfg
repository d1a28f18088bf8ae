CONSTANTS
  a1 = a1  a2 = a2  NoOrg = NoOrg  None = None  s0 = s0
  Principal = {r1}
  Runtime = {r1}
  Actor = {a1, a2}
  Org = {NoOrg}
  Session = {s0}
  ActorOf <- MCActorOf
  OrgOf <- MCOrgOf
  Administrators = {r1}
  PrivateScope = {}
  HarnessWriters = {}
  Legacy = {}
  Token = {t1, t2, t3, t4}
  BatchId <- MCBatchId
  Body = {0, 1, 2}
  LeaseLength = 1
  MaxTime = 0
  MaxEpoch = 2
  MaxEvents = 2
  MaxBatch = 2
  MaxHandles = 1
  BatchSize = 2
  MaxPending = 2
  MaxOps = 1
  MaxFaults = 1
SPECIFICATION FairSpec
PROPERTIES RetainedEventsRetried
CHECK_DEADLOCK FALSE
