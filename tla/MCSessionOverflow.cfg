CONSTANTS
  a1 = a1  a2 = a2  NoOrg = NoOrg  None = None  s0 = s0
  Principal = {r1}
  Runtime = {r1}
  Actor = {a1, a2}
  Org = {NoOrg}
  Session = {s0}
  ActorOf <- MCActorOf
  OrgOf <- MCOrgOf
  Administrators = {r1}
  PrivateScope = {}
  HarnessWriters = {}
  Legacy = {}
  Token = {t1, t2, t3, t4}
  BatchId <- MCBatchId
  Body = {0, 1}
  LeaseLength = 1
  MaxTime = 1
  MaxEpoch = 2
  MaxEvents = 3
  MaxBatch = 2
  MaxHandles = 1
  BatchSize = 2
  MaxPending = 1
  MaxOps = 2
  MaxFaults = 1
SPECIFICATION ProtocolSpec
INVARIANTS  ToolAfterDurable
CHECK_DEADLOCK FALSE
