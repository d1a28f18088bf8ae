CONSTANTS
  p1 = p1  p2 = p2  p3 = p3  a1 = a1  a2 = a2  t1 = t1  k1 = k1  None = None  TeamsV1 = TeamsV1
  Principal = {p1, p2, p3}
  Actor = {a1, a2}
  ActorOf <- MCActorOf
  PrivateScope = {p1}
  HarnessWriters = {p1}
  NativeOwners = {p1, p2, p3}
  PolicyOwners = {a1}
  Root = {t1, t2}
  IdemKey = {k1}
  Session = {s1}
  MessageId = {m1}
  Connector = {TeamsV1}
  ApprovalId = {g1, g2}
  InputId = {i1, i2}
  Native = {n1}
  Metas <- RoutedOrNot
  MaxLog = 7
SPECIFICATION MCSpec
INVARIANTS GatesAgree OneResultPerTask NativeSessionNotForeign
PROPERTIES PrivateResultStaysPrivate
SYMMETRY GateIds
CHECK_DEADLOCK FALSE
