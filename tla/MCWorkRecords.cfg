CONSTANTS
  None = None
  Id = {i1, i2}
  Route = {w1}
  MaxTime = 2
  MaxRevision = 4

  k1 = k1 k2 = k2 k3 = k3 k4 = k4 t1 = t1 t2 = t2 l1 = l1 l2 = l2
  OpKey = {k1, k2, k3, k4}
  OpInfo <- Keys
  OpTask = {t1, t2}
  NoOpTask = NoOpTask
  Action = {b1}
  ActionInfo <- Skills
  WebKey <- WebPages
  Request = {q1, q2}

  f1 = f1 f2 = f2 p1 = p1 tg = tg a1 = a1 o1 = o1 o2 = o2 e1 = e1 e2 = e2 e3 = e3 e4 = e4 r1 = r1
  Flow = {f1, f2}
  Definition <- Documents
  NoDefinition = NoDefinition
  Target = {tg}
  Digest = Digest
  Occ <- Occurrences
  Seen = {e1, e2, e3, e4}
  SeenInfo <- Facts
  Resource = {r1}
  MaxPages = 1

  q1 = q1 q2 = q2 c1 = c1 c2 = c2 y1 = y1 y2 = y2
  Call = {c1, c2}
  NoCall = nocall
  RequestId = {h1}
  Writing = {y1, y2}
  ArtifactDigest = {d1}
  NoDigest = nodigest
  MaxOutputs = 1
  MaxCalls = 1

  m1 = m1 m2 = m2
  Inventory = {v1, v2}
  NoInventory = noinventory
  PageToken = {n1}
  First = first
  End = end
  FactKey = {m1, m2}
  FactValue = {0, 1}
  PageItems <- Contents
  Shelf = {s1}
SPECIFICATION MCSpec
INVARIANTS InactiveIsRevoked
INVARIANTS EffectOncePerKey OutcomeIsProven TrustedDispatchAlone
INVARIANTS NewestStateWins OutageAnnouncedOnce
INVARIANTS PublishedIsOwn OpenCallStays
INVARIANTS SnapshotIsLastComplete CurrentIsBacked
CHECK_DEADLOCK FALSE
