CONSTANTS
  a1 = a1 a2 = a2 d1 = d1 g1 = g1 x1 = x1 x2 = x2 x3 = x3 k1 = k1 k2 = k2
  Actor = {a1, a2}
  Conv = {d1, g1}
  KindOf <- ConvKinds
  Persona = {}
  Msg = {x1, x2, x3}
  Mem = {k1, k2}
  MsgInfo <- SharedMessages
  MemInfo <- SharedMemories
  Artifact = {pic}
  Reader <- SharedReaders
  MaxCites = 1
  MaxVersion = 2
  MaxMemClock = 1
  Indexed = {k1}
  MaxIndexCalls = 2
  MaxEpoch = 2
  Lifetimes <- Sometimes
  Grantable <- SharedGrants
  Workspace = Workspace
  NoPersona = NoPersona

  s1 = s1 s2 = s2 cA = cA p1 = p1 p2 = p2 p3 = p3 f1 = f1 n1 = n1 n2 = n2
  h1 = h1 r1 = r1 b1 = b1 t1 = t1 u1 = u1 u2 = u2 u3 = u3
  DomSource = {s1, s2}
  Candidate = {p1, p2, p3}
  CandInfo <- Contenders
  DomConv = {cA}
  DomPersona = {p1}
  PolicyValue = {v1, v2}
  Change = {g1}
  Focus = {f1}
  Note = {n1, n2}
  NoteTitle <- Titles
  Entry = {h1, r1}
  EntryKind <- EntryKinds
  Batch = {b1}
  BatchRecords <- Records
  SourceOf <- DomSources
  MaxDomVersion = 4
  MaxDomClock = 2
  MaxDomCalls = 2
  NoPersonaBound = NoPersonaBound
  NoProfile = NoProfile

  Job = {j1}
  DailyReview = {j1}
  Watch = {w1}
  MaxJobVersion = 5
  MaxProcessed = 1
  MaxJobCalls = 2
  MaxWatchVersion = 3

  Backup <- MCBackup
  RowSources <- MCRowSources
  RowCount = 2
  MaxPlan = 1
  Compensable = {"message", "memory", "profile", "graph"}

  Output = {o1, o2}
  NoOutput = none
  MaxCheckVersion = 6
SPECIFICATION MCSpec
INVARIANTS RevocationReaches IndexIsHonest
INVARIANTS ProfileChain ProjectedIsApplied
INVARIANTS JobOutcomeAgrees
INVARIANTS NothingLeftBehind NotAppliedIsFinal
INVARIANTS OpenNoticeIsScheduled ChangeWasAnnounced
PROPERTIES EpochGuards
CHECK_DEADLOCK FALSE
