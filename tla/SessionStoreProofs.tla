------------------------- MODULE SessionStoreProofs -------------------------
(***************************************************************************)
(* The session store is safe for every set of principals, sessions, tokens *)
(* and payloads.  Inv is inductive: the log facts need the receipts, the    *)
(* tenure order needs the epochs of the receipts to be bounded by the      *)
(* current epoch, and the uniqueness of the writer needs every issued      *)
(* token to belong to one grant.  With the rows of the log tied to their    *)
(* receipts (RefineInv) every step is a step of FencedLog or none.          *)
(***************************************************************************)
EXTENDS SessionStore, TLAPS

\* No receipt comes from a tenure that has not begun.
EpochsBounded == \A k \in Key : \A r \in batches[k] : r.epoch <= row[k].epoch

\* A token names the grant it was minted for.
TokensUnique == \A g, h \in grants : g.token = h.token => g = h

\* A private session's lease, whether or not the session exists yet.
PrivateLease == \A k \in Key : meta[k].private => row[k].actor \in {None, meta[k].owner}

\* The strengthening that makes the safety properties inductive.
Inv ==
  /\ TypeOK
  /\ LogContiguous
  /\ ReceiptsInLog
  /\ EpochsBounded
  /\ TenuresOrdered
  /\ TokensUnique
  /\ PrivateLease
  /\ \A k \in Key : k \notin sessions => events[k] = {} /\ batches[k] = {} /\ row[k] = NoRow

USE ConstantsAssumption DEF BatchRow, Grant

\* _org_key is a key.
LEMMA KeyOfType == ASSUME NEW p \in Principal, NEW s \in Session PROVE KeyOf(p, s) \in Key
BY DEF KeyOf, Key

\* The columns of a sessions row.
LEMMA RowType == ASSUME NEW r \in Row
                 PROVE  /\ r.count \in Nat /\ r.epoch \in Nat /\ r.expires \in Nat
                        /\ r.actor \in Actor \cup {None} /\ r.token \in Token \cup {None}
BY DEF Row

\* A session row is made of its fields.
LEMMA RowIntro ==
  ASSUME NEW c \in Nat, NEW e \in Nat, NEW a \in Actor \cup {None},
         NEW t \in Token \cup {None}, NEW x \in Nat
  PROVE  [count |-> c, epoch |-> e, actor |-> a, token |-> t, expires |-> x] \in Row
BY DEF Row

\* A lease ends at a time.
LEMMA LeaseType == TypeOK => LeaseExpiry \in Nat
BY DEF TypeOK, LeaseExpiry

\* The invariant holds at the start.
LEMMA InitInv == Init => Inv
<1> SUFFICES ASSUME Init PROVE Inv
  OBVIOUS
<1>1. TypeOK
  <2>1. NoRow \in Row /\ [NoRow EXCEPT !.epoch = 1] \in Row
    BY DEF NoRow, Row
  <2>2. NoMeta \in Meta
    BY DEF NoMeta, Meta
  <2> QED BY <2>1, <2>2 DEF Init, TypeOK, Key
<1>2. LogContiguous
  BY DEF Init, LogContiguous, NoRow, Key
<1>3. ReceiptsInLog /\ EpochsBounded /\ TenuresOrdered
  BY DEF Init, ReceiptsInLog, EpochsBounded, TenuresOrdered
<1>4. TokensUnique
  BY DEF Init, TokensUnique
<1>5. PrivateLease
  BY DEF Init, PrivateLease, NoMeta
<1>6. \A k \in Key : k \notin sessions => events[k] = {} /\ batches[k] = {} /\ row[k] = NoRow
  BY DEF Init
<1> QED BY <1>1, <1>2, <1>3, <1>4, <1>5, <1>6 DEF Inv

\* A new lease on a session (first or by takeover): the log and the receipts do
\* not move, and the fresh token cannot meet an old grant.
LEMMA CreateInv ==
  ASSUME Inv, NEW p \in Principal, NEW s \in Session, NEW t \in Token, create_session(p, s, t)
  PROVE  Inv'
<1> DEFINE k == KeyOf(p, s)
<1>k. k \in Key
  BY KeyOfType
<1>n. k \notin sessions
  BY DEF create_session, CreateResult
<1>e. events[k] = {} /\ batches[k] = {} /\ row[k] = NoRow
  BY <1>k, <1>n DEF Inv
<1>1. TypeOK'
  <2>1. TypeOK /\ LeaseExpiry \in Nat
    BY LeaseType DEF Inv
  <2>2. row' \in [Key -> Row]
    BY <1>k, <2>1, RowIntro DEF TypeOK, create_session
  <2>3. meta' \in [Key -> Meta]
    BY <1>k, <2>1 DEF TypeOK, create_session, Meta
  <2>4. grants' \subseteq Grant /\ sessions' \subseteq Key
    BY <1>k, <2>1 DEF TypeOK, create_session
  <2> QED BY <2>1, <2>2, <2>3, <2>4 DEF TypeOK, create_session
<1>2. LogContiguous'
  BY <1>k, <1>e DEF Inv, TypeOK, LogContiguous, create_session, NoRow
<1>3. ReceiptsInLog'
  BY <1>k, <1>e DEF Inv, TypeOK, ReceiptsInLog, create_session
<1>4. EpochsBounded'
  BY <1>k, <1>e DEF Inv, TypeOK, EpochsBounded, Row, create_session
<1>5. TenuresOrdered'
  BY DEF Inv, TenuresOrdered, create_session
<1>6. TokensUnique'
  BY DEF Inv, TokensUnique, create_session, Minted
<1>7. PrivateLease'
  BY <1>k DEF Inv, TypeOK, PrivateLease, create_session
<1>8. (\A j \in Key : j \notin sessions => events[j] = {} /\ batches[j] = {} /\ row[j] = NoRow)'
  BY <1>k DEF Inv, TypeOK, create_session
<1> QED BY <1>1, <1>2, <1>3, <1>4, <1>5, <1>6, <1>7, <1>8 DEF Inv

\* open_handle preserves the invariant.
LEMMA OpenInv ==
  ASSUME Inv, NEW p \in Principal, NEW s \in Session, NEW x, NEW t \in Token,
         open_handle(p, s, x, t)
  PROVE  Inv'
<1> DEFINE k == KeyOf(p, s)
<1>k. k \in Key
  BY KeyOfType
<1>v. k \in sessions /\ CanAccess(p, k)
  BY DEF open_handle, OpenResult, Visible
<1>1. TypeOK'
  <2>1. TypeOK /\ LeaseExpiry \in Nat
    BY LeaseType DEF Inv
  <2>2. row' \in [Key -> Row]
    <3>1. row[k].count \in Nat /\ row[k].epoch + 1 \in Nat
      BY <1>k, <2>1, RowType DEF TypeOK
    <3>2. [count |-> row[k].count, epoch |-> row[k].epoch + 1, actor |-> ActorOf[p],
           token |-> t, expires |-> LeaseExpiry] \in Row
      BY <2>1, <3>1, RowIntro
    <3> QED BY <2>1, <3>2 DEF TypeOK, open_handle
  <2>3. grants' \subseteq Grant
    BY <1>k, <2>1, RowType DEF TypeOK, open_handle
  <2> QED BY <2>1, <2>2, <2>3 DEF TypeOK, open_handle
<1>2. LogContiguous'
  BY <1>k DEF Inv, TypeOK, LogContiguous, open_handle
<1>3. ReceiptsInLog'
  BY <1>k DEF Inv, TypeOK, ReceiptsInLog, open_handle
<1>4. EpochsBounded'
  BY <1>k DEF Inv, TypeOK, EpochsBounded, Row, open_handle
<1>5. TenuresOrdered'
  BY DEF Inv, TenuresOrdered, open_handle
<1>6. TokensUnique'
  BY DEF Inv, TokensUnique, open_handle, Minted
<1>7. PrivateLease'
  BY <1>k, <1>v DEF Inv, TypeOK, PrivateLease, open_handle, CanAccess
<1>8. (\A j \in Key : j \notin sessions => events[j] = {} /\ batches[j] = {} /\ row[j] = NoRow)'
  BY <1>k, <1>v DEF Inv, TypeOK, open_handle
<1> QED BY <1>1, <1>2, <1>3, <1>4, <1>5, <1>6, <1>7, <1>8 DEF Inv

\* The writer of a request that passed _assert_writer.
LEMMA WriterFacts ==
  ASSUME NEW p, NEW k, NEW t, NEW e, WriterResult(p, k, t, e) = "OK"
  PROVE  k \in sessions /\ CanAccess(p, k) /\ IsWriter(p, k, t, e)
BY DEF WriterResult, Visible

\* heartbeat preserves the invariant.
LEMMA HeartbeatInv ==
  ASSUME Inv, NEW p \in Principal, NEW s \in Session, NEW t \in Token, NEW e \in Nat,
         heartbeat(p, s, t, e)
  PROVE  Inv'
<1> DEFINE k == KeyOf(p, s)
<1>k. k \in Key /\ k \in sessions
  BY KeyOfType, WriterFacts DEF heartbeat
<1>1. TypeOK'
  <2>1. TypeOK /\ LeaseExpiry \in Nat
    BY LeaseType DEF Inv
  <2>2. row' \in [Key -> Row]
    BY <1>k, <2>1, ZenonT(30) DEF TypeOK, heartbeat, Row
  <2> QED BY <2>1, <2>2 DEF TypeOK, heartbeat
<1>r. /\ \A j \in Key : /\ row'[j].count = row[j].count /\ row'[j].epoch = row[j].epoch
                        /\ row'[j].actor = row[j].actor
                        /\ j \notin sessions => row'[j] = row[j]
      /\ UNCHANGED <<sessions, meta, events, batches, grants>>
  BY <1>k DEF Inv, TypeOK, heartbeat
<1> QED
  BY <1>1, <1>r DEF Inv, LogContiguous, ReceiptsInLog, EpochsBounded, TenuresOrdered,
                    TokensUnique, PrivateLease

\* release preserves the invariant.
LEMMA ReleaseInv ==
  ASSUME Inv, NEW p \in Principal, NEW s \in Session, NEW t \in Token, NEW e \in Nat,
         release(p, s, t, e)
  PROVE  Inv'
<1> DEFINE k == KeyOf(p, s)
<1>k. k \in Key /\ k \in sessions
  BY KeyOfType, WriterFacts DEF release
<1>1. TypeOK'
  <2>1. row' \in [Key -> Row]
    <3>1. row[k].count \in Nat /\ row[k].epoch + 1 \in Nat
      BY <1>k, RowType DEF Inv, TypeOK
    <3>2. [count |-> row[k].count, epoch |-> row[k].epoch + 1, actor |-> None,
           token |-> None, expires |-> 0] \in Row
      BY <3>1, RowIntro
    <3> QED BY <3>2 DEF Inv, TypeOK, release
  <2> QED BY <2>1 DEF Inv, TypeOK, release
<1>r. /\ \A j \in Key : /\ row'[j].count = row[j].count /\ row'[j].epoch >= row[j].epoch
                        /\ row'[j].actor \in {None, row[j].actor}
                        /\ j \notin sessions => row'[j] = row[j]
      /\ UNCHANGED <<sessions, meta, events, batches, grants>>
  BY <1>k, RowType DEF Inv, TypeOK, release
<1>2. LogContiguous' /\ ReceiptsInLog'
  BY <1>r DEF Inv, LogContiguous, ReceiptsInLog
<1>3. EpochsBounded'
  BY <1>1, <1>r DEF Inv, TypeOK, EpochsBounded, Row
<1>4. TenuresOrdered' /\ TokensUnique'
  BY <1>r DEF Inv, TenuresOrdered, TokensUnique
<1>5. PrivateLease'
  BY <1>r DEF Inv, PrivateLease
<1>6. (\A j \in Key : j \notin sessions => events[j] = {} /\ batches[j] = {} /\ row[j] = NoRow)'
  BY <1>r DEF Inv
<1> QED BY <1>1, <1>2, <1>3, <1>4, <1>5, <1>6 DEF Inv

\* An append extends the log at its end, under the current epoch, and records a
\* receipt that covers exactly the new rows.
LEMMA AppendInv ==
  ASSUME Inv, NEW p \in Principal, NEW s \in Session, NEW t \in Token, NEW e \in Nat,
         NEW id \in BatchId, NEW b \in Seq(Event), append_events(p, s, t, e, id, b)
  PROVE  Inv'
<1> DEFINE k == KeyOf(p, s)
           c == row[k].count
           n == Len(b)
           new == {b[i] : i \in 1..n}
           receipt == [epoch |-> e, id |-> id, digest |-> b, next |-> c + n]
<1>k. k \in Key
  BY KeyOfType
<1>w. k \in sessions /\ IsWriter(p, k, t, e)
  BY WriterFacts DEF append_events, AppendResult
<1>c. c \in Nat /\ n \in Nat /\ row[k].epoch = e
  BY <1>k, <1>w, RowType DEF Inv, TypeOK, IsWriter
<1>b. \A i \in 1..n : b[i] \in Event /\ b[i].seq = c + i - 1
  BY DEF append_events, AppendResult, Contiguous
<1>u. /\ events' = [events EXCEPT ![k] = @ \cup new]
      /\ batches' = [batches EXCEPT ![k] = @ \cup {receipt}]
      /\ row' = [row EXCEPT ![k].count = @ + n]
      /\ UNCHANGED <<now, sessions, meta, grants>>
  BY DEF append_events
<1>t. TypeOK
  BY DEF Inv
<1>r. \A j \in Key : /\ row'[j].count = IF j = k THEN c + n ELSE row[j].count
                     /\ row'[j].epoch = row[j].epoch
                     /\ row'[j].actor = row[j].actor
                     /\ j # k => row'[j] = row[j]
  BY <1>k, <1>u, <1>t DEF TypeOK, Row
<1>o. \A j \in Key : j # k => events'[j] = events[j] /\ batches'[j] = batches[j]
  BY <1>k, <1>u, <1>t DEF TypeOK
<1>s. events'[k] = events[k] \cup new /\ batches'[k] = batches[k] \cup {receipt}
  BY <1>k, <1>u, <1>t DEF TypeOK
<1>1. TypeOK'
  <2>1. row' \in [Key -> Row]
    <3>1. row[k] \in Row /\ c + n \in Nat
      BY <1>k, <1>t, <1>c DEF TypeOK
    <3>2. [row[k] EXCEPT !.count = c + n] \in Row
      BY <3>1 DEF Row
    <3>3. row' = [row EXCEPT ![k] = [row[k] EXCEPT !.count = c + n]]
      BY <1>u
    <3> QED BY <1>t, <3>2, <3>3 DEF TypeOK
  <2>2. events' \in [Key -> SUBSET Event]
    BY <1>k, <1>u, <1>t, <1>b DEF TypeOK
  <2>3. receipt \in BatchRow
    BY <1>c
  <2>4. batches' \in [Key -> SUBSET BatchRow]
    BY <1>k, <1>u, <1>t, <2>3 DEF TypeOK
  <2> QED BY <1>u, <1>t, <2>1, <2>2, <2>4 DEF TypeOK
<1>2. LogContiguous'
  <2> SUFFICES ASSUME NEW j \in Key
               PROVE  /\ \A r \in events'[j] : r.seq < row'[j].count
                      /\ \A m \in 0..(row'[j].count - 1) : \E r \in events'[j] : r.seq = m
                      /\ \A q, r \in events'[j] : q.seq = r.seq => q = r
    BY DEF LogContiguous
  <2>1. CASE j # k
    BY <2>1, <1>r, <1>o DEF Inv, LogContiguous
  <2>2. CASE j = k
    <3>1. \A r \in events[k] : r \in Event /\ r.seq \in Nat /\ r.seq < c
      BY <1>k, <1>t DEF Inv, LogContiguous, TypeOK, Event
    <3>2. \A r \in new : r.seq >= c /\ r.seq < c + n
      BY <1>b, <1>c
    <3>3. \A r \in events'[k] : r.seq < c + n
      BY <1>s, <1>c, <3>1, <3>2
    <3>4. ASSUME NEW m \in 0..(c + n - 1) PROVE \E r \in events'[k] : r.seq = m
      <4>1. CASE m < c
        BY <4>1, <1>s, <1>c, <1>k DEF Inv, LogContiguous
      <4>2. CASE m >= c
        <5>1. m - c + 1 \in 1..n
          BY <4>2, <1>c
        <5>2. b[m - c + 1] \in events'[k] /\ b[m - c + 1].seq = m
          <6>1. b[m - c + 1] \in new
            BY <5>1
          <6>2. b[m - c + 1].seq = c + (m - c + 1) - 1
            BY <5>1, <1>b
          <6> QED BY <6>1, <6>2, <1>s, <1>c
        <5> QED BY <5>2
      <4> QED BY <4>1, <4>2, <1>c
    <3>5. ASSUME NEW q \in events'[k], NEW r \in events'[k], q.seq = r.seq PROVE q = r
      <4>1. CASE q \in events[k] /\ r \in events[k]
        BY <4>1, <3>5, <1>k DEF Inv, LogContiguous
      <4>2. CASE q \in new /\ r \in new
        BY <4>2, <3>5, <1>b, <1>c
      <4>3. ~(q \in events[k] /\ r \in new) /\ ~(q \in new /\ r \in events[k])
        BY <3>1, <3>2, <3>5, <1>c
      <4> QED BY <4>1, <4>2, <4>3, <1>s
    <3>6. row'[j].count = c + n /\ events'[j] = events'[k]
      BY <2>2, <1>r
    <3>7. \A m \in 0..(c + n - 1) : \E r \in events'[k] : r.seq = m
      BY <3>4
    <3>8. \A q, r \in events'[k] : q.seq = r.seq => q = r
      BY <3>5
    <3> HIDE DEF new, c, n
    <3>9. \A r \in events'[j] : r.seq < row'[j].count
      BY <3>3, <3>6
    <3>10. \A m \in 0..(row'[j].count - 1) : \E r \in events'[j] : r.seq = m
      <4>1. row'[j].count - 1 = c + n - 1
        BY <3>6, <1>c
      <4> QED BY <3>7, <3>6, <4>1, Zenon
    <3>11. \A q, r \in events'[j] : q.seq = r.seq => q = r
      BY <3>8, <3>6
    <3> QED BY <3>9, <3>10, <3>11
  <2> QED BY <2>1, <2>2
<1>3. ReceiptsInLog'
  <2> SUFFICES ASSUME NEW j \in Key, NEW r \in batches'[j]
               PROVE  /\ r.next <= row'[j].count
                      /\ \A i \in 1..Len(r.digest) :
                           /\ r.digest[i] \in events'[j]
                           /\ r.digest[i].seq + Len(r.digest) + 1 = r.next + i
    BY DEF ReceiptsInLog
  <2>1. CASE r \in batches[j]
    <3>1. r.next \in Nat /\ row[j].count \in Nat /\ row'[j].count >= row[j].count
      BY <2>1, <1>r, <1>c, <1>t, RowType DEF TypeOK
    <3>2. events[j] \subseteq events'[j]
      BY <1>o, <1>s
    <3> QED BY <2>1, <3>1, <3>2, <1>1, SMTT(30) DEF Inv, ReceiptsInLog, TypeOK, Row
  <2>2. CASE j = k /\ r = receipt
    <3>1. r.digest = b /\ r.next = c + n /\ row'[j].count = c + n
      BY <2>2, <1>r
    <3>2. \A i \in 1..n : b[i] \in events'[k] /\ b[i].seq + n + 1 = c + n + i
      BY <1>b, <1>s, <1>c
    <3> QED BY <2>2, <3>1, <3>2, <1>c
  <2> QED BY <2>1, <2>2, <1>o, <1>s
<1>4. EpochsBounded'
  <2>1. \A j \in Key : \A r \in batches'[j] : r \in batches[j] \/ (j = k /\ r.epoch = e)
    BY <1>o, <1>s
  <2> QED BY <2>1, <1>r, <1>c DEF Inv, EpochsBounded
<1>5. TenuresOrdered'
  <2> SUFFICES ASSUME NEW j \in Key, NEW q \in batches'[j], NEW r \in batches'[j], q.next < r.next
               PROVE  q.epoch <= r.epoch
    BY DEF TenuresOrdered
  <2>1. CASE q \in batches[j] /\ r \in batches[j]
    BY <2>1 DEF Inv, TenuresOrdered
  <2>2. CASE j = k /\ r = receipt
    BY <2>2, <1>c, <1>k, <1>s DEF Inv, EpochsBounded
  <2>3. CASE j = k /\ q = receipt /\ r \in batches[j]
    <3>1. r.next <= c /\ r.next \in Nat
      BY <2>3, <1>k, <1>t DEF Inv, ReceiptsInLog, TypeOK
    <3> QED BY <3>1, <2>3, <1>c
  <2> QED BY <2>1, <2>2, <2>3, <1>o, <1>s
<1>6. TokensUnique' /\ PrivateLease'
  BY <1>u, <1>r DEF Inv, TokensUnique, PrivateLease
<1>7. (\A j \in Key : j \notin sessions => events[j] = {} /\ batches[j] = {} /\ row[j] = NoRow)'
  BY <1>w, <1>u, <1>o, <1>r DEF Inv
<1> QED BY <1>1, <1>2, <1>3, <1>4, <1>5, <1>6, <1>7 DEF Inv

\* Time alone changes no table.
LEMMA TickInv == ASSUME Inv, Tick \/ UNCHANGED vars PROVE Inv'
<1>1. now' \in Nat /\ UNCHANGED <<sessions, row, meta, events, batches, grants>>
  BY DEF Inv, TypeOK, Tick, vars
<1> QED BY <1>1 DEF Inv, TypeOK, LogContiguous, ReceiptsInLog, EpochsBounded, TenuresOrdered,
                    TokensUnique, PrivateLease

\* The batches of Next are sequences of events.
LEMMA BoundedBatchType == BoundedBatch \subseteq Seq(Event)
<1> SUFFICES ASSUME NEW n \in 1..MaxBatch, NEW b \in [1..n -> [seq : 0..MaxEvents - 1, body : Body]]
             PROVE  b \in Seq(Event)
  BY DEF BoundedBatch
<1>1. n \in Nat
  OBVIOUS
<1>2. \A i \in 1..n : b[i] \in Event
  BY DEF Event
<1>3. b \in [1..n -> Event]
  BY <1>2
<1> QED BY <1>1, <1>3

\* Every step preserves the invariant, one case per action.
LEMMA NextInv == ASSUME Inv, [Next]_vars PROVE Inv'
<1>1. ASSUME NEW p \in Principal, NEW s \in Session, NEW t \in Token, create_session(p, s, t)
      PROVE  Inv'
  BY <1>1, CreateInv
<1>2. ASSUME NEW p \in Principal, NEW s \in Session, NEW t \in Token, NEW x,
             open_handle(p, s, x, t)
      PROVE  Inv'
  BY <1>2, OpenInv
<1>3. ASSUME NEW p \in Principal, NEW s \in Session, NEW t \in Token, NEW e \in 0..MaxEpoch,
             heartbeat(p, s, t, e) \/ release(p, s, t, e)
      PROVE  Inv'
  BY <1>3, HeartbeatInv, ReleaseInv
<1>4. ASSUME NEW p \in Principal, NEW s \in Session, NEW t \in Token, NEW e \in 0..MaxEpoch,
             NEW id \in BatchId, NEW b \in BoundedBatch, append_events(p, s, t, e, id, b)
      PROVE  Inv'
  BY <1>4, AppendInv, BoundedBatchType
<1> QED BY <1>1, <1>2, <1>3, <1>4, TickInv DEF Next

\* The invariant holds in every reachable state.
LEMMA SpecInv == Spec => []Inv
BY InitInv, NextInv, PTL DEF Spec

\* The tables always hold what their column types and CHECK constraints allow.
THEOREM StoreTypeOK == Spec => []TypeOK
<1>1. Inv => TypeOK
  BY DEF Inv
<1> QED BY <1>1, SpecInv, PTL

\* The log of every session is gap-free and has one event per sequence number,
\* which is what read_events relies on.
THEOREM StoreLogContiguous == Spec => []LogContiguous
<1>1. Inv => LogContiguous
  BY DEF Inv
<1> QED BY <1>1, SpecInv, PTL

\* A batch receipt that append_events answers from stands for committed events.
THEOREM StoreReceiptsInLog == Spec => []ReceiptsInLog
<1>1. Inv => ReceiptsInLog
  BY DEF Inv
<1> QED BY <1>1, SpecInv, PTL

\* Fencing: a fenced writer never lands behind its successor.
THEOREM StoreTenuresOrdered == Spec => []TenuresOrdered
<1>1. Inv => TenuresOrdered
  BY DEF Inv
<1> QED BY <1>1, SpecInv, PTL

\* At most one of the write handles ever issued for a session is accepted.
THEOREM StoreSingleWriter == Spec => []SingleWriter
<1>1. Inv => SingleWriter
  BY DEF Inv, TokensUnique, SingleWriter, IsWriter
<1> QED BY <1>1, SpecInv, PTL

\* Actor-private sessions are leased to their Product owner only.
THEOREM StorePrivateLease == Spec => []PrivateLeaseIsOwners
<1>1. Inv => PrivateLeaseIsOwners
  BY DEF Inv, TypeOK, PrivateLease, PrivateLeaseIsOwners
<1> QED BY <1>1, SpecInv, PTL

\* No step of the store rewrites the Product projection of an existing session.
THEOREM StoreMetadataStable == Spec => ProductMetadataStable
<1> DEFINE Stable == \A k \in sessions : k \in sessions' /\ meta'[k] = meta[k]
<1>1. ASSUME Inv, [Next]_vars PROVE Stable
  <2>1. ASSUME NEW p \in Principal, NEW s \in Session, NEW t \in Token, create_session(p, s, t)
        PROVE  Stable
    BY <1>1, <2>1, KeyOfType DEF create_session, CreateResult, Inv, TypeOK
  <2>2. ASSUME NEW p \in Principal, NEW s \in Session, NEW t \in Token, NEW x, NEW e, NEW id, NEW b,
               \/ open_handle(p, s, x, t) \/ heartbeat(p, s, t, e)
               \/ release(p, s, t, e) \/ append_events(p, s, t, e, id, b)
        PROVE  Stable
    BY <2>2 DEF open_handle, heartbeat, release, append_events
  <2>3. CASE Tick \/ UNCHANGED vars
    BY <2>3 DEF Tick, vars
  <2> QED BY <1>1, <2>1, <2>2, <2>3, ZenonT(30) DEF Next
<1>2. Inv /\ [Next]_vars => [Stable]_vars
  BY <1>1
<1> QED BY <1>2, SpecInv, PTL DEF Spec, ProductMetadataStable

-----------------------------------------------------------------------------
(* The store implements FencedLog, one step of the log for each step of the *)
(* tables or none.  The mapping reads the tenure of an entry off the        *)
(* receipt it came in, so every row must have one and no two may disagree.  *)

\* The receipt b stands for the row r.
Covers(b, r) == \E i \in 1..Len(b.digest) : b.digest[i] = r

\* Every committed row came in a batch, and all its receipts name one tenure.
Receipted(rows, receipts) ==
  /\ \A r \in rows : \E b \in receipts : Covers(b, r)
  /\ \A r \in rows : \A b, c \in receipts : Covers(b, r) /\ Covers(c, r) => b.epoch = c.epoch

RowsReceipted == \A k \in Key : Receipted(events[k], batches[k])

RefineInv == Inv /\ RowsReceipted

\* What the mapping makes of a row, whichever receipt CHOOSE picks.
LEMMA EntryIs ==
  ASSUME NEW rows, NEW receipts, Receipted(rows, receipts),
         \A q, r \in rows : q.seq = r.seq => q = r,
         NEW r \in rows, NEW b \in receipts, Covers(b, r)
  PROVE  EntryIn(rows, receipts, r.seq) = [tenure |-> b.epoch, body |-> r.body]
<1> DEFINE x == CHOOSE q \in rows : q.seq = r.seq
           y == CHOOSE c \in receipts : \E i \in 1..Len(c.digest) : c.digest[i] = x
<1>1. x \in rows /\ x.seq = r.seq
  OBVIOUS
<1>2. x = r
  BY <1>1
<1> HIDE DEF x
<1>3. \E c \in receipts : \E i \in 1..Len(c.digest) : c.digest[i] = x
  BY <1>2 DEF Covers
<1>4. y \in receipts /\ \E i \in 1..Len(y.digest) : y.digest[i] = x
  BY <1>3
<1> HIDE DEF y
<1>5. y.epoch = b.epoch
  BY <1>2, <1>4 DEF Covers, Receipted
<1>6. EntryIn(rows, receipts, r.seq) = [tenure |-> y.epoch, body |-> x.body]
  BY DEF EntryIn, x, y
<1> QED BY <1>2, <1>5, <1>6

\* What an accepted append does to the tables of session k.
Appends(k, e, b, receipt) ==
  /\ k \in Key /\ row[k].count \in Nat /\ row[k].actor # None /\ row[k].epoch = e
  /\ receipt.digest = b /\ receipt.epoch = e
  /\ batches' = [batches EXCEPT ![k] = @ \cup {receipt}]
  /\ events' = [events EXCEPT ![k] = @ \cup {b[i] : i \in 1..Len(b)}]
  /\ row' = [row EXCEPT ![k].count = @ + Len(b)]
  /\ \A i \in 1..Len(b) : b[i] \in Event /\ b[i].seq = row[k].count + i - 1

\* An append commits rows whose numbers no old row has, all in one receipt.
LEMMA AppendFacts ==
  ASSUME Inv, NEW p \in Principal, NEW s \in Session, NEW t \in Token, NEW e \in Nat,
         NEW id \in BatchId, NEW b \in Seq(Event), append_events(p, s, t, e, id, b),
         NEW k, k = KeyOf(p, s)
  PROVE  \E receipt \in BatchRow : Appends(k, e, b, receipt)
<1> DEFINE receipt == [epoch |-> e, id |-> id, digest |-> b, next |-> row[k].count + Len(b)]
<1>1. k \in Key
  BY KeyOfType
<1>2. IsWriter(p, k, t, e)
  BY WriterFacts DEF append_events, AppendResult
<1>3. row[k] \in Row
  BY <1>1 DEF Inv, TypeOK
<1>4. row[k].count \in Nat /\ row[k].epoch = e /\ row[k].actor = ActorOf[p]
  BY <1>2, <1>3, RowType DEF IsWriter
<1>5. ActorOf[p] # None
  OBVIOUS
<1>6. \A i \in 1..Len(b) : b[i] \in Event /\ b[i].seq = row[k].count + i - 1
  BY DEF append_events, AppendResult, Contiguous
<1>7. receipt \in BatchRow /\ receipt.digest = b /\ receipt.epoch = e
  BY <1>4
<1>8. /\ batches' = [batches EXCEPT ![k] = @ \cup {receipt}]
      /\ events' = [events EXCEPT ![k] = @ \cup {b[i] : i \in 1..Len(b)}]
      /\ row' = [row EXCEPT ![k].count = @ + Len(b)]
  BY DEF append_events
<1> HIDE DEF receipt
<1> QED BY <1>1, <1>4, <1>5, <1>6, <1>7, <1>8 DEF Appends

\* An append keeps every row receipted.
LEMMA AppendReceipted ==
  ASSUME RefineInv, NEW p \in Principal, NEW s \in Session, NEW t \in Token, NEW e \in Nat,
         NEW id \in BatchId, NEW b \in Seq(Event), append_events(p, s, t, e, id, b)
  PROVE  RowsReceipted'
<1>1. PICK k : k = KeyOf(p, s)
  OBVIOUS
<1>2. PICK receipt \in BatchRow : Appends(k, e, b, receipt)
  BY <1>1, AppendFacts DEF RefineInv
<1> DEFINE new == {b[i] : i \in 1..Len(b)}
<1>3. /\ events'[k] = events[k] \cup new /\ batches'[k] = batches[k] \cup {receipt}
      /\ \A j \in Key : j # k => events'[j] = events[j] /\ batches'[j] = batches[j]
  BY <1>2 DEF Appends, RefineInv, Inv, TypeOK
<1>4. \A r \in new : r.seq >= row[k].count
  BY <1>2 DEF Appends
<1>5. \A r \in events[k] : r.seq \in Nat /\ r.seq < row[k].count
  BY <1>2 DEF Appends, RefineInv, Inv, LogContiguous, TypeOK, Event
<1>6. \A r \in new : Covers(receipt, r)
  BY <1>2 DEF Covers, Appends
<1>7. ASSUME NEW c \in batches[k], NEW r, Covers(c, r) PROVE r \in events[k]
  BY <1>2, <1>7 DEF Appends, Covers, RefineInv, Inv, ReceiptsInLog
<1>8. ASSUME NEW r, Covers(receipt, r) PROVE r \in new
  BY <1>2, <1>8 DEF Covers, Appends
<1>9. \A r \in new : r \notin events[k]
  BY <1>2, <1>4, <1>5 DEF Appends
<1> HIDE DEF new
<1>10. Receipted(events[k], batches[k])
  BY <1>2 DEF Appends, RefineInv, RowsReceipted
<1>11. ASSUME NEW r \in events'[k] PROVE \E c \in batches'[k] : Covers(c, r)
  BY <1>3, <1>6, <1>10, <1>11 DEF Receipted
<1>12. ASSUME NEW r \in events'[k], NEW c \in batches'[k], NEW d \in batches'[k],
              Covers(c, r), Covers(d, r)
       PROVE  c.epoch = d.epoch
  <2>1. CASE r \in new
    BY <1>3, <1>7, <1>9, <1>12, <2>1
  <2>2. CASE r \in events[k]
    <3>1. c # receipt /\ d # receipt
      BY <1>8, <1>9, <1>12, <2>2
    <3> QED BY <1>3, <1>10, <1>12, <2>2, <3>1 DEF Receipted
  <2> QED BY <1>3, <2>1, <2>2
<1>13. Receipted(events'[k], batches'[k])
  BY <1>11, <1>12 DEF Receipted
<1>14. ASSUME NEW j \in Key PROVE Receipted(events'[j], batches'[j])
  BY <1>3, <1>13 DEF RefineInv, RowsReceipted
<1> QED BY <1>14 DEF RowsReceipted

\* Every other step leaves rows and receipts alone.
LEMMA NextReceipted == ASSUME RefineInv, [Next]_vars PROVE RowsReceipted'
<1>1. CASE UNCHANGED <<events, batches>>
  BY <1>1 DEF RefineInv, RowsReceipted
<1>2. ASSUME NEW p \in Principal, NEW s \in Session, NEW t \in Token, NEW e \in 0..MaxEpoch,
             NEW id \in BatchId, NEW b \in BoundedBatch, append_events(p, s, t, e, id, b)
      PROVE  RowsReceipted'
  <2>1. b \in Seq(Event) /\ e \in Nat
    BY BoundedBatchType
  <2> QED BY <1>2, <2>1, AppendReceipted
<1>3. \/ UNCHANGED <<events, batches>>
      \/ \E p \in Principal, s \in Session, t \in Token, e \in 0..MaxEpoch, id \in BatchId,
            b \in BoundedBatch : append_events(p, s, t, e, id, b)
  BY DEF Next, vars, create_session, open_handle, heartbeat, release, Tick
<1> QED BY <1>1, <1>2, <1>3

\* The mapped state, as the instance of FencedLog sees it.
LogOf    == [k \in Key |-> [n \in 1..row[k].count |-> EntryAt(k, n - 1)]]
TenureOf == [k \in Key |-> row[k].epoch]
HeldOf   == [k \in Key |-> row[k].actor # None]

\* The log is the same when rows, receipts and counts are.
LEMMA SameLog ==
  ASSUME UNCHANGED <<events, batches>>, \A k \in Key : row'[k].count = row[k].count
  PROVE  LogOf' = LogOf
<1>1. \A k, n : EntryAt(k, n)' = EntryAt(k, n)
  BY DEF EntryAt
<1>2. \A k \in Key : [n \in 1..row[k].count |-> EntryAt(k, n - 1)]'
                       = [n \in 1..row[k].count |-> EntryAt(k, n - 1)]
  BY <1>1
<1> QED BY <1>2 DEF LogOf

\* A new tenure of one session, owned or not.
LEMMA TenureStep ==
  ASSUME TypeOK, NEW k \in Key, NEW r \in Row, row' = [row EXCEPT ![k] = r],
         r.epoch = row[k].epoch + 1, r.count = row[k].count, UNCHANGED <<events, batches>>
  PROVE  /\ LogOf' = LogOf
         /\ TenureOf' = [TenureOf EXCEPT ![k] = @ + 1]
         /\ HeldOf' = [HeldOf EXCEPT ![k] = (r.actor # None)]
<1>1. row \in [Key -> Row] /\ row' \in [Key -> Row]
  BY DEF TypeOK
<1>2. row'[k] = r /\ \A j \in Key : j # k => row'[j] = row[j]
  BY <1>1
<1>3. LogOf' = LogOf
  BY <1>2, SameLog
<1>4. TenureOf' = [TenureOf EXCEPT ![k] = @ + 1]
  <2>1. TenureOf[k] = row[k].epoch
    BY DEF TenureOf
  <2>2. PICK v : v = TenureOf[k] + 1
    OBVIOUS
  <2>3. row'[k].epoch = v
    BY <1>2, <2>1, <2>2
  <2>4. TenureOf' = [TenureOf EXCEPT ![k] = v]
    <3>1. \A j \in Key : row'[j].epoch = IF j = k THEN v ELSE row[j].epoch
      BY <1>2, <2>3
    <3>2. TenureOf' = [j \in Key |-> IF j = k THEN v ELSE TenureOf[j]]
      BY <3>1 DEF TenureOf
    <3>3. DOMAIN TenureOf = Key
      BY DEF TenureOf
    <3> QED BY <3>2, <3>3
  <2> QED BY <2>2, <2>4
<1>5. HeldOf' = [HeldOf EXCEPT ![k] = (r.actor # None)]
  BY <1>2 DEF HeldOf
<1> QED BY <1>3, <1>4, <1>5

\* The new row of a session is granted in full.
LEMMA CreateRefines ==
  ASSUME RefineInv, NEW p \in Principal, NEW s \in Session, NEW t \in Token, create_session(p, s, t)
  PROVE  Abstract!Next
<1>1. PICK k \in Key : k = KeyOf(p, s)
  BY KeyOfType
<1> DEFINE r == [count |-> 0, epoch |-> 1, actor |-> ActorOf[p], token |-> t, expires |-> LeaseExpiry]
<1>2. r \in Row /\ r.count = 0 /\ r.epoch = 1 /\ r.actor # None
  BY LeaseType, RowIntro DEF RefineInv, Inv
<1>3. row[k].count = 0 /\ row[k].epoch = 0
  BY <1>1 DEF RefineInv, Inv, create_session, CreateResult, NoRow
<1>4. row' = [row EXCEPT ![k] = r] /\ UNCHANGED <<events, batches>>
  BY <1>1 DEF create_session
<1> HIDE DEF r
<1>5. /\ LogOf' = LogOf
      /\ TenureOf' = [TenureOf EXCEPT ![k] = @ + 1]
      /\ HeldOf' = [HeldOf EXCEPT ![k] = (r.actor # None)]
  <2>1. r.count = row[k].count /\ r.epoch = row[k].epoch + 1
    BY <1>2, <1>3
  <2> QED BY <1>2, <1>4, <2>1, TenureStep DEF RefineInv, Inv
<1>6. HeldOf' = [HeldOf EXCEPT ![k] = TRUE]
  BY <1>2, <1>5
<1>7. Abstract!Acquire(k)
  BY <1>5, <1>6 DEF Abstract!Acquire, LogOf, TenureOf, HeldOf
<1> QED BY <1>7 DEF Abstract!Next

\* Takeover and reopening fence the tenure before.
LEMMA OpenRefines ==
  ASSUME RefineInv, NEW p \in Principal, NEW s \in Session, NEW x, NEW t \in Token,
         open_handle(p, s, x, t)
  PROVE  Abstract!Next
<1>1. PICK k \in Key : k = KeyOf(p, s)
  BY KeyOfType
<1> DEFINE r == [count |-> row[k].count, epoch |-> row[k].epoch + 1, actor |-> ActorOf[p],
                 token |-> t, expires |-> LeaseExpiry]
<1>2. row[k] \in Row /\ row[k].count \in Nat /\ row[k].epoch \in Nat
  BY RowType DEF RefineInv, Inv, TypeOK
<1>3. r \in Row /\ r.count = row[k].count /\ r.epoch = row[k].epoch + 1 /\ r.actor # None
  BY <1>2, LeaseType, RowIntro DEF RefineInv, Inv
<1>4. row' = [row EXCEPT ![k] = r] /\ UNCHANGED <<events, batches>>
  BY <1>1 DEF open_handle
<1> HIDE DEF r
<1>5. /\ LogOf' = LogOf
      /\ TenureOf' = [TenureOf EXCEPT ![k] = @ + 1]
      /\ HeldOf' = [HeldOf EXCEPT ![k] = (r.actor # None)]
  BY <1>3, <1>4, TenureStep DEF RefineInv, Inv
<1>6. HeldOf' = [HeldOf EXCEPT ![k] = TRUE]
  BY <1>3, <1>5
<1>7. Abstract!Acquire(k)
  BY <1>5, <1>6 DEF Abstract!Acquire, LogOf, TenureOf, HeldOf
<1> QED BY <1>7 DEF Abstract!Next

\* A release ends the tenure of its owner.
LEMMA ReleaseRefines ==
  ASSUME RefineInv, NEW p \in Principal, NEW s \in Session, NEW t \in Token, NEW e \in Nat,
         release(p, s, t, e)
  PROVE  Abstract!Next
<1>1. PICK k \in Key : k = KeyOf(p, s)
  BY KeyOfType
<1> DEFINE r == [count |-> row[k].count, epoch |-> row[k].epoch + 1, actor |-> None,
                 token |-> None, expires |-> 0]
<1>2. row[k] \in Row /\ row[k].count \in Nat /\ row[k].epoch \in Nat
  BY RowType DEF RefineInv, Inv, TypeOK
<1>3. r \in Row /\ r.count = row[k].count /\ r.epoch = row[k].epoch + 1 /\ r.actor = None
  BY <1>2 DEF Row
<1>4. row' = [row EXCEPT ![k] = r] /\ UNCHANGED <<events, batches>>
  BY <1>1 DEF release
<1>h. row[k].actor = ActorOf[p] /\ ActorOf[p] # None
  BY <1>1, WriterFacts DEF release, IsWriter
<1> HIDE DEF r
<1>5. /\ LogOf' = LogOf
      /\ TenureOf' = [TenureOf EXCEPT ![k] = @ + 1]
      /\ HeldOf' = [HeldOf EXCEPT ![k] = (r.actor # None)]
  BY <1>3, <1>4, TenureStep DEF RefineInv, Inv
<1>6. HeldOf' = [HeldOf EXCEPT ![k] = FALSE] /\ HeldOf[k]
  BY <1>3, <1>5, <1>h DEF HeldOf
<1>7. Abstract!Relinquish(k)
  BY <1>5, <1>6 DEF Abstract!Relinquish, LogOf, TenureOf, HeldOf
<1> QED BY <1>7 DEF Abstract!Next

\* An append extends the log of its session at the end, in the current tenure.
LEMMA AppendRefines ==
  ASSUME RefineInv, RefineInv', NEW p \in Principal, NEW s \in Session, NEW t \in Token,
         NEW e \in Nat, NEW id \in BatchId, NEW b \in Seq(Event), Len(b) > 0,
         append_events(p, s, t, e, id, b)
  PROVE  Abstract!Next
<1>1. PICK k : k = KeyOf(p, s)
  OBVIOUS
<1>2. PICK receipt \in BatchRow : Appends(k, e, b, receipt)
  BY <1>1, AppendFacts DEF RefineInv
<1>3. PICK c \in Nat : c = row[k].count
  BY <1>2 DEF Appends
<1>4. PICK n \in Nat : n = Len(b)
  OBVIOUS
<1>5. k \in Key /\ row[k].epoch = e /\ row[k].actor # None /\ receipt.digest = b /\ receipt.epoch = e
  BY <1>2 DEF Appends
<1>6. /\ row'[k].count = c + n /\ row'[k].epoch = e /\ row'[k].actor = row[k].actor
      /\ \A j \in Key : j # k => row'[j] = row[j]
  <2>1. row' = [row EXCEPT ![k].count = @ + Len(b)] /\ row \in [Key -> Row] /\ row[k] \in Row
    BY <1>2, <1>5 DEF Appends, RefineInv, Inv, TypeOK
  <2>2. PICK r : r = [row[k] EXCEPT !.count = c + n]
    OBVIOUS
  <2>3. r.count = c + n /\ r.epoch = row[k].epoch /\ r.actor = row[k].actor
    BY <2>1, <2>2 DEF Row
  <2>4. row' = [row EXCEPT ![k] = r]
    BY <1>3, <1>4, <2>1, <2>2
  <2> QED BY <1>5, <2>1, <2>3, <2>4
<1>7. /\ events'[k] = events[k] \cup {b[i] : i \in 1..n} /\ batches'[k] = batches[k] \cup {receipt}
      /\ \A j \in Key : j # k => events'[j] = events[j] /\ batches'[j] = batches[j]
  BY <1>2, <1>4, <1>5 DEF Appends, RefineInv, Inv, TypeOK
<1>8. \A i \in 1..n : b[i] \in Event /\ b[i].seq = c + i - 1
  BY <1>2, <1>3, <1>4 DEF Appends
<1>9. /\ Receipted(events[k], batches[k]) /\ Receipted(events'[k], batches'[k])
      /\ \A q, r \in events[k] : q.seq = r.seq => q = r
      /\ \A q, r \in events'[k] : q.seq = r.seq => q = r
  BY <1>5 DEF RefineInv, RowsReceipted, Inv, LogContiguous
<1>10. ASSUME NEW m \in 1..c PROVE EntryAt(k, m - 1)' = EntryAt(k, m - 1)
  <2>1. m - 1 \in 0..(row[k].count - 1)
    BY <1>3
  <2>2. PICK r \in events[k] : r.seq = m - 1
    BY <1>5, <2>1 DEF RefineInv, Inv, LogContiguous
  <2>3. PICK x \in batches[k] : Covers(x, r)
    BY <1>9 DEF Receipted
  <2>4. EntryIn(events[k], batches[k], r.seq) = [tenure |-> x.epoch, body |-> r.body]
    BY <1>9, <2>3, EntryIs
  <2>5. r \in events'[k] /\ x \in batches'[k]
    BY <1>7
  <2>6. EntryIn(events'[k], batches'[k], r.seq) = [tenure |-> x.epoch, body |-> r.body]
    BY <1>9, <2>3, <2>5, EntryIs
  <2> QED BY <2>2, <2>4, <2>6 DEF EntryAt
<1>11. ASSUME NEW m \in (c + 1)..(c + n)
       PROVE  EntryAt(k, m - 1)' \in [tenure : {e}, body : Body]
  <2>1. PICK i \in 1..n : m = c + i
    <3>1. m - c \in 1..n /\ m = c + (m - c)
      OBVIOUS
    <3> QED BY <3>1
  <2>2. PICK r : r = b[i]
    OBVIOUS
  <2>3. r \in events'[k] /\ r \in Event /\ r.seq = m - 1
    BY <1>7, <1>8, <2>1, <2>2
  <2>4. receipt \in batches'[k] /\ Covers(receipt, r)
    BY <1>4, <1>5, <1>7, <2>2 DEF Covers
  <2>5. EntryIn(events'[k], batches'[k], r.seq) = [tenure |-> receipt.epoch, body |-> r.body]
    BY <1>9, <2>3, <2>4, EntryIs
  <2>6. r.body \in Body
    BY <2>3 DEF Event
  <2> QED BY <1>5, <2>3, <2>5, <2>6 DEF EntryAt
<1>12. /\ DOMAIN LogOf = Key /\ DOMAIN LogOf' = Key
       /\ DOMAIN LogOf[k] = 1..c /\ \A m \in 1..c : LogOf[k][m] = EntryAt(k, m - 1)
       /\ DOMAIN LogOf'[k] = 1..(c + n) /\ \A m \in 1..(c + n) : LogOf'[k][m] = EntryAt(k, m - 1)'
  BY <1>3, <1>5, <1>6 DEF LogOf
<1>13. Len(LogOf[k]) = c /\ Len(LogOf'[k]) = c + n
  <2>1. LogOf[k] = [m \in 1..c |-> EntryAt(k, m - 1)]
    BY <1>3, <1>5 DEF LogOf
  <2>2. LogOf'[k] = [m \in 1..(c + n) |-> EntryAt(k, m - 1)']
    BY <1>5, <1>6 DEF LogOf
  <2> QED BY <2>1, <2>2
<1>14. ASSUME NEW m \in 1..Len(LogOf'[k])
       PROVE  IF m <= Len(LogOf[k]) THEN LogOf'[k][m] = LogOf[k][m]
              ELSE LogOf'[k][m] \in [tenure : {TenureOf[k]}, body : Body]
  <2>1. TenureOf[k] = e
    BY <1>5 DEF TenureOf
  <2>2. CASE m <= c
    <3>1. m \in 1..c /\ m \in 1..(c + n)
      BY <1>13, <2>2
    <3> QED BY <1>10, <1>12, <1>13, <2>2, <3>1
  <2>3. CASE ~(m <= c)
    <3>1. m \in (c + 1)..(c + n) /\ m \in 1..(c + n)
      BY <1>13, <2>3
    <3>2. LogOf'[k][m] \in [tenure : {e}, body : Body]
      BY <1>11, <1>12, <3>1
    <3> QED BY <1>13, <2>1, <2>3, <3>2
  <2> QED BY <2>2, <2>3
<1>15. ASSUME NEW j \in Key \ {k} PROVE LogOf'[j] = LogOf[j]
  <2>1. row'[j] = row[j] /\ events'[j] = events[j] /\ batches'[j] = batches[j]
    BY <1>6, <1>7
  <2>2. \A m : EntryAt(j, m)' = EntryAt(j, m)
    BY <2>1 DEF EntryAt
  <2> QED BY <2>1, <2>2 DEF LogOf
<1>16. TenureOf' = TenureOf /\ HeldOf' = HeldOf /\ HeldOf[k]
  BY <1>5, <1>6 DEF TenureOf, HeldOf
<1>17. Len(LogOf'[k]) > Len(LogOf[k])
  BY <1>4, <1>13
<1>18. \A m \in 1..Len(LogOf'[k]) :
          IF m <= Len(LogOf[k]) THEN LogOf'[k][m] = LogOf[k][m]
          ELSE LogOf'[k][m] \in [tenure : {TenureOf[k]}, body : Body]
  BY <1>14
<1>19. \A j \in Key \ {k} : LogOf'[j] = LogOf[j]
  BY <1>15
<1>20. DOMAIN LogOf' = Key
  BY <1>12
<1>21. Abstract!Extend(k)
  BY <1>16, <1>17, <1>18, <1>19, <1>20, Zenon DEF Abstract!Extend, LogOf, TenureOf, HeldOf
<1> QED BY <1>5, <1>21 DEF Abstract!Next

\* The first state maps to the first state of FencedLog.
LEMMA InitRefines == ASSUME Init PROVE Abstract!Init /\ RowsReceipted
<1>1. \A k \in Key : row[k].count = 0 /\ row[k].epoch \in {0, 1} /\ row[k].actor = None
  BY DEF Init, NoRow
<1>2. LogOf = [k \in Key |-> << >>]
  <2>1. \A k \in Key : [n \in 1..row[k].count |-> EntryAt(k, n - 1)] = << >>
    <3> SUFFICES ASSUME NEW k \in Key PROVE [n \in 1..row[k].count |-> EntryAt(k, n - 1)] = << >>
      OBVIOUS
    <3>1. 1..row[k].count = {}
      BY <1>1
    <3> QED BY <3>1
  <2> QED BY <2>1 DEF LogOf
<1>3. TenureOf \in [Key -> {0, 1}]
  BY <1>1 DEF TenureOf
<1>4. HeldOf = [k \in Key |-> FALSE]
  BY <1>1 DEF HeldOf
<1>5. Abstract!Init
  BY <1>2, <1>3, <1>4 DEF Abstract!Init, LogOf, TenureOf, HeldOf
<1>6. RowsReceipted
  BY DEF Init, RowsReceipted, Receipted
<1> QED BY <1>5, <1>6

\* Every step of the tables is a step of FencedLog or a stutter.
LEMMA NextRefines == ASSUME RefineInv, RefineInv', [Next]_vars PROVE [Abstract!Next]_(Abstract!vars)
<1>1. ASSUME LogOf' = LogOf, TenureOf' = TenureOf, HeldOf' = HeldOf
      PROVE  [Abstract!Next]_(Abstract!vars)
  BY <1>1 DEF Abstract!vars, LogOf, TenureOf, HeldOf
<1>2. ASSUME UNCHANGED <<events, batches>>,
             \A k \in Key : /\ row'[k].count = row[k].count /\ row'[k].epoch = row[k].epoch
                            /\ row'[k].actor = row[k].actor
      PROVE  [Abstract!Next]_(Abstract!vars)
  <2>1. LogOf' = LogOf
    BY <1>2, SameLog
  <2>2. TenureOf' = TenureOf
    BY <1>2 DEF TenureOf
  <2>3. HeldOf' = HeldOf
    BY <1>2 DEF HeldOf
  <2> QED BY <1>1, <2>1, <2>2, <2>3
<1>3. CASE Tick \/ UNCHANGED vars
  BY <1>2, <1>3 DEF Tick, vars
<1>4. ASSUME NEW p \in Principal, NEW s \in Session, NEW t \in Token, create_session(p, s, t)
      PROVE  Abstract!Next
  BY <1>4, CreateRefines
<1>5. ASSUME NEW p \in Principal, NEW s \in Session, NEW t \in Token, NEW x, open_handle(p, s, x, t)
      PROVE  Abstract!Next
  BY <1>5, OpenRefines
<1>6. ASSUME NEW p \in Principal, NEW s \in Session, NEW t \in Token, NEW e \in 0..MaxEpoch,
             heartbeat(p, s, t, e)
      PROVE  [Abstract!Next]_(Abstract!vars)
  <2>1. PICK k \in Key : k = KeyOf(p, s)
    BY KeyOfType
  <2>2. row' = [row EXCEPT ![k].expires = LeaseExpiry] /\ UNCHANGED <<events, batches>>
    BY <1>6, <2>1 DEF heartbeat
  <2>3. row \in [Key -> Row]
    BY DEF RefineInv, Inv, TypeOK
  <2> QED BY <1>2, <2>2, <2>3 DEF Row
<1>7. ASSUME NEW p \in Principal, NEW s \in Session, NEW t \in Token, NEW e \in 0..MaxEpoch,
             release(p, s, t, e)
      PROVE  Abstract!Next
  BY <1>7, ReleaseRefines
<1>8. ASSUME NEW p \in Principal, NEW s \in Session, NEW t \in Token, NEW e \in 0..MaxEpoch,
             NEW id \in BatchId, NEW b \in BoundedBatch, append_events(p, s, t, e, id, b)
      PROVE  Abstract!Next
  <2>1. b \in Seq(Event) /\ e \in Nat
    BY BoundedBatchType
  <2>2. Len(b) > 0
    BY DEF BoundedBatch
  <2> QED BY <1>8, <2>1, <2>2, AppendRefines
<1> QED BY <1>3, <1>4, <1>5, <1>6, <1>7, <1>8 DEF Next

\* The store implements one fenced append-only log per session: whatever takeovers, releases,
\* expired leases, stale handles and retried batches do, an entry never changes or moves and a
\* tenure that ended writes no more (persistence/store.py, open_handle, append_events, release).
THEOREM StoreImplementsFencedLog == Spec => ImplementsFencedLog
<1>1. Init => Abstract!Init /\ RefineInv
  BY InitInv, InitRefines DEF RefineInv
<1>2. RefineInv /\ [Next]_vars => RefineInv'
  BY NextInv, NextReceipted DEF RefineInv
<1>3. RefineInv /\ RefineInv' /\ [Next]_vars => [Abstract!Next]_(Abstract!vars)
  BY NextRefines
<1> QED BY <1>1, <1>2, <1>3, PTL DEF Spec, ImplementsFencedLog, Abstract!Spec
=============================================================================
