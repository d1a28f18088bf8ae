----------------------- MODULE SessionProtocolProofs ------------------------
(***************************************************************************)
(* Runtimes writing through the session store, for any number of runtimes, *)
(* handles, retries, timeouts and crashes: what a handle was acknowledged   *)
(* is in the authoritative log, a tool starts only after the events that    *)
(* the handle retained before it are, a handle that released its session is *)
(* never told it lost it, and the handle the server accepts is the one the  *)
(* runtime routes to.                                                       *)
(*                                                                         *)
(* ProtocolInv adds to the store's Inv what the clients know: an event is   *)
(* acknowledged, refused or retained, a request carries a prefix of the     *)
(* retained ones that continues the acknowledged ones, an answer is true    *)
(* when it is read, every capability a client holds was granted once, and   *)
(* a runtime's handles have growing epochs.                                 *)
(***************************************************************************)
EXTENDS SessionProtocol, SessionStoreProofs, SequenceTheorems

USE ConstantsAssumption, ProtocolAssumption, BatchAssumption

Results == {"OK", "REPLAY", "WORKSPACE_FORBIDDEN", "SESSION_ALREADY_EXISTS", "SESSION_NOT_FOUND",
            "SESSION_ALREADY_OWNED", "SESSION_OWNERSHIP_LOST", "SESSION_TAKEOVER_FORBIDDEN",
            "SESSION_SEQUENCE_CONFLICT", "none"}
OpenKinds == {"create", "open", "takeover"}
OpKinds   == {"append", "flush", "release"}
Kinds     == OpenKinds \cup OpKinds \cup {"heartbeat", "none"}

\* The events a handle retains, and the records of the clients.
Envelope == [seq : 0..(MaxEvents - 1), body : Body]
CallRec  == [kind : Kinds, batch : Seq(Event), expected : SUBSET Nat,
             state : {"idle", "sent", "done"}, result : Results, next : Nat, epoch : Nat,
             token : Token \cup {None}]
OpRec    == [name : {"flush", "tool", "close"}, mark : Nat]
HandleRec == [rt : Runtime, phase : {"open", "closing", "closed", "dead"}, lost : BOOLEAN,
              epoch : Nat, token : Token, start : Nat, next : Nat, produced : Nat,
              pending : Seq(Envelope), timer : BOOLEAN, ops : Seq(OpRec), call : CallRec,
              beat : CallRec, released : BOOLEAN, ran : Nat, dropped : SUBSET Nat]
StrayRec == [rt : Runtime, call : CallRec, token : Token \cup {None}, epoch : Nat]

ProtocolTypeOK ==
  /\ hs \in Seq(HandleRec) /\ Len(hs) <= MaxHandles
  /\ writers \in [Runtime -> Nat] /\ \A rt \in Runtime : writers[rt] <= Len(hs)
  /\ takeovers \in [Runtime -> Nat]
  /\ opening \in [Runtime -> CallRec]
  /\ resuming \in [Runtime -> {"no", "requested", "resuming", "abandoned"}]
  /\ strays \subseteq StrayRec
  /\ faults \in Nat

-----------------------------------------------------------------------------
(* The inductive invariant.                                                *)

\* The store: tenures are numbered from 1, a leased row has a token.
GrantsBounded == \A g \in grants : 1 <= g.epoch /\ g.epoch <= row[g.key].epoch
LeaseHasToken == \A k \in Key : row[k].actor # None => row[k].token # None
StoreOK == Inv /\ GrantsBounded /\ LeaseHasToken

\* A capability that the store issued for key k.
Granted(t, e, k) == \E g \in grants : g.token = t /\ g.epoch = e /\ g.key = k

\* A request: an append carries a batch the store can record.
Sendable(c) == c.kind = "append" => c.batch \in BoundedBatch

\* The retained events carry the handle's number.
PendingOwn(h, x) == \A i \in 1..Len(x.pending) : x.pending[i].body = h

\* Of the first m events, those that entered the backlog are acknowledged.
Covered(x, m) == \A n \in x.start..(m - 1) : n < x.next \/ n \in x.dropped

\* An event produced is acknowledged, refused or retained.
NothingSkipped(x) ==
  /\ x.phase \in {"open", "closing"} =>
       \A n \in x.start..(x.produced - 1) :
         \/ n < x.next \/ n \in x.dropped
         \/ \E i \in 1..Len(x.pending) : x.pending[i].seq = n
  /\ \A i \in 1..Len(x.ops) : x.ops[i].mark <= x.produced

\* The running append carries a prefix of the retained events that continues the
\* acknowledged ones, and they are in the log once it is answered well.
AppendIsPrefix(h, x) ==
  x.call.kind = "append" =>
    /\ Len(x.call.batch) <= Len(x.pending)
    /\ \A i \in 1..Len(x.call.batch) :
         /\ x.call.batch[i] = x.pending[i]
         /\ x.call.batch[i] = [seq |-> x.next + i - 1, body |-> h]

AnswerIsTrue(x) ==
  x.call.kind = "append" /\ x.call.state = "done" /\ x.call.result \in {"OK", "REPLAY"} =>
    \A i \in 1..Len(x.call.batch) : x.call.batch[i] \in events[K(x.rt)]

\* A flush is sent after everything that existed when it was requested.
FlushCovers(x) ==
  /\ x.call.kind \in OpKinds => x.ops # << >>
  /\ x.call.kind \in {"flush", "release"} => Covered(x, x.ops[1].mark)

\* A closing handle renews nothing from its close's first request on, and sends
\* the release only while it believes to own the session.
CloseIsJoined(x) ==
  /\ \A i \in 1..Len(x.ops) : x.ops[i].name = "close" => x.phase # "open"
  /\ x.call.kind \in OpKinds => x.phase \in {"open", "closing"}
  /\ x.call.kind \in OpKinds /\ x.ops[1].name = "close" => x.beat = NoCall
  /\ x.call.kind = "release" => x.ops[1].name = "close" /\ ~x.lost

\* A released handle reads its success, or reads nothing any more.
ReleasedIsOver(x) ==
  x.released => /\ ~x.lost
                /\ \/ x.phase \in {"closed", "dead"}
                   \/ x.call.kind = "release" /\ x.call.state = "done" /\ x.call.result = "OK"

\* The slots of a handle hold only their own kinds of request.
SlotsOK(x) ==
  /\ x.call = NoCall \/ x.call.kind \in OpKinds
  /\ x.beat = NoCall \/ x.beat.kind = "heartbeat"
  /\ Sendable(x.call)

\* What was acknowledged is durable, and a tool ran after it.
PrefixDurable(h, x) ==
  /\ Covered(x, x.ran)
  /\ \A n \in x.start..(x.next - 1) : [seq |-> n, body |-> h] \in events[K(x.rt)]

\* Only the handle of the current tenure is routed to.
RoutedIfCurrent(h, x) ==
  x.phase = "open" /\ x.epoch = row[K(x.rt)].epoch => writers[x.rt] = h

\* What a handle knows by itself, and what it knows of the store and its runtime.
LocalOK(h, x) ==
  /\ PendingOwn(h, x) /\ NothingSkipped(x) /\ AppendIsPrefix(h, x) /\ FlushCovers(x)
  /\ CloseIsJoined(x) /\ ReleasedIsOver(x) /\ SlotsOK(x)

SharedOK(h, x) ==
  /\ Granted(x.token, x.epoch, K(x.rt))
  /\ AnswerIsTrue(x) /\ PrefixDurable(h, x) /\ RoutedIfCurrent(h, x)

HandleOK(h, x) == LocalOK(h, x) /\ SharedOK(h, x)

HandlesOK == \A h \in 1..Len(hs) : HandleOK(h, hs[h])

\* No two handles share a capability.
HandlesDistinct == \A g, h \in 1..Len(hs) : hs[g].token = hs[h].token => g = h

\* The answer of an opening is a capability nobody holds yet, of a tenure later
\* than those of all the runtime's handles.
Won(rt) == opening[rt].state = "done" /\ opening[rt].result = "OK"

OpeningOK(rt) ==
  /\ opening[rt] = NoCall \/ opening[rt].kind \in OpenKinds
  /\ Won(rt) =>
       /\ opening[rt].token \in Token
       /\ Granted(opening[rt].token, opening[rt].epoch, K(rt))
       /\ \A h \in 1..Len(hs) :
            /\ hs[h].token # opening[rt].token
            /\ hs[h].rt = rt => hs[h].epoch < opening[rt].epoch

OpeningsOK == \A rt \in Runtime : OpeningOK(rt)

OpeningsDistinct ==
  \A r, q \in Runtime : Won(r) /\ Won(q) /\ opening[r].token = opening[q].token => r = q

\* A stray request; a stray release is that of a handle which gave up knowing no loss.
StrayOK(q) ==
  /\ Sendable(q.call)
  /\ q.call.kind \in OpKinds \cup {"heartbeat"} => q.token \in Token
  /\ q.call.kind = "release" =>
       \E h \in 1..Len(hs) : /\ hs[h].token = q.token
                             /\ hs[h].phase \in {"closed", "dead"} /\ ~hs[h].lost

StraysOK == \A q \in strays : StrayOK(q)

ProtocolInv ==
  /\ ProtocolTypeOK
  /\ StoreOK
  /\ HandlesOK
  /\ HandlesDistinct
  /\ OpeningsOK
  /\ OpeningsDistinct
  /\ StraysOK
-----------------------------------------------------------------------------
(* What a request does to the store.                                       *)

\* The store only ever grows: its log, its tenures and its grants.
Moves ==
  /\ StoreOK'
  /\ \A k \in Key : events[k] \subseteq events'[k] /\ row[k].epoch <= row'[k].epoch
  /\ grants \subseteq grants'

\* The key of a session.
LEMMA KType == ASSUME NEW p \in Principal PROVE K(p) \in Key
  BY KeyOfType DEF K

\* The fields of a session row.
LEMMA RowFields ==
  ASSUME StoreOK, NEW k \in Key
  PROVE  /\ row[k] \in Row /\ row[k].count \in Nat /\ row[k].epoch \in Nat
         /\ row[k].token \in Token \cup {None}
  BY RowType DEF StoreOK, Inv, TypeOK

\* A store that is not called moves trivially.
LEMMA StandsStill == ASSUME StoreOK, UNCHANGED vars PROVE Moves
<1>1. Inv'
  BY TickInv DEF StoreOK
<1>2. UNCHANGED <<row, events, grants>>
  BY DEF vars
<1>3. \A k \in Key : row[k].epoch \in Nat
  BY RowFields
<1> QED BY <1>1, <1>2, <1>3 DEF Moves, StoreOK, GrantsBounded, LeaseHasToken

\* Time alone moves no row.
LEMMA TickMoves == ASSUME StoreOK, Tick PROVE Moves
<1>1. Inv'
  BY TickInv DEF StoreOK
<1>2. UNCHANGED <<row, events, grants>>
  BY DEF Tick
<1>3. \A k \in Key : row[k].epoch \in Nat
  BY RowFields
<1> QED BY <1>1, <1>2, <1>3 DEF Moves, StoreOK, GrantsBounded, LeaseHasToken

\* A new tenure is granted: the row of k gets a token never issued before.
Grants(k, t) ==
  /\ t \in Token \ Minted
  /\ row'[k].epoch = row[k].epoch + 1 /\ row'[k].token = t
  /\ \E a : grants' = grants \cup {[key |-> k, epoch |-> row[k].epoch + 1, token |-> t, actor |-> a]}

\* A fresh grant moves one row to a new epoch.
LEMMA GrantMoves ==
  ASSUME StoreOK, Inv', NEW k \in Key, NEW t, Grants(k, t),
         UNCHANGED events, \A j \in Key \ {k} : row'[j] = row[j]
  PROVE  Moves
<1>1. \A j \in Key : row[j].epoch \in Nat /\ row[j].epoch <= row'[j].epoch
  BY RowFields DEF Grants
<1>2. PICK a : grants' = grants \cup {[key |-> k, epoch |-> row[k].epoch + 1, token |-> t, actor |-> a]}
  BY DEF Grants
<1>3. \A g \in grants : g.key \in Key /\ g.epoch \in Nat
  BY DEF StoreOK, Inv, TypeOK, Grant
<1>4. GrantsBounded'
  <2> SUFFICES ASSUME NEW g \in grants' PROVE 1 <= g.epoch /\ g.epoch <= row'[g.key].epoch
    BY DEF GrantsBounded
  <2>1. CASE g \in grants
    <3>1. 1 <= g.epoch /\ g.epoch <= row[g.key].epoch
      BY <2>1 DEF StoreOK, GrantsBounded
    <3>2. row[g.key].epoch <= row'[g.key].epoch /\ row[g.key].epoch \in Nat
      BY <2>1, <1>1, <1>3
    <3>3. row'[g.key].epoch \in Nat
      BY <2>1, <1>3, RowType DEF Inv, TypeOK
    <3> QED BY <3>1, <3>2, <3>3, <2>1, <1>3
  <2>2. CASE g = [key |-> k, epoch |-> row[k].epoch + 1, token |-> t, actor |-> a]
    <3>1. g.key = k /\ g.epoch = row[k].epoch + 1
      BY <2>2
    <3> QED BY <3>1, <1>1 DEF Grants
  <2> QED BY <2>1, <2>2, <1>2
<1>5. LeaseHasToken'
  BY DEF LeaseHasToken, StoreOK, Grants
<1> QED BY <1>1, <1>2, <1>4, <1>5 DEF Moves, StoreOK

\* create_session grants its token on the new row.
LEMMA CreateMoves ==
  ASSUME StoreOK, NEW p \in Principal, NEW t, create_session(p, s0, t)
  PROVE  Moves /\ Grants(K(p), t)
<1> DEFINE k == K(p)
<1>k. k \in Key
  BY KType
<1>1. t \in Token /\ Inv'
  BY CreateInv DEF create_session, StoreOK
<1>2. row[k] = NoRow
  BY <1>k DEF create_session, CreateResult, K, StoreOK, Inv
<1>3. row \in [Key -> Row]
  BY DEF StoreOK, Inv, TypeOK
<1>4. row' = [row EXCEPT ![k] = [count |-> 0, epoch |-> 1, actor |-> ActorOf[p],
                                 token |-> t, expires |-> LeaseExpiry]]
  BY DEF create_session, K
<1>5. row[k].epoch = 0
  BY <1>2 DEF NoRow
<1>6. row'[k].epoch = 1 /\ row'[k].token = t /\ \A j \in Key \ {k} : row'[j] = row[j]
  BY <1>3, <1>4, <1>k
<1>7. grants' = grants \cup {[key |-> k, epoch |-> 1, token |-> t, actor |-> ActorOf[p]]}
  BY DEF create_session, K
<1>8. Grants(k, t)
  <2>1. t \in Token \ Minted
    BY DEF create_session
  <2>2. row[k].epoch + 1 = 1
    BY <1>5
  <2> QED BY <2>1, <2>2, <1>6, <1>7 DEF Grants
<1>9. UNCHANGED events
  BY DEF create_session
<1> QED BY <1>1, <1>6, <1>8, <1>9, <1>k, GrantMoves

\* open_handle grants a token, on a new epoch when it takes the lease over.
LEMMA OpenMoves ==
  ASSUME StoreOK, NEW p \in Principal, NEW x, NEW t, open_handle(p, s0, x, t)
  PROVE  Moves /\ Grants(K(p), t)
<1> DEFINE k == K(p)
<1>k. k \in Key
  BY KType
<1>1. t \in Token /\ Inv'
  BY OpenInv DEF open_handle, StoreOK
<1>3. row \in [Key -> Row]
  BY DEF StoreOK, Inv, TypeOK
<1>4. row' = [row EXCEPT ![k] = [count |-> row[k].count, epoch |-> row[k].epoch + 1,
                                 actor |-> ActorOf[p], token |-> t, expires |-> LeaseExpiry]]
  BY DEF open_handle, K
<1>6. /\ row'[k].epoch = row[k].epoch + 1 /\ row'[k].token = t
      /\ \A j \in Key \ {k} : row'[j] = row[j]
  BY <1>3, <1>4, <1>k
<1>7. grants' = grants \cup {[key |-> k, epoch |-> row[k].epoch + 1, token |-> t, actor |-> ActorOf[p]]}
  BY DEF open_handle, K
<1>8. Grants(k, t)
  BY <1>6, <1>7 DEF Grants, open_handle
<1>9. UNCHANGED events
  BY DEF open_handle
<1> QED BY <1>1, <1>6, <1>8, <1>9, <1>k, GrantMoves

\* The operations of the current writer issue nothing.
LEMMA KeptGrants ==
  ASSUME StoreOK, Inv', UNCHANGED grants,
         \A k \in Key : /\ row[k].epoch <= row'[k].epoch
                        /\ row'[k].actor # None => row[k].actor = row'[k].actor /\ row[k].token = row'[k].token
                        /\ events[k] \subseteq events'[k]
  PROVE  Moves
<1>1. \A g \in grants : g.key \in Key /\ g.epoch \in Nat
  BY DEF StoreOK, Inv, TypeOK, Grant
<1>2. \A k \in Key : row[k].epoch \in Nat /\ row'[k].epoch \in Nat
  BY RowFields, RowType DEF Inv, TypeOK
<1>3. GrantsBounded'
  <2> SUFFICES ASSUME NEW g \in grants PROVE 1 <= g.epoch /\ g.epoch <= row'[g.key].epoch
    BY DEF GrantsBounded
  <2>1. 1 <= g.epoch /\ g.epoch <= row[g.key].epoch /\ row[g.key].epoch <= row'[g.key].epoch
    BY <1>1 DEF StoreOK, GrantsBounded
  <2> QED BY <2>1, <1>1, <1>2
<1>4. LeaseHasToken'
  BY DEF LeaseHasToken, StoreOK
<1> QED BY <1>3, <1>4 DEF Moves, StoreOK

\* A heartbeat and a release of the writer keep the log.
LEMMA WriterMoves ==
  ASSUME StoreOK, NEW p \in Principal, NEW t \in Token, NEW e \in Nat,
         heartbeat(p, s0, t, e) \/ release(p, s0, t, e)
  PROVE  Moves
<1> DEFINE k == K(p)
<1>k. k \in Key
  BY KType
<1>1. Inv'
  BY HeartbeatInv, ReleaseInv DEF StoreOK
<1>2. row \in [Key -> Row]
  BY DEF StoreOK, Inv, TypeOK
<1>3. row[k].epoch \in Nat
  BY <1>k, RowFields
<1>4. \A j \in Key : j # k => row'[j] = row[j]
  BY <1>2 DEF heartbeat, release, K
<1>5. CASE heartbeat(p, s0, t, e)
  <2>1. row' = [row EXCEPT ![k] = [row[k] EXCEPT !.expires = LeaseExpiry]]
    BY <1>5 DEF heartbeat, K
  <2>2. row[k] \in Row /\ row'[k] = [row[k] EXCEPT !.expires = LeaseExpiry]
    BY <2>1, <1>2, <1>k
  <2>3. row'[k].epoch = row[k].epoch /\ row'[k].actor = row[k].actor /\ row'[k].token = row[k].token
    BY <2>2 DEF Row
  <2>4. UNCHANGED <<grants, events>>
    BY <1>5 DEF heartbeat
  <2>5. \A j \in Key : /\ row[j].epoch <= row'[j].epoch
                       /\ row'[j].actor # None => row[j].actor = row'[j].actor /\ row[j].token = row'[j].token
    BY <2>3, <1>4, RowFields
  <2> QED BY <1>1, <2>4, <2>5, KeptGrants
<1>6. CASE release(p, s0, t, e)
  <2>1. row' = [row EXCEPT ![k] = [count |-> row[k].count, epoch |-> row[k].epoch + 1,
                                actor |-> None, token |-> None, expires |-> 0]]
    BY <1>6 DEF release, K
  <2>3. row'[k].epoch = row[k].epoch + 1 /\ row'[k].actor = None
    BY <2>1, <1>2, <1>k
  <2>4. UNCHANGED <<grants, events>>
    BY <1>6 DEF release
  <2>5. \A j \in Key : /\ row[j].epoch <= row'[j].epoch
                       /\ row'[j].actor # None => row[j].actor = row'[j].actor /\ row[j].token = row'[j].token
    BY <2>3, <1>4, RowFields
  <2> QED BY <1>1, <2>4, <2>5, KeptGrants
<1> QED BY <1>5, <1>6

\* An accepted append, new or replayed, leaves its batch in the log.
LEMMA AppendMoves ==
  ASSUME StoreOK, NEW p \in Principal, NEW t \in Token, NEW e \in Nat, NEW b \in BoundedBatch,
         append_events(p, s0, t, e, b, b)
  PROVE  Moves /\ \A i \in 1..Len(b) : b[i] \in events'[K(p)]
<1> DEFINE k == K(p)
<1>k. k \in Key
  BY KType
<1>1. Inv'
  BY AppendInv, BoundedBatchType DEF StoreOK
<1>2. row \in [Key -> Row] /\ events \in [Key -> SUBSET Event]
  BY DEF StoreOK, Inv, TypeOK
<1>3. row' = [row EXCEPT ![k] = [row[k] EXCEPT !.count = row[k].count + Len(b)]]
  BY DEF append_events, K
<1>4. row[k] \in Row /\ row'[k] = [row[k] EXCEPT !.count = row[k].count + Len(b)]
  BY <1>2, <1>3, <1>k
<1>5. row'[k].epoch = row[k].epoch /\ row'[k].actor = row[k].actor /\ row'[k].token = row[k].token
  BY <1>4 DEF Row
<1>6. events' = [events EXCEPT ![k] = events[k] \cup {b[i] : i \in 1..Len(b)}] /\ UNCHANGED grants
  BY DEF append_events, K
<1>7. \A i \in 1..Len(b) : b[i] \in events'[k]
  BY <1>6, <1>2, <1>k
<1>8. \A j \in Key : events[j] \subseteq events'[j]
  BY <1>6, <1>2, <1>k
<1>9. \A j \in Key \ {k} : row'[j] = row[j]
  BY <1>3, <1>2
<1>10. \A j \in Key : /\ row[j].epoch <= row'[j].epoch
                      /\ row'[j].actor # None => row[j].actor = row'[j].actor /\ row[j].token = row'[j].token
  BY <1>5, <1>9, RowFields
<1> QED BY <1>1, <1>6, <1>7, <1>8, <1>10, KeptGrants

-----------------------------------------------------------------------------
(* What the client reads.                                                  *)

\* A runtime calls as a principal.
LEMMA RuntimeIsPrincipal == Runtime \subseteq Principal
  OBVIOUS

\* An answer is a result.
LEMMA AnswerType ==
  ASSUME NEW p, NEW r, NEW t, NEW e
  PROVE  Answer(p, r, t, e) \in Results
<1>1. \A k : CreateResult(p, k) \in Results
  BY DEF CreateResult, Results
<1>2. \A k, x : OpenResult(p, k, x) \in Results
  BY DEF OpenResult, Results
<1>3. \A k : WriterResult(p, k, t, e) \in Results
  BY DEF WriterResult, Results
<1>4. \A k, id, b : AppendResult(p, k, t, e, id, b) \in Results
  BY <1>3 DEF AppendResult, Results
<1> QED BY <1>1, <1>2, <1>3, <1>4 DEF Answer

\* Which request gets which answer.
LEMMA AnswerOfKind ==
  ASSUME NEW p, NEW r, NEW t, NEW e
  PROVE  /\ r.kind = "append" => Answer(p, r, t, e) = AppendResult(p, K(p), t, e, r.batch, r.batch)
         /\ r.kind = "create" => Answer(p, r, t, e) = CreateResult(p, K(p))
         /\ r.kind \in {"open", "takeover"} => Answer(p, r, t, e) = OpenResult(p, K(p), r.expected)
         /\ r.kind \in {"flush", "release", "heartbeat"} => Answer(p, r, t, e) = WriterResult(p, K(p), t, e)
  BY DEF Answer

\* Whatever request the server executes, the store moves as its own steps do.
LEMMA ServeMoves ==
  ASSUME StoreOK, NEW p \in Principal, NEW r \in CallRec, Sendable(r), NEW t, NEW e \in Nat,
         r.kind \in OpKinds \cup {"heartbeat"} => t \in Token, Serve(p, r, t, e)
  PROVE  Moves
<1>1. CASE UNCHANGED vars
  BY <1>1, StandsStill
<1>2. CASE Execute(p, r, t, e)
  <2>1. CASE r.kind = "create" /\ create_session(p, s0, NewToken)
    BY <2>1, CreateMoves
  <2>2. CASE open_handle(p, s0, r.expected, NewToken)
    BY <2>2, OpenMoves
  <2>3. CASE r.kind = "append" /\ append_events(p, s0, t, e, r.batch, r.batch)
    BY <2>3, AppendMoves DEF Sendable, OpKinds
  <2>4. CASE r.kind = "heartbeat" /\ heartbeat(p, s0, t, e)
    BY <2>4, WriterMoves
  <2>5. CASE r.kind = "release" /\ release(p, s0, t, e)
    BY <2>5, WriterMoves DEF OpKinds
  <2> QED BY <1>2, <2>1, <2>2, <2>3, <2>4, <2>5 DEF Execute
<1> QED BY <1>1, <1>2 DEF Serve

\* An append answered well is in the log, whether it was just committed or replayed.
LEMMA AppendServed ==
  ASSUME StoreOK, NEW p \in Principal, NEW r \in CallRec, Sendable(r), r.kind = "append",
         NEW t \in Token, NEW e \in Nat, Serve(p, r, t, e), Answer(p, r, t, e) \in {"OK", "REPLAY"}
  PROVE  \A i \in 1..Len(r.batch) : r.batch[i] \in events'[K(p)]
<1>k. K(p) \in Key
  BY KType
<1>1. CASE Answer(p, r, t, e) = "OK"
  <2>1. append_events(p, s0, t, e, r.batch, r.batch)
    BY <1>1 DEF Serve, Execute
  <2> QED BY <2>1, AppendMoves DEF Sendable
<1>2. CASE Answer(p, r, t, e) = "REPLAY"
  <2>1. UNCHANGED events
    BY <1>2 DEF Serve, vars
  <2>2. AppendResult(p, K(p), t, e, r.batch, r.batch) = "REPLAY"
    BY <1>2, AnswerOfKind
  <2>3. PICK q \in Recorded(K(p), e, r.batch) : q.digest = r.batch
    BY <2>2 DEF AppendResult, WriterResult
  <2>4. q \in batches[K(p)]
    BY <2>3 DEF Recorded
  <2>5. \A i \in 1..Len(q.digest) : q.digest[i] \in events[K(p)]
    BY <2>4, <1>k DEF StoreOK, Inv, ReceiptsInLog
  <2> QED BY <2>1, <2>3, <2>5
<1> QED BY <1>1, <1>2

\* Opening a session that succeeds is a new grant.
LEMMA OpenServed ==
  ASSUME StoreOK, NEW p \in Principal, NEW r \in CallRec, r.kind \in OpenKinds,
         NEW t, NEW e, Serve(p, r, t, e), Answer(p, r, t, e) = "OK"
  PROVE  Grants(K(p), NewToken)
<1>1. \/ r.kind = "create" /\ create_session(p, s0, NewToken)
      \/ open_handle(p, s0, r.expected, NewToken)
  BY DEF Serve, Execute, OpenKinds
<1> QED BY <1>1, CreateMoves, OpenMoves

\* The answered call is the request with its answer.
Answers(c, r, a) ==
  /\ c.kind = r.kind /\ c.batch = r.batch /\ c.state = "done" /\ c.result = a

\* A request the server answered is still the request that was sent.
LEMMA AnsweredCall ==
  ASSUME StoreOK, StoreOK', NEW p \in Principal, NEW r \in CallRec, Sendable(r), NEW t, NEW e
  PROVE  \E c \in CallRec :
           /\ c = Answered(p, r, t, e)
           /\ Answers(c, r, Answer(p, r, t, e))
           /\ r.kind \in OpenKinds => c.epoch = row'[K(p)].epoch /\ c.token = row'[K(p)].token
<1> DEFINE k == K(p)
<1>k. k \in Key
  BY KType
<1>1. row'[k].epoch \in Nat /\ row'[k].token \in Token \cup {None}
  BY <1>k, RowType DEF StoreOK, Inv, TypeOK
<1>2. row[k].count \in Nat
  BY <1>k, RowFields
<1>3. r.kind = "append" => AppendNextSeq(k, e, r.batch, r.batch) \in Nat
  <2> HAVE r.kind = "append"
  <2>1. Len(r.batch) \in Nat
    <3>1. r.batch \in Seq(Event)
      BY DEF CallRec
    <3> QED BY <3>1
  <2>2. CASE Recorded(k, e, r.batch) = {}
    BY <2>1, <2>2, <1>2 DEF AppendNextSeq
  <2>3. CASE Recorded(k, e, r.batch) # {}
    <3>1. PICK q : q = CHOOSE x \in Recorded(k, e, r.batch) : TRUE
      OBVIOUS
    <3>2. q \in Recorded(k, e, r.batch)
      BY <3>1, <2>3
    <3>3. q \in BatchRow
      BY <3>2, <1>k DEF Recorded, StoreOK, Inv, TypeOK
    <3>4. q.next \in Nat
      BY <3>3 DEF BatchRow
    <3> QED BY <3>1, <3>4, <2>3 DEF AppendNextSeq
  <2> QED BY <2>2, <2>3
<1> DEFINE n == CASE r.kind = "append" -> AppendNextSeq(k, e, r.batch, r.batch)
                  [] Opens(r) -> row[k].count
                  [] OTHER -> 0
           ep == IF Opens(r) THEN row'[k].epoch ELSE 0
           tk == IF Opens(r) THEN row'[k].token ELSE None
           a == Answer(p, r, t, e)
           c == [r EXCEPT !.state = "done", !.result = a, !.next = n, !.epoch = ep, !.token = tk]
<1>4. n \in Nat
  <2>1. Opens(r) => r.kind # "append"
    BY DEF Opens
  <2> QED BY <1>2, <1>3, <2>1
<1>5. ep \in Nat /\ tk \in Token \cup {None} /\ a \in Results
  BY <1>1, AnswerType
<1>6. c = Answered(p, r, t, e)
  BY DEF Answered
<1>7. r.kind \in OpenKinds => ep = row'[k].epoch /\ tk = row'[k].token
  BY DEF OpenKinds, Opens
<1> HIDE DEF n, ep, tk, a, k
<1>8. c \in CallRec
  BY <1>4, <1>5 DEF CallRec
<1>9. Answers(c, r, a) /\ c.epoch = ep /\ c.token = tk
  BY DEF Answers, CallRec
<1> QED BY <1>6, <1>7, <1>8, <1>9 DEF a, k

-----------------------------------------------------------------------------
(* Steps of the handles: what each must keep.                              *)

\* The handle ended without being told of a loss.
Ended(x) == x.phase \in {"closed", "dead"} /\ ~x.lost

\* The same tenure, which may only come nearer to its end.
Continues(x, y) ==
  /\ y.rt = x.rt /\ y.token = x.token /\ y.epoch = x.epoch
  /\ y.phase = "open" => x.phase = "open"
  /\ Ended(x) => Ended(y)

\* What a handle shares with the store holds after the store and the handle moved.
LEMMA SharedStep ==
  ASSUME StoreOK, Moves, NEW h, NEW x \in HandleRec, NEW y \in HandleRec,
         SharedOK(h, x), Continues(x, y), AnswerIsTrue(y)', PrefixDurable(h, y)',
         y.phase = "open" /\ writers[x.rt] = h => writers'[x.rt] = h
  PROVE  SharedOK(h, y)'
<1> DEFINE k == K(x.rt)
<1>k. k \in Key /\ x.epoch \in Nat /\ K(y.rt) = k
  <2>1. x.rt \in Principal /\ x.epoch \in Nat
    BY DEF HandleRec
  <2> QED BY <2>1, KType DEF Continues
<1>1. PICK g \in grants : g.token = x.token /\ g.epoch = x.epoch /\ g.key = k
  BY DEF SharedOK, Granted
<1>2. Granted(y.token, y.epoch, K(y.rt))'
  <2>1. g \in grants' /\ g.token = y.token /\ g.epoch = y.epoch /\ g.key = K(y.rt)
    BY <1>1, <1>k DEF Continues, Moves
  <2> QED BY <2>1 DEF Granted, K, KeyOf
<1>3. x.epoch <= row[k].epoch
  BY <1>1 DEF StoreOK, GrantsBounded
<1>4. row[k].epoch <= row'[k].epoch /\ row[k].epoch \in Nat /\ row'[k].epoch \in Nat
  BY <1>k, RowFields, RowType DEF Moves, StoreOK, Inv, TypeOK
<1>5. RoutedIfCurrent(h, y)'
  <2> SUFFICES ASSUME y.phase = "open", y.epoch = row'[k].epoch PROVE writers'[y.rt] = h
    BY <1>k DEF RoutedIfCurrent, K, KeyOf
  <2>1. x.phase = "open" /\ x.epoch = row[k].epoch
    BY <1>3, <1>4, <1>k DEF Continues
  <2>2. writers[x.rt] = h
    BY <2>1 DEF SharedOK, RoutedIfCurrent
  <2> QED BY <2>2 DEF Continues
<1> QED BY <1>2, <1>5 DEF SharedOK

\* A handle that does not change keeps what it knows while the store moves.
LEMMA SharedKept ==
  ASSUME StoreOK, Moves, NEW h, NEW x \in HandleRec, SharedOK(h, x),
         writers[x.rt] = h => writers'[x.rt] = h
  PROVE  SharedOK(h, x)'
<1>1. K(x.rt) \in Key
  <2>1. x.rt \in Principal
    BY DEF HandleRec
  <2> QED BY <2>1, KType
<1>2. events[K(x.rt)] \subseteq events'[K(x.rt)]
  BY <1>1 DEF Moves
<1>3. AnswerIsTrue(x)'
  BY <1>2 DEF SharedOK, AnswerIsTrue, K, KeyOf
<1>4. PrefixDurable(h, x)'
  BY <1>2 DEF SharedOK, PrefixDurable, Covered, K, KeyOf
<1>5. Continues(x, x)
  BY DEF Continues
<1> QED BY <1>3, <1>4, <1>5, SharedStep

\* A fact of the new record of a handle is a fact of the handle in the next state.
LEMMA PrimedHandle ==
  ASSUME NEW h, NEW y, y = hs'[h], HandleOK(h, y)'
  PROVE  HandleOK(h, hs[h])'
<1>1. PendingOwn(h, hs[h])' /\ NothingSkipped(hs[h])' /\ AppendIsPrefix(h, hs[h])'
  <2>1. PendingOwn(h, y) /\ NothingSkipped(y) /\ AppendIsPrefix(h, y)
    BY DEF HandleOK, LocalOK
  <2> QED BY <2>1 DEF PendingOwn, NothingSkipped, AppendIsPrefix
<1>2. FlushCovers(hs[h])' /\ CloseIsJoined(hs[h])' /\ ReleasedIsOver(hs[h])' /\ SlotsOK(hs[h])'
  <2>1. FlushCovers(y) /\ CloseIsJoined(y) /\ ReleasedIsOver(y) /\ SlotsOK(y)
    BY DEF HandleOK, LocalOK
  <2> QED BY <2>1 DEF FlushCovers, Covered, CloseIsJoined, ReleasedIsOver, SlotsOK, Sendable
<1>3. Granted(hs[h].token, hs[h].epoch, K(hs[h].rt))' /\ AnswerIsTrue(hs[h])'
  <2>1. Granted(y.token, y.epoch, K(y.rt))' /\ AnswerIsTrue(y)'
    BY DEF HandleOK, SharedOK
  <2> QED BY <2>1 DEF Granted, AnswerIsTrue, K, KeyOf
<1>4. PrefixDurable(h, hs[h])' /\ RoutedIfCurrent(h, hs[h])'
  <2>1. PrefixDurable(h, y)' /\ RoutedIfCurrent(h, y)'
    BY DEF HandleOK, SharedOK
  <2> QED BY <2>1 DEF PrefixDurable, Covered, RoutedIfCurrent, K, KeyOf
<1> QED BY <1>1, <1>2, <1>3, <1>4 DEF HandleOK, LocalOK, SharedOK

\* What the invariant says of one handle.
LEMMA HandleAt ==
  ASSUME ProtocolInv, NEW h \in 1..Len(hs)
  PROVE  /\ hs[h] \in HandleRec /\ HandleOK(h, hs[h])
         /\ hs[h].rt \in Runtime /\ hs[h].token \in Token /\ hs[h].epoch \in Nat
<1>1. hs[h] \in HandleRec
  BY DEF ProtocolInv, ProtocolTypeOK
<1> QED BY <1>1 DEF ProtocolInv, HandlesOK, HandleRec

\* The runtimes' tables in a step that adopts no handle: a request is only forgotten.
RestOK ==
  /\ writers' \in [Runtime -> Nat] /\ \A rt \in Runtime : writers'[rt] <= Len(hs)
  /\ takeovers' \in [Runtime -> Nat]
  /\ opening' \in [Runtime -> CallRec]
  /\ \A rt \in Runtime : opening'[rt] = opening[rt] \/ opening'[rt] = NoCall
  /\ resuming' \in [Runtime -> {"no", "requested", "resuming", "abandoned"}]
  /\ faults' \in Nat

\* The rest of the runtime, when it is left alone.
LEMMA RestKept ==
  ASSUME ProtocolInv, UNCHANGED <<writers, takeovers, opening, resuming, faults>>
  PROVE  RestOK
  BY DEF ProtocolInv, ProtocolTypeOK, RestOK

\* A request that becomes a stray in this step.
StrayMade(q) ==
  /\ q \in StrayRec
  /\ Sendable(q.call)
  /\ q.call.kind \in OpKinds \cup {"heartbeat"} => q.token \in Token
  /\ q.call.kind = "release" => \E h \in 1..Len(hs) : hs'[h].token = q.token /\ Ended(hs'[h])

\* What becomes of one handle.
HandleMoves(h) == \E y \in HandleRec : y = hs'[h] /\ Continues(hs[h], y) /\ HandleOK(h, y)'

\* Steps that adopt no handle and open nothing preserve the invariant handle by handle.
LEMMA HandlesStep ==
  ASSUME ProtocolInv, Moves, RestOK, hs' \in Seq(HandleRec), Len(hs') = Len(hs),
         \A h \in 1..Len(hs) : HandleMoves(h),
         \A q \in strays' : q \in strays \/ StrayMade(q)
  PROVE  ProtocolInv'
<1>0. \A h \in 1..Len(hs) : hs'[h] \in HandleRec /\ Continues(hs[h], hs'[h])
  BY DEF HandleMoves
<1>1. HandlesOK'
  <2> SUFFICES ASSUME NEW h \in 1..Len(hs) PROVE HandleOK(h, hs[h])'
    BY DEF HandlesOK
  <2>1. PICK y \in HandleRec : y = hs'[h] /\ HandleOK(h, y)'
    BY DEF HandleMoves
  <2> QED BY <2>1, PrimedHandle
<1>2. HandlesDistinct'
  BY <1>0 DEF HandlesDistinct, ProtocolInv, Continues
<1>3. \A rt \in Runtime : Won(rt)' => Won(rt) /\ opening'[rt] = opening[rt]
  BY DEF Won, RestOK, NoCall
<1>4. OpeningsOK'
  <2> SUFFICES ASSUME NEW rt \in Runtime PROVE OpeningOK(rt)'
    BY DEF OpeningsOK
  <2>1. OpeningOK(rt)
    BY DEF ProtocolInv, OpeningsOK
  <2>2. (opening[rt] = NoCall \/ opening[rt].kind \in OpenKinds)'
    BY <2>1 DEF OpeningOK, RestOK, NoCall
  <2>3. ASSUME Won(rt)'
        PROVE  (/\ opening[rt].token \in Token
                /\ Granted(opening[rt].token, opening[rt].epoch, K(rt))
                /\ \A h \in 1..Len(hs) : /\ hs[h].token # opening[rt].token
                                         /\ hs[h].rt = rt => hs[h].epoch < opening[rt].epoch)'
    <3>1. Won(rt) /\ opening'[rt] = opening[rt]
      BY <2>3, <1>3
    <3>2. Granted(opening[rt].token, opening[rt].epoch, K(rt)) /\ opening[rt].token \in Token
      BY <3>1, <2>1 DEF OpeningOK
    <3>3. Granted(opening[rt].token, opening[rt].epoch, K(rt))'
      BY <3>1, <3>2 DEF Granted, Moves, K, KeyOf
    <3>4. \A h \in 1..Len(hs) : /\ hs[h].token # opening[rt].token
                                /\ hs[h].rt = rt => hs[h].epoch < opening[rt].epoch
      BY <3>1, <2>1 DEF OpeningOK
    <3>5. \A h \in 1..Len(hs) : hs'[h].token = hs[h].token /\ hs'[h].rt = hs[h].rt /\ hs'[h].epoch = hs[h].epoch
      BY <1>0 DEF Continues
    <3> QED BY <3>1, <3>2, <3>3, <3>4, <3>5
  <2> QED BY <2>2, <2>3 DEF OpeningOK
<1>5. OpeningsDistinct'
  BY <1>3 DEF OpeningsDistinct, ProtocolInv
<1>6. StraysOK'
  <2> SUFFICES ASSUME NEW q \in strays' PROVE StrayOK(q)'
    BY DEF StraysOK
  <2>1. CASE StrayMade(q)
    BY <2>1 DEF StrayMade, StrayOK, Ended, Sendable
  <2>2. CASE q \in strays
    <3>1. StrayOK(q)
      BY <2>2 DEF ProtocolInv, StraysOK
    <3>2. q.call.kind = "release" => \E h \in 1..Len(hs) : hs'[h].token = q.token /\ Ended(hs'[h])
      BY <3>1, <1>0 DEF StrayOK, Ended, Continues
    <3> QED BY <3>1, <3>2 DEF StrayOK, Ended, Sendable
  <2> QED BY <2>1, <2>2
<1>7. ProtocolTypeOK'
  BY DEF ProtocolTypeOK, ProtocolInv, RestOK, StrayMade
<1> QED BY <1>1, <1>2, <1>4, <1>5, <1>6, <1>7 DEF ProtocolInv, Moves

\* The steps of one handle; the runtimes' tables change for this handle only.
LEMMA OneHandle ==
  ASSUME ProtocolInv, Moves, RestOK, NEW h \in 1..Len(hs), NEW y \in HandleRec,
         hs' = [hs EXCEPT ![h] = y], Continues(hs[h], y), LocalOK(h, y),
         AnswerIsTrue(y)', PrefixDurable(h, y)',
         \A rt \in Runtime : writers[rt] # h => writers'[rt] = writers[rt],
         y.phase = "open" => UNCHANGED writers,
         \A q \in strays' : q \in strays \/ StrayMade(q)
  PROVE  ProtocolInv'
<1>1. hs \in Seq(HandleRec) /\ StoreOK
  BY DEF ProtocolInv, ProtocolTypeOK
<1>2. hs' \in Seq(HandleRec) /\ Len(hs') = Len(hs) /\ hs'[h] = y
  BY <1>1
<1>3. \A g \in 1..Len(hs) : g # h => hs'[g] = hs[g]
  BY <1>1
<1>4. HandleMoves(h)
  <2>1. SharedOK(h, hs[h]) /\ hs[h] \in HandleRec
    BY HandleAt DEF HandleOK
  <2>2. PICK x \in HandleRec : x = hs[h]
    BY <2>1
  <2>3. y.phase = "open" /\ writers[x.rt] = h => writers'[x.rt] = h
    OBVIOUS
  <2>4. SharedOK(h, y)'
    BY <2>1, <2>2, <2>3, <1>1, SharedStep
  <2>5. LocalOK(h, y)'
    BY DEF LocalOK, PendingOwn, NothingSkipped, AppendIsPrefix, FlushCovers, Covered, CloseIsJoined,
           ReleasedIsOver, SlotsOK, Sendable
  <2> QED BY <2>4, <2>5, <1>2 DEF HandleMoves, HandleOK
<1>5. ASSUME NEW g \in 1..Len(hs), g # h PROVE HandleMoves(g)
  <2>1. HandleOK(g, hs[g]) /\ hs[g].rt \in Runtime
    BY HandleAt
  <2>2. PICK x \in HandleRec : x = hs[g]
    BY HandleAt
  <2>3. writers[x.rt] = g => writers'[x.rt] = g
    BY <1>5, <2>1, <2>2
  <2>4. SharedOK(g, x)'
    BY <2>1, <2>2, <2>3, <1>1, SharedKept DEF HandleOK
  <2>5. LocalOK(g, x)'
    BY <2>1, <2>2 DEF HandleOK, LocalOK, PendingOwn, NothingSkipped, AppendIsPrefix,
           FlushCovers, CloseIsJoined, ReleasedIsOver, SlotsOK, Sendable
  <2>6. Continues(hs[g], x)
    BY <2>2 DEF Continues
  <2> QED BY <2>2, <2>4, <2>5, <2>6, <1>3, <1>5 DEF HandleMoves, HandleOK
<1> QED BY <1>2, <1>4, <1>5, HandlesStep

-----------------------------------------------------------------------------
(* Turns of the event loop: the store is not involved.                     *)

\* The fields of a handle.
LEMMA HandleFields ==
  ASSUME NEW x \in HandleRec
  PROVE  /\ x.rt \in Runtime /\ x.phase \in {"open", "closing", "closed", "dead"}
         /\ x.lost \in BOOLEAN /\ x.epoch \in Nat /\ x.token \in Token
         /\ x.start \in Nat /\ x.next \in Nat /\ x.produced \in Nat /\ x.ran \in Nat
         /\ x.pending \in Seq(Envelope) /\ x.timer \in BOOLEAN /\ x.ops \in Seq(OpRec)
         /\ x.call \in CallRec /\ x.beat \in CallRec /\ x.released \in BOOLEAN
         /\ x.dropped \in SUBSET Nat
  BY DEF HandleRec

\* A step of one handle that does not reach the server keeps the invariant.
LEMMA ClientStep ==
  ASSUME ProtocolInv, UNCHANGED vars, RestOK, NEW h \in 1..Len(hs), NEW y \in HandleRec,
         hs' = [hs EXCEPT ![h] = y], Continues(hs[h], y), LocalOK(h, y),
         AnswerIsTrue(y), PrefixDurable(h, y),
         \A rt \in Runtime : writers[rt] # h => writers'[rt] = writers[rt],
         y.phase = "open" => UNCHANGED writers,
         \A q \in strays' : q \in strays \/ StrayMade(q)
  PROVE  ProtocolInv'
<1>1. Moves
  BY StandsStill DEF ProtocolInv
<1>2. events' = events
  BY DEF vars
<1>3. AnswerIsTrue(y)' /\ PrefixDurable(h, y)'
  BY <1>2 DEF AnswerIsTrue, PrefixDurable, Covered, K, KeyOf
<1> QED BY <1>1, <1>3, OneHandle

\* Nothing but the handle changes, and it neither acknowledges nor reads an answer.
LEMMA QuietStep ==
  ASSUME ProtocolInv, UNCHANGED <<vars, writers, takeovers, opening, faults, strays>>,
         resuming' \in [Runtime -> {"no", "requested", "resuming", "abandoned"}],
         NEW h \in 1..Len(hs), NEW x \in HandleRec, x = hs[h], NEW y \in HandleRec,
         hs' = [hs EXCEPT ![h] = y], Continues(x, y), LocalOK(h, y),
         y.call = x.call \/ y.call.state # "done",
         y.start = x.start, y.next = x.next, Covered(y, y.ran)
  PROVE  ProtocolInv'
<1>1. SharedOK(h, x)
  BY HandleAt DEF HandleOK
<1>2. AnswerIsTrue(y)
  BY <1>1 DEF SharedOK, AnswerIsTrue, Continues
<1>3. PrefixDurable(h, y)
  BY <1>1 DEF SharedOK, PrefixDurable, Covered, Continues
<1>4. RestOK
  BY DEF ProtocolInv, ProtocolTypeOK, RestOK
<1>5. UNCHANGED vars /\ UNCHANGED strays /\ UNCHANGED writers
  OBVIOUS
<1> QED BY <1>2, <1>3, <1>4, <1>5, ClientStep

\* An operation joins the chain.
Joined(x, y, o) ==
  /\ o \in OpRec /\ o.mark = x.produced
  /\ y.ops = Append(x.ops, o)
  /\ y.pending = x.pending /\ y.next = x.next /\ y.produced = x.produced /\ y.dropped = x.dropped /\ y.start = x.start
  /\ y.call = x.call /\ y.beat = x.beat /\ y.lost = x.lost /\ y.released = x.released
  /\ y.phase = x.phase \/ (x.phase = "open" /\ y.phase = "closing")
  /\ o.name = "close" => y.phase # "open"

\* An operation that joins the queue of a handle leaves its events alone.
LEMMA JoinedLocal ==
  ASSUME NEW h, NEW x \in HandleRec, NEW y \in HandleRec, NEW o, Joined(x, y, o), LocalOK(h, x)
  PROVE  LocalOK(h, y)
<1>1. x.ops \in Seq(OpRec) /\ Len(x.ops) \in Nat /\ x.produced \in Nat
  BY HandleFields
<1>2. /\ Len(y.ops) = Len(x.ops) + 1
      /\ \A i \in 1..Len(x.ops) : y.ops[i] = x.ops[i]
      /\ y.ops[Len(x.ops) + 1] = o
  BY <1>1 DEF Joined
<1>3. \A i \in 1..Len(y.ops) : i \in 1..Len(x.ops) \/ i = Len(x.ops) + 1
  BY <1>1, <1>2
<1>4. PendingOwn(h, y) /\ AppendIsPrefix(h, y)
  BY DEF LocalOK, Joined, PendingOwn, AppendIsPrefix
<1>5. NothingSkipped(y)
  <2>1. \A i \in 1..Len(y.ops) : y.ops[i].mark <= y.produced
    BY <1>1, <1>2, <1>3 DEF Joined, LocalOK, NothingSkipped
  <2> QED BY <2>1 DEF Joined, LocalOK, NothingSkipped
<1>6. y.call.kind \in OpKinds => y.ops # << >> /\ x.ops # << >> /\ y.ops[1] = x.ops[1]
  <2>1. x.call.kind \in OpKinds => x.ops # << >>
    BY DEF LocalOK, FlushCovers, Covered
  <2>2. x.ops # << >> => Len(x.ops) > 0
    BY <1>1
  <2> QED BY <2>1, <2>2, <1>1, <1>2 DEF Joined
<1>7. FlushCovers(y)
  BY <1>6 DEF Joined, LocalOK, FlushCovers, Covered, OpKinds
<1>8. CloseIsJoined(y)
  <2>1. \A i \in 1..Len(y.ops) : y.ops[i].name = "close" => y.phase # "open"
    BY <1>2, <1>3 DEF Joined, LocalOK, CloseIsJoined
  <2> QED BY <2>1, <1>6 DEF Joined, LocalOK, CloseIsJoined, OpKinds
<1>9. ReleasedIsOver(y) /\ SlotsOK(y)
  BY DEF Joined, LocalOK, ReleasedIsOver, SlotsOK
<1> QED BY <1>4, <1>5, <1>7, <1>8, <1>9 DEF LocalOK

\* An operation joins the queue of a handle.
LEMMA JoinStep ==
  ASSUME ProtocolInv, UNCHANGED <<vars, writers, takeovers, opening, faults, strays>>,
         resuming' \in [Runtime -> {"no", "requested", "resuming", "abandoned"}],
         NEW h \in 1..Len(hs), NEW x \in HandleRec, x = hs[h], NEW y \in HandleRec, NEW o,
         hs' = [hs EXCEPT ![h] = y], Joined(x, y, o), Continues(x, y),
         y.start = x.start, y.ran = x.ran
  PROVE  ProtocolInv'
<1>1. LocalOK(h, x) /\ SharedOK(h, x)
  BY HandleAt DEF HandleOK
<1>2. LocalOK(h, y)
  BY <1>1, JoinedLocal
<1>3. y.call = x.call /\ y.next = x.next /\ Covered(y, y.ran)
  BY <1>1 DEF Joined, SharedOK, PrefixDurable, Covered
<1> QED BY <1>2, <1>3, QuietStep

\* flush, and a tool call that waits for one, are queued.
LEMMA QueueStep ==
  ASSUME ProtocolInv, NEW h \in 1..Len(hs), NEW name \in {"flush", "tool"}, Queue(h, name)
  PROVE  ProtocolInv'
<1>1. PICK x \in HandleRec : x = hs[h]
  BY HandleAt
<1>2. PICK o : o = [name |-> name, mark |-> x.produced]
  OBVIOUS
<1>3. o \in OpRec /\ o.mark = x.produced /\ o.name # "close"
  BY <1>2, HandleFields DEF OpRec
<1> DEFINE y == [x EXCEPT !.ops = Append(x.ops, o)]
<1>4. hs' = [hs EXCEPT ![h] = y]
  BY <1>1, <1>2 DEF Queue
<1>5. y \in HandleRec /\ Joined(x, y, o) /\ Continues(x, y) /\ y.start = x.start /\ y.ran = x.ran
  <2>1. Append(x.ops, o) \in Seq(OpRec)
    BY <1>3, HandleFields
  <2> QED BY <2>1, <1>3 DEF HandleRec, Joined, Continues, Ended
<1>6. UNCHANGED <<vars, writers, takeovers, opening, faults, strays>>
  BY DEF Queue
<1>7. resuming' \in [Runtime -> {"no", "requested", "resuming", "abandoned"}]
  BY DEF Queue, ProtocolInv, ProtocolTypeOK
<1> HIDE DEF y
<1> QED BY <1>1, <1>4, <1>5, <1>6, <1>7, JoinStep

\* A close is queued and no heartbeat starts after it.
LEMMA ClosingStep ==
  ASSUME ProtocolInv, UNCHANGED <<vars, writers, takeovers, opening, faults, strays>>,
         resuming' \in [Runtime -> {"no", "requested", "resuming", "abandoned"}],
         NEW h \in 1..Len(hs), hs[h].phase = "open", Closing(h)
  PROVE  ProtocolInv'
<1>1. PICK x \in HandleRec : x = hs[h]
  BY HandleAt
<1>2. PICK o : o = [name |-> "close", mark |-> x.produced]
  OBVIOUS
<1>3. o \in OpRec /\ o.mark = x.produced
  BY <1>2, HandleFields DEF OpRec
<1> DEFINE y == [x EXCEPT !.phase = "closing", !.ops = Append(x.ops, o)]
<1>4. hs' = [hs EXCEPT ![h] = y]
  <2>1. hs \in Seq(HandleRec)
    BY DEF ProtocolInv, ProtocolTypeOK
  <2> QED BY <1>1, <1>2, <2>1 DEF Closing, HandleRec
<1>5. y \in HandleRec /\ Joined(x, y, o) /\ Continues(x, y) /\ y.start = x.start /\ y.ran = x.ran
  <2>1. Append(x.ops, o) \in Seq(OpRec)
    BY <1>3, HandleFields
  <2> QED BY <2>1, <1>1, <1>3 DEF HandleRec, Joined, Continues, Ended
<1> HIDE DEF y
<1> QED BY <1>1, <1>4, <1>5, JoinStep

\* Nothing of what a handle knows by itself depends on its timer.
LEMMA TimerLocal ==
  ASSUME NEW h, NEW x \in HandleRec, LocalOK(h, x), NEW v \in BOOLEAN
  PROVE  LocalOK(h, [x EXCEPT !.timer = v])
<1>1. PICK y : y = [x EXCEPT !.timer = v]
  OBVIOUS
<1>2. /\ y.ops = x.ops /\ y.pending = x.pending /\ y.next = x.next /\ y.produced = x.produced /\ y.dropped = x.dropped /\ y.start = x.start
      /\ y.call = x.call /\ y.beat = x.beat /\ y.lost = x.lost /\ y.released = x.released
      /\ y.phase = x.phase
  BY <1>1 DEF HandleRec
<1>3. LocalOK(h, y)
  BY <1>2 DEF LocalOK, PendingOwn, NothingSkipped, AppendIsPrefix, FlushCovers, Covered, CloseIsJoined,
              ReleasedIsOver, SlotsOK
<1> QED BY <1>1, <1>3

\* The batch timer queues a drain.
LEMMA BatchTimerStep ==
  ASSUME ProtocolInv, NEW h \in 1..Len(hs), BatchTimer(h)
  PROVE  ProtocolInv'
<1>1. PICK x \in HandleRec : x = hs[h]
  BY HandleAt
<1>2. UNCHANGED <<vars, writers, takeovers, opening, faults, strays>>
  BY DEF BatchTimer
<1>3. resuming' \in [Runtime -> {"no", "requested", "resuming", "abandoned"}]
  BY DEF BatchTimer, ProtocolInv, ProtocolTypeOK
<1>4. hs \in Seq(HandleRec)
  BY DEF ProtocolInv, ProtocolTypeOK
<1>5. CASE x.phase = "open" /\ ~x.lost
  <2>2. PICK o : o = [name |-> "flush", mark |-> x.produced]
    OBVIOUS
  <2>3. o \in OpRec /\ o.mark = x.produced /\ o.name # "close"
    BY <2>2, HandleFields DEF OpRec
  <2> DEFINE y == [x EXCEPT !.timer = FALSE, !.ops = Append(x.ops, o)]
  <2>4. hs' = [hs EXCEPT ![h] = y]
    BY <1>1, <1>4, <1>5, <2>2 DEF BatchTimer, HandleRec
  <2>5. y \in HandleRec /\ Joined(x, y, o) /\ Continues(x, y) /\ y.start = x.start /\ y.ran = x.ran
    <3>1. Append(x.ops, o) \in Seq(OpRec)
      BY <2>3, HandleFields
    <3> QED BY <3>1, <2>3 DEF HandleRec, Joined, Continues, Ended
  <2> HIDE DEF y
  <2> QED BY <1>1, <1>2, <1>3, <2>4, <2>5, JoinStep
<1>6. CASE ~(x.phase = "open" /\ ~x.lost)
  <2> DEFINE y == [x EXCEPT !.timer = FALSE]
  <2>1. hs' = [hs EXCEPT ![h] = y]
    BY <1>1, <1>4, <1>6 DEF BatchTimer, HandleRec
  <2>2. y \in HandleRec /\ Continues(x, y) /\ y.start = x.start /\ y.ran = x.ran
        /\ y.call = x.call /\ y.next = x.next /\ y.dropped = x.dropped
    BY DEF HandleRec, Continues, Ended
  <2>3. LocalOK(h, x) /\ Covered(x, x.ran)
    BY <1>1, HandleAt DEF HandleOK, SharedOK, PrefixDurable, Covered
  <2>4. LocalOK(h, y)
    BY <2>3, TimerLocal
  <2>5. Covered(y, y.ran)
    BY <2>2, <2>3 DEF Covered
  <2> HIDE DEF y
  <2> QED BY <1>1, <1>2, <1>3, <2>1, <2>2, <2>4, <2>5, QuietStep
<1> QED BY <1>5, <1>6

\* An event is retained behind the others.
LEMMA RetainLocal ==
  ASSUME NEW h, NEW x \in HandleRec, NEW y \in HandleRec, NEW ev \in Envelope, LocalOK(h, x),
         ev.seq = x.produced, ev.body = h, x.phase = "open",
         y.pending = Append(x.pending, ev), y.produced = x.produced + 1, y.dropped = x.dropped,
         y.start = x.start, y.next = x.next, y.call = x.call, y.ops = x.ops, y.phase = x.phase,
         y.beat = x.beat, y.lost = x.lost, y.released = x.released
  PROVE  LocalOK(h, y)
<1>1. x.pending \in Seq(Envelope) /\ x.produced \in Nat /\ x.next \in Nat /\ Len(x.pending) \in Nat
      /\ x.start \in Nat
  BY HandleFields
<1>2. PICK p \in Seq(Envelope) : p = x.pending
  BY <1>1
<1>3. PICK q \in Seq(Envelope) : q = Append(p, ev)
  <2>1. Append(p, ev) \in Seq(Envelope)
    OBVIOUS
  <2> QED BY <2>1, Zenon
<1>4. /\ Len(p) \in Nat /\ Len(q) = Len(p) + 1 /\ q[Len(p) + 1] = ev
      /\ \A i \in 1..Len(p) : q[i] = p[i]
  BY <1>3
<1>5. y.pending = q
  BY <1>2, <1>3
<1>6. PendingOwn(h, y)
  <2> SUFFICES ASSUME NEW i \in 1..Len(q) PROVE q[i].body = h
    BY <1>5 DEF PendingOwn
  <2>1. CASE i \in 1..Len(p)
    BY <2>1, <1>2, <1>4 DEF LocalOK, PendingOwn
  <2>2. CASE i = Len(p) + 1
    BY <2>2, <1>4
  <2> QED BY <2>1, <2>2, <1>4
<1>7. NothingSkipped(y)
  <2>1. ASSUME NEW n \in x.start..(x.produced + 1 - 1)
        PROVE  n < x.next \/ n \in x.dropped \/ \E i \in 1..Len(q) : q[i].seq = n
    <3>1. CASE n = x.produced
      <4>1. Len(p) + 1 \in 1..Len(q) /\ q[Len(p) + 1].seq = n
        BY <3>1, <1>4
      <4> QED BY <4>1
    <3>2. CASE n \in x.start..(x.produced - 1)
      <4>1. n < x.next \/ n \in x.dropped \/ \E i \in 1..Len(p) : p[i].seq = n
        BY <3>2, <1>2 DEF LocalOK, NothingSkipped
      <4>2. \A i \in 1..Len(p) : i \in 1..Len(q) /\ q[i].seq = p[i].seq
        BY <1>4
      <4> QED BY <4>1, <4>2
    <3> QED BY <3>1, <3>2, <1>1
  <2>2. \A i \in 1..Len(y.ops) : y.ops[i].mark <= y.produced
    <3> SUFFICES ASSUME NEW i \in 1..Len(x.ops) PROVE x.ops[i].mark <= x.produced + 1
      OBVIOUS
    <3>1. x.ops[i] \in OpRec
      BY HandleFields
    <3>2. x.ops[i].mark \in Nat
      BY <3>1 DEF OpRec
    <3>3. x.ops[i].mark <= x.produced
      BY DEF LocalOK, NothingSkipped
    <3> QED BY <3>2, <3>3, <1>1
  <2>3. ASSUME NEW n \in y.start..(y.produced - 1)
        PROVE  n < y.next \/ n \in y.dropped \/ \E i \in 1..Len(y.pending) : y.pending[i].seq = n
    <3>1. n \in x.start..(x.produced + 1 - 1)
      BY <1>1
    <3>2. n < x.next \/ n \in x.dropped \/ \E i \in 1..Len(q) : q[i].seq = n
      BY <2>1, <3>1
    <3> QED BY <3>2, <1>5
  <2> QED BY <2>2, <2>3 DEF NothingSkipped
<1>8. AppendIsPrefix(h, y)
  <2> SUFFICES ASSUME x.call.kind = "append"
               PROVE  /\ Len(x.call.batch) <= Len(q)
                      /\ \A i \in 1..Len(x.call.batch) :
                           /\ x.call.batch[i] = q[i]
                           /\ x.call.batch[i] = [seq |-> x.next + i - 1, body |-> h]
    BY <1>5 DEF AppendIsPrefix
  <2>1. Len(x.call.batch) \in Nat
    <3>1. x.call.batch \in Seq(Event)
      BY HandleFields DEF CallRec
    <3> QED BY <3>1
  <2>2. /\ Len(x.call.batch) <= Len(p)
        /\ \A i \in 1..Len(x.call.batch) :
             /\ x.call.batch[i] = p[i]
             /\ x.call.batch[i] = [seq |-> x.next + i - 1, body |-> h]
    BY <1>2 DEF LocalOK, AppendIsPrefix
  <2>3. \A i \in 1..Len(x.call.batch) : q[i] = p[i]
    BY <2>1, <2>2, <1>4
  <2> QED BY <2>1, <2>2, <2>3, <1>4
<1>9. FlushCovers(y) /\ CloseIsJoined(y) /\ ReleasedIsOver(y) /\ SlotsOK(y)
  BY DEF LocalOK, FlushCovers, Covered, CloseIsJoined, ReleasedIsOver, SlotsOK
<1> QED BY <1>6, <1>7, <1>8, <1>9 DEF LocalOK

\* An event that enqueue refuses is remembered as such and changes nothing else.
LEMMA RefuseLocal ==
  ASSUME NEW h, NEW x \in HandleRec, NEW y \in HandleRec, LocalOK(h, x),
         y.pending = x.pending, y.produced = x.produced + 1,
         y.dropped = x.dropped \cup {x.produced},
         y.start = x.start, y.next = x.next, y.call = x.call, y.ops = x.ops, y.phase = x.phase,
         y.beat = x.beat, y.lost = x.lost, y.released = x.released
  PROVE  LocalOK(h, y)
<1>1. x.produced \in Nat /\ x.next \in Nat /\ x.start \in Nat
  BY HandleFields
<1>2. PendingOwn(h, y) /\ AppendIsPrefix(h, y)
  BY DEF LocalOK, PendingOwn, AppendIsPrefix
<1>3. NothingSkipped(y)
  <2>1. ASSUME NEW n \in x.start..(x.produced + 1 - 1), x.phase \in {"open", "closing"}
        PROVE  n < x.next \/ n \in y.dropped \/ \E i \in 1..Len(x.pending) : x.pending[i].seq = n
    <3>1. CASE n = x.produced
      BY <3>1
    <3>2. CASE n \in x.start..(x.produced - 1)
      BY <3>2, <2>1 DEF LocalOK, NothingSkipped
    <3> QED BY <3>1, <3>2, <1>1
  <2>2. \A i \in 1..Len(y.ops) : y.ops[i].mark <= y.produced
    <3> SUFFICES ASSUME NEW i \in 1..Len(x.ops) PROVE x.ops[i].mark <= x.produced + 1
      OBVIOUS
    <3>1. x.ops[i] \in OpRec
      BY HandleFields
    <3>2. x.ops[i].mark \in Nat
      BY <3>1 DEF OpRec
    <3>3. x.ops[i].mark <= x.produced
      BY DEF LocalOK, NothingSkipped
    <3> QED BY <3>2, <3>3, <1>1
  <2>3. ASSUME NEW n \in y.start..(y.produced - 1), y.phase \in {"open", "closing"}
        PROVE  n < y.next \/ n \in y.dropped \/ \E i \in 1..Len(y.pending) : y.pending[i].seq = n
    <3>1. n \in x.start..(x.produced + 1 - 1) /\ x.phase \in {"open", "closing"}
      BY <1>1, <2>3
    <3>2. n < x.next \/ n \in y.dropped \/ \E i \in 1..Len(x.pending) : x.pending[i].seq = n
      BY <2>1, <3>1
    <3> QED BY <3>2
  <2> QED BY <2>2, <2>3 DEF NothingSkipped
<1>4. FlushCovers(y) /\ CloseIsJoined(y) /\ ReleasedIsOver(y) /\ SlotsOK(y)
  BY DEF LocalOK, FlushCovers, Covered, CloseIsJoined, ReleasedIsOver, SlotsOK
<1> QED BY <1>2, <1>3, <1>4 DEF LocalOK

\* A committed event reaches the handle: it is retained or refused.
LEMMA EnqueueStep ==
  ASSUME ProtocolInv, NEW rt \in Runtime, enqueue(rt)
  PROVE  ProtocolInv'
<1>1. PICK h \in 1..Len(hs) : h = writers[rt]
  BY DEF enqueue, ProtocolInv, ProtocolTypeOK
<1>2. PICK x \in HandleRec : x = hs[h]
  BY HandleAt
<1>3. h \in Body /\ x.produced < MaxEvents
  BY <1>1, <1>2 DEF enqueue, Handle, ProtocolInv, ProtocolTypeOK
<1>4. LocalOK(h, x) /\ Covered(x, x.ran)
  BY <1>2, HandleAt DEF HandleOK, SharedOK, PrefixDurable
<1>5. x.pending \in Seq(Envelope) /\ x.produced \in Nat /\ x.dropped \in SUBSET Nat
  BY HandleFields
<1>6. hs \in Seq(HandleRec)
  BY DEF ProtocolInv, ProtocolTypeOK
<1>7. UNCHANGED <<vars, writers, takeovers, opening, faults, strays>>
  BY DEF enqueue
<1>8. resuming' \in [Runtime -> {"no", "requested", "resuming", "abandoned"}]
  BY DEF enqueue, ProtocolInv, ProtocolTypeOK
<1>9. PICK n \in Nat : n = x.produced + 1
  BY <1>5
<1>10. CASE /\ x.phase = "open"
            /\ hs' = [hs EXCEPT ![h].pending = Append(@, [seq |-> x.produced, body |-> h]),
                                ![h].produced = @ + 1, ![h].timer = TRUE]
  <2>1. PICK ev \in Envelope : ev = [seq |-> x.produced, body |-> h]
    <3>1. x.produced \in 0..(MaxEvents - 1)
      BY <1>3, <1>5
    <3>2. [seq |-> x.produced, body |-> h] \in Envelope
      BY <1>3, <3>1 DEF Envelope
    <3> QED BY <3>2
  <2>2. PICK p \in Seq(Envelope) : p = Append(x.pending, ev)
    <3>1. Append(x.pending, ev) \in Seq(Envelope)
      BY <1>5
    <3> QED BY <3>1, Zenon
  <2>3. PICK y \in HandleRec : y = [x EXCEPT !.pending = p, !.produced = n, !.timer = TRUE]
    BY DEF HandleRec
  <2>4. hs' = [hs EXCEPT ![h] = y]
    <3>1. hs' = [hs EXCEPT ![h] = [hs[h] EXCEPT !.pending = Append(hs[h].pending, ev),
                                                !.produced = hs[h].produced + 1, !.timer = TRUE]]
      BY <1>6, <1>10, <2>1 DEF HandleRec
    <3> QED BY <3>1, <1>2, <1>9, <2>2, <2>3
  <2>5. Continues(x, y) /\ y.start = x.start /\ y.ran = x.ran
       /\ y.call = x.call /\ y.next = x.next /\ y.ops = x.ops /\ y.phase = x.phase
       /\ y.beat = x.beat /\ y.lost = x.lost /\ y.released = x.released /\ y.pending = p
       /\ y.produced = n /\ y.dropped = x.dropped
    BY <2>3 DEF HandleRec, Continues, Ended
  <2>6. ev.seq = x.produced /\ ev.body = h
    BY <2>1
  <2>7. LocalOK(h, y)
    BY <1>4, <1>9, <1>10, <2>2, <2>5, <2>6, RetainLocal
  <2>8. Covered(y, y.ran)
    BY <1>4, <2>5 DEF Covered
  <2> QED BY <1>2, <1>7, <1>8, <2>4, <2>5, <2>7, <2>8, QuietStep
<1>11. CASE hs' = [hs EXCEPT ![h].produced = @ + 1, ![h].dropped = @ \cup {x.produced}]
  <2>1. PICK d \in SUBSET Nat : d = x.dropped \cup {x.produced}
    BY <1>5
  <2>2. PICK y \in HandleRec : y = [x EXCEPT !.produced = n, !.dropped = d]
    BY DEF HandleRec
  <2>3. hs' = [hs EXCEPT ![h] = y]
    BY <1>2, <1>6, <1>9, <1>11, <2>1, <2>2 DEF HandleRec
  <2>4. Continues(x, y) /\ y.start = x.start /\ y.ran = x.ran
       /\ y.call = x.call /\ y.next = x.next /\ y.ops = x.ops /\ y.phase = x.phase
       /\ y.beat = x.beat /\ y.lost = x.lost /\ y.released = x.released /\ y.pending = x.pending
       /\ y.produced = n /\ y.dropped = d
    BY <2>2 DEF HandleRec, Continues, Ended
  <2>5. LocalOK(h, y)
    BY <1>4, <1>9, <2>1, <2>4, RefuseLocal
  <2>6. Covered(y, y.ran)
    BY <1>4, <2>1, <2>4 DEF Covered
  <2> QED BY <1>2, <1>7, <1>8, <2>3, <2>4, <2>5, <2>6, QuietStep
<1> QED BY <1>1, <1>2, <1>10, <1>11 DEF enqueue, Refuses

-----------------------------------------------------------------------------
(* The renewals.                                                           *)

\* The renewal slot and the handle's belief change, and nothing else.
Renews(x, y) ==
  /\ y.ops = x.ops /\ y.pending = x.pending /\ y.next = x.next /\ y.produced = x.produced /\ y.dropped = x.dropped /\ y.start = x.start
  /\ y.call = x.call /\ y.phase = x.phase /\ y.released = x.released
  /\ y.rt = x.rt /\ y.token = x.token /\ y.epoch = x.epoch /\ y.start = x.start /\ y.ran = x.ran

\* A heartbeat that starts or ends leaves the events of its handle alone.
LEMMA RenewLocal ==
  ASSUME NEW h, NEW x \in HandleRec, NEW y \in HandleRec, LocalOK(h, x), Renews(x, y),
         x.phase \in {"open", "closing"},
         y.beat = NoCall \/ (y.beat.kind = "heartbeat" /\ (x.phase = "open" \/ x.beat # NoCall)),
         y.lost = x.lost \/ x.beat # NoCall
  PROVE  LocalOK(h, y)
<1>1. PendingOwn(h, y) /\ NothingSkipped(y) /\ AppendIsPrefix(h, y) /\ FlushCovers(y)
  BY DEF Renews, LocalOK, PendingOwn, NothingSkipped, AppendIsPrefix, FlushCovers, Covered
<1>2. SlotsOK(y)
  BY DEF Renews, LocalOK, SlotsOK
<1>3. x.call.kind = "release" => x.beat = NoCall
  BY DEF LocalOK, CloseIsJoined, OpKinds
<1>4. x.phase = "open" /\ x.call.kind \in OpKinds => x.ops[1].name # "close"
  <2> SUFFICES ASSUME x.phase = "open", x.call.kind \in OpKinds PROVE x.ops[1].name # "close"
    OBVIOUS
  <2>1. x.ops # << >> /\ x.ops \in Seq(OpRec)
    BY HandleFields DEF LocalOK, FlushCovers, Covered
  <2>2. 1 \in 1..Len(x.ops)
    BY <2>1
  <2> QED BY <2>2 DEF LocalOK, CloseIsJoined
<1>5. CloseIsJoined(y)
  <2>1. x.call.kind \in OpKinds /\ x.ops[1].name = "close" => y.beat = NoCall
    BY <1>4 DEF LocalOK, CloseIsJoined
  <2>2. x.call.kind = "release" => x.ops[1].name = "close" /\ ~y.lost
    BY <1>3 DEF LocalOK, CloseIsJoined
  <2> QED BY <2>1, <2>2 DEF Renews, LocalOK, CloseIsJoined
<1>6. ReleasedIsOver(y)
  <2>1. x.released => x.call.kind = "release" /\ ~x.lost
    BY DEF LocalOK, ReleasedIsOver
  <2> QED BY <2>1, <1>3 DEF Renews, LocalOK, ReleasedIsOver
<1> QED BY <1>1, <1>2, <1>5, <1>6 DEF LocalOK

\* A heartbeat starts or ends.
LEMMA RenewStep ==
  ASSUME ProtocolInv, UNCHANGED <<vars, writers, takeovers, opening, resuming>>, RestOK,
         NEW h \in 1..Len(hs), NEW x \in HandleRec, x = hs[h], NEW y \in HandleRec,
         hs' = [hs EXCEPT ![h] = y], Renews(x, y), x.phase \in {"open", "closing"},
         y.beat = NoCall \/ (y.beat.kind = "heartbeat" /\ (x.phase = "open" \/ x.beat # NoCall)),
         y.lost = x.lost \/ x.beat # NoCall,
         \A q \in strays' : q \in strays \/ StrayMade(q)
  PROVE  ProtocolInv'
<1>1. LocalOK(h, x) /\ SharedOK(h, x)
  BY HandleAt DEF HandleOK
<1>2. LocalOK(h, y)
  BY <1>1, RenewLocal
<1>3. AnswerIsTrue(y) /\ PrefixDurable(h, y)
  BY <1>1 DEF SharedOK, AnswerIsTrue, PrefixDurable, Covered, Renews
<1>4. Continues(x, y)
  BY DEF Continues, Renews, Ended
<1> QED BY <1>2, <1>3, <1>4, ClientStep

\* No call is a call.
LEMMA NoCallType == NoCall \in CallRec /\ NoCall.kind = "none" /\ NoCall.state = "idle"
<1>1. << >> \in Seq(Event) /\ {} \in SUBSET Nat
  OBVIOUS
<1> QED BY <1>1 DEF NoCall, CallRec, Kinds, Results

\* A call that was just sent.
LEMMA CallType ==
  ASSUME NEW kind \in Kinds, NEW b \in Seq(Event), NEW ex \in SUBSET Nat
  PROVE  /\ Call(kind, b, ex) \in CallRec /\ Call(kind, b, ex).kind = kind
         /\ Call(kind, b, ex).batch = b /\ Call(kind, b, ex).state = "sent"
  BY NoCallType DEF Call, CallRec, NoCall

\* A call without events.
LEMMA EmptyCall ==
  ASSUME NEW kind \in Kinds
  PROVE  \E c \in CallRec : c = Call(kind, << >>, {}) /\ c.kind = kind /\ c.state = "sent"
<1>1. << >> \in Seq(Event) /\ {} \in SUBSET Nat
  OBVIOUS
<1>2. /\ Call(kind, << >>, {}) \in CallRec /\ Call(kind, << >>, {}).kind = kind
      /\ Call(kind, << >>, {}).state = "sent"
  BY <1>1, NoCallType DEF Call, CallRec, NoCall
<1> QED BY <1>2, Zenon

\* The heartbeat timer sends a heartbeat.
LEMMA HeartbeatTimerStep ==
  ASSUME ProtocolInv, NEW h \in 1..Len(hs), HeartbeatTimer(h)
  PROVE  ProtocolInv'
<1>1. PICK x \in HandleRec : x = hs[h]
  BY HandleAt
<1>2. PICK c \in CallRec : c = Call("heartbeat", << >>, {}) /\ c.kind = "heartbeat"
  BY EmptyCall DEF Kinds
<1> DEFINE y == [x EXCEPT !.beat = c]
<1>3. hs' = [hs EXCEPT ![h] = y]
  BY <1>1, <1>2 DEF HeartbeatTimer
<1>4. y \in HandleRec /\ Renews(x, y) /\ y.beat = c /\ y.lost = x.lost
  BY <1>2 DEF HandleRec, Renews
<1>5. x.phase = "open" /\ UNCHANGED <<vars, writers, takeovers, opening, resuming, strays, faults>>
  BY <1>1 DEF HeartbeatTimer
<1>6. RestOK
  BY <1>5, RestKept
<1> HIDE DEF y
<1> QED BY <1>1, <1>2, <1>3, <1>4, <1>5, <1>6, RenewStep

\* The answer to a heartbeat: renewed, lost, or too late to matter.
LEMMA HeartbeatReplyStep ==
  ASSUME ProtocolInv, NEW h \in 1..Len(hs), HeartbeatReply(h)
  PROVE  ProtocolInv'
<1>1. PICK x \in HandleRec : x = hs[h]
  BY HandleAt
<1>2. PICK l \in BOOLEAN : l = (x.lost \/ x.beat.result = "SESSION_OWNERSHIP_LOST")
  OBVIOUS
<1> DEFINE y == [x EXCEPT !.beat = NoCall, !.lost = l]
<1>3. hs' = [hs EXCEPT ![h] = y]
  <2>1. hs \in Seq(HandleRec)
    BY DEF ProtocolInv, ProtocolTypeOK
  <2> QED BY <2>1, <1>1, <1>2 DEF HeartbeatReply, HandleRec
<1>4. y \in HandleRec /\ Renews(x, y) /\ y.beat = NoCall
  BY NoCallType DEF HandleRec, Renews
<1>5. /\ x.phase \in {"open", "closing"} /\ x.beat # NoCall
      /\ UNCHANGED <<vars, writers, takeovers, opening, resuming, strays, faults>>
  BY <1>1, NoCallType DEF HeartbeatReply, Live
<1>6. RestOK
  BY <1>5, RestKept
<1> HIDE DEF y
<1> QED BY <1>1, <1>3, <1>4, <1>5, <1>6, RenewStep

\* A request of the handle that nobody waits for any more.
LEMMA StrayOfHandle ==
  ASSUME NEW x \in HandleRec, NEW c \in CallRec, Sendable(c),
         c.kind = "release" => \E h \in 1..Len(hs) : hs'[h].token = x.token /\ Ended(hs'[h]),
         NEW q \in Stray(x.rt, c, x.token, x.epoch)
  PROVE  StrayMade(q)
<1>1. q = [rt |-> x.rt, call |-> c, token |-> x.token, epoch |-> x.epoch]
  BY DEF Stray
<1>2. q.call = c /\ q.token = x.token
  BY <1>1
<1>3. q \in StrayRec /\ x.token \in Token
  BY <1>1, HandleFields DEF StrayRec
<1> QED BY <1>2, <1>3 DEF StrayMade

\* A heartbeat times out; its request may still arrive.
LEMMA HeartbeatTimeoutStep ==
  ASSUME ProtocolInv, NEW h \in 1..Len(hs), HeartbeatTimeout(h)
  PROVE  ProtocolInv'
<1>1. PICK x \in HandleRec : x = hs[h]
  BY HandleAt
<1> DEFINE y == [x EXCEPT !.beat = NoCall]
<1>3. hs' = [hs EXCEPT ![h] = y]
  BY <1>1 DEF HeartbeatTimeout
<1>4. y \in HandleRec /\ Renews(x, y) /\ y.beat = NoCall /\ y.lost = x.lost
  BY NoCallType DEF HandleRec, Renews
<1>5. x.phase \in {"open", "closing"} /\ x.beat # NoCall
      /\ UNCHANGED <<vars, writers, takeovers, opening, resuming>>
  BY <1>1 DEF HeartbeatTimeout, Live
<1>6. RestOK
  BY <1>5 DEF HeartbeatTimeout, ProtocolInv, ProtocolTypeOK, RestOK
<1>7. x.beat.kind = "heartbeat" /\ x.beat \in CallRec
  BY <1>1, <1>5, HandleAt, HandleFields DEF HandleOK, LocalOK, SlotsOK
<1>8. \A q \in strays' : q \in strays \/ StrayMade(q)
  <2>1. strays' = strays \cup Stray(x.rt, x.beat, x.token, x.epoch)
    BY <1>1 DEF HeartbeatTimeout
  <2>2. Sendable(x.beat) /\ x.beat.kind # "release"
    BY <1>7 DEF Sendable
  <2> QED BY <2>1, <2>2, <1>7, StrayOfHandle
<1> HIDE DEF y
<1> QED BY <1>1, <1>3, <1>4, <1>5, <1>6, <1>8, RenewStep

-----------------------------------------------------------------------------
(* The operation at the head of the chain.                                 *)

\* An operation runs, and if the session is released it is close that runs.
Running(h, x) ==
  /\ x.phase \in {"open", "closing"} /\ x.ops # << >>
  /\ PendingOwn(h, x) /\ NothingSkipped(x)
  /\ \A i \in 1..Len(x.ops) : x.ops[i].name = "close" => x.phase # "open"
  /\ x.beat = NoCall \/ x.beat.kind = "heartbeat"
  /\ x.released => ~x.lost /\ x.ops[1].name = "close"

\* The operation leaves the chain.
LEMMA SettledLocal ==
  ASSUME NEW h, NEW x \in HandleRec, NEW y \in HandleRec, Running(h, x), x.ops[1].name # "close",
         y.ops = Tail(x.ops), y.call = NoCall, y.pending = x.pending, y.next = x.next,
         y.produced = x.produced, y.dropped = x.dropped, y.start = x.start, y.phase = x.phase, y.beat = x.beat, y.released = x.released
  PROVE  LocalOK(h, y)
<1>1. x.ops \in Seq(OpRec) /\ x.ops # << >>
  BY HandleFields DEF Running
<1>2. Len(y.ops) = Len(x.ops) - 1 /\ \A i \in 1..Len(y.ops) : y.ops[i] = x.ops[i + 1]
  BY <1>1
<1>3. Len(x.ops) \in Nat
  BY <1>1
<1>4. \A i \in 1..Len(y.ops) : i + 1 \in 1..Len(x.ops)
  BY <1>2, <1>3
<1>5. y.call.kind = "none"
  BY NoCallType
<1>6. PendingOwn(h, y)
  BY DEF Running, PendingOwn
<1>7. NothingSkipped(y)
  <2>1. \A i \in 1..Len(y.ops) : y.ops[i].mark <= y.produced
    BY <1>2, <1>4 DEF Running, NothingSkipped
  <2> QED BY <2>1 DEF Running, NothingSkipped
<1>8. AppendIsPrefix(h, y) /\ FlushCovers(y) /\ SlotsOK(y)
  BY <1>5 DEF AppendIsPrefix, FlushCovers, Covered, SlotsOK, Sendable, OpKinds, Running
<1>9. CloseIsJoined(y)
  <2>1. \A i \in 1..Len(y.ops) : y.ops[i].name = "close" => y.phase # "open"
    BY <1>2, <1>4 DEF Running
  <2> QED BY <2>1, <1>5 DEF CloseIsJoined, OpKinds
<1>10. ReleasedIsOver(y)
  BY DEF ReleasedIsOver, Running
<1> QED BY <1>6, <1>7, <1>8, <1>9, <1>10 DEF LocalOK

\* close's finally block.
LEMMA ClosedLocal ==
  ASSUME NEW h, NEW x \in HandleRec, NEW y \in HandleRec, Running(h, x),
         y.ops = Tail(x.ops), y.call = NoCall, y.pending = << >>, y.next = x.next,
         y.produced = x.produced, y.dropped = x.dropped, y.start = x.start, y.phase = "closed", y.beat = x.beat,
         y.released = x.released, y.lost = x.lost
  PROVE  LocalOK(h, y)
<1>1. x.ops \in Seq(OpRec) /\ x.ops # << >>
  BY HandleFields DEF Running
<1>2. Len(y.ops) = Len(x.ops) - 1 /\ \A i \in 1..Len(y.ops) : y.ops[i] = x.ops[i + 1]
  BY <1>1
<1>3. Len(x.ops) \in Nat
  BY <1>1
<1>4. \A i \in 1..Len(y.ops) : i + 1 \in 1..Len(x.ops)
  BY <1>2, <1>3
<1>5. y.call.kind = "none"
  BY NoCallType
<1>6. PendingOwn(h, y)
  BY DEF PendingOwn
<1>7. NothingSkipped(y)
  BY <1>2, <1>4 DEF Running, NothingSkipped
<1>8. AppendIsPrefix(h, y) /\ FlushCovers(y) /\ SlotsOK(y)
  BY <1>5 DEF AppendIsPrefix, FlushCovers, Covered, SlotsOK, Sendable, OpKinds, Running
<1>9. CloseIsJoined(y)
  BY <1>5 DEF CloseIsJoined, OpKinds
<1>10. ReleasedIsOver(y)
  BY DEF ReleasedIsOver, Running
<1> QED BY <1>6, <1>7, <1>8, <1>9, <1>10 DEF LocalOK

\* x is the handle z at the end of a turn in which its operation failed.
LEMMA FailStep ==
  ASSUME ProtocolInv, UNCHANGED <<vars, opening, resuming>>, faults' \in Nat,
         NEW h \in 1..Len(hs), NEW z \in HandleRec, z = hs[h], NEW x \in HandleRec,
         Fail(h, x), Running(h, x), z.phase = x.phase,
         z.rt = x.rt, z.token = x.token, z.epoch = x.epoch, PrefixDurable(h, x),
         \/ UNCHANGED strays
         \/ /\ strays' = strays \cup Stray(x.rt, x.call, x.token, x.epoch) /\ Sendable(x.call)
            /\ x.call.kind = "release" => x.ops[1].name = "close" /\ ~x.lost
  PROVE  ProtocolInv'
<1>1. x.ops \in Seq(OpRec) /\ x.ops # << >> /\ Tail(x.ops) \in Seq(OpRec) /\ Head(x.ops) = x.ops[1]
  BY HandleFields DEF Running
<1>2. PICK u \in Seq(OpRec) : u = Tail(x.ops)
  BY <1>1
<1>3. hs \in Seq(HandleRec) /\ writers \in [Runtime -> Nat] /\ takeovers \in [Runtime -> Nat]
  BY DEF ProtocolInv, ProtocolTypeOK
<1>4. PICK none \in Seq(Envelope) : none = << >>
  <2>1. << >> \in Seq(Envelope)
    OBVIOUS
  <2> QED BY <2>1, Zenon
<1>5. CASE x.ops[1].name = "close"
  <2> DEFINE y == [x EXCEPT !.ops = u, !.call = NoCall, !.phase = "closed", !.timer = FALSE,
                            !.pending = none]
  <2>1. y \in HandleRec /\ y.ops = u /\ y.call = NoCall /\ y.pending = none /\ y.next = x.next
        /\ y.produced = x.produced /\ y.dropped = x.dropped /\ y.start = x.start /\ y.phase = "closed" /\ y.beat = x.beat
        /\ y.released = x.released /\ y.lost = x.lost /\ y.ran = x.ran /\ y.start = x.start
        /\ y.rt = x.rt /\ y.token = x.token /\ y.epoch = x.epoch
    BY NoCallType DEF HandleRec
  <2>2. hs' = [hs EXCEPT ![h] = y]
    <3>1. [Settled(x) EXCEPT !.phase = "closed", !.timer = FALSE, !.pending = << >>] = y
      BY <1>2, <1>4 DEF Settled, HandleRec
    <3> QED BY <3>1, <1>5, <1>1 DEF Fail
  <2>3. writers' = Forget(writers, h) /\ takeovers' = Forget(takeovers, h)
    BY <1>5, <1>1 DEF Fail
  <2> HIDE DEF y
  <2>4. LocalOK(h, y)
    BY <2>1, <1>2, <1>4, ClosedLocal
  <2>5. AnswerIsTrue(y)
    BY <2>1, NoCallType DEF AnswerIsTrue
  <2>6. PrefixDurable(h, y)
    BY <2>1 DEF PrefixDurable, Covered
  <2>7. Continues(z, y)
    BY <2>1 DEF Continues, Ended, Running
  <2>8. RestOK
    BY <2>3, <1>3 DEF RestOK, Forget, ProtocolInv, ProtocolTypeOK
  <2>9. \A rt \in Runtime : writers[rt] # h => writers'[rt] = writers[rt]
    BY <2>3 DEF Forget
  <2>10. \A q \in strays' : q \in strays \/ StrayMade(q)
    <3> SUFFICES ASSUME NEW q \in strays', q \notin strays PROVE StrayMade(q)
      OBVIOUS
    <3>1. q \in Stray(x.rt, x.call, x.token, x.epoch) /\ Sendable(x.call)
          /\ (x.call.kind = "release" => ~x.lost)
      OBVIOUS
    <3>2. hs'[h] = y
      BY <2>2, <1>3
    <3>3. x.call.kind = "release" => hs'[h].token = x.token /\ Ended(hs'[h])
      BY <3>1, <3>2, <2>1 DEF Ended
    <3>4. x.call \in CallRec
      BY HandleFields
    <3> QED BY <3>1, <3>3, <3>4, StrayOfHandle
  <2>11. UNCHANGED vars /\ y.phase # "open"
    BY <2>1
  <2> QED BY <2>1, <2>2, <2>4, <2>5, <2>6, <2>7, <2>8, <2>9, <2>10, <2>11, ClientStep
<1>6. CASE x.ops[1].name # "close"
  <2> DEFINE y == [x EXCEPT !.ops = u, !.call = NoCall]
  <2>1. y \in HandleRec /\ y.ops = u /\ y.call = NoCall /\ y.pending = x.pending /\ y.next = x.next
        /\ y.produced = x.produced /\ y.dropped = x.dropped /\ y.phase = x.phase /\ y.beat = x.beat
        /\ y.released = x.released /\ y.ran = x.ran /\ y.start = x.start
        /\ y.rt = x.rt /\ y.token = x.token /\ y.epoch = x.epoch
    BY NoCallType DEF HandleRec
  <2>2. hs' = [hs EXCEPT ![h] = y]
    BY <1>1, <1>2, <1>6 DEF Fail, Settled
  <2>3. UNCHANGED <<writers, takeovers>>
    BY <1>6, <1>1 DEF Fail
  <2> HIDE DEF y
  <2>4. LocalOK(h, y)
    BY <2>1, <1>2, <1>6, SettledLocal
  <2>5. AnswerIsTrue(y)
    BY <2>1, NoCallType DEF AnswerIsTrue
  <2>6. PrefixDurable(h, y)
    BY <2>1 DEF PrefixDurable, Covered
  <2>7. Continues(z, y)
    BY <2>1 DEF Continues, Ended, Running
  <2>8. RestOK
    BY <2>3 DEF RestOK, ProtocolInv, ProtocolTypeOK
  <2>10. \A q \in strays' : q \in strays \/ StrayMade(q)
    <3> SUFFICES ASSUME NEW q \in strays', q \notin strays PROVE StrayMade(q)
      OBVIOUS
    <3>1. q \in Stray(x.rt, x.call, x.token, x.epoch) /\ Sendable(x.call) /\ x.call.kind # "release"
      BY <1>6
    <3>4. x.call \in CallRec
      BY HandleFields
    <3> QED BY <3>1, <3>4, StrayOfHandle
  <2>11. UNCHANGED vars /\ UNCHANGED writers
    BY <2>3
  <2> QED BY <2>1, <2>2, <2>4, <2>5, <2>6, <2>7, <2>8, <2>10, <2>11, ClientStep
<1> QED BY <1>5, <1>6

\* The batch of a non-empty queue is a prefix the store can record; assertContiguous
\* has checked that it continues what is acknowledged.
LEMMA NextBatchPrefix ==
  ASSUME NEW h, NEW x \in HandleRec, PendingOwn(h, x), x.pending # << >>, MaySend(x)
  PROVE  /\ NextBatch(x) \in Seq(Event) /\ NextBatch(x) \in BoundedBatch
         /\ Len(NextBatch(x)) <= Len(x.pending)
         /\ \A i \in 1..Len(NextBatch(x)) :
              /\ NextBatch(x)[i] = x.pending[i]
              /\ NextBatch(x)[i] = [seq |-> x.next + i - 1, body |-> h]
<1>1. x.pending \in Seq(Envelope) /\ Len(x.pending) \in Nat /\ Len(x.pending) > 0
  BY HandleFields
<1> DEFINE n == IF Len(x.pending) < BatchSize THEN Len(x.pending) ELSE BatchSize
           b == NextBatch(x)
<1>2. n \in Nat /\ n >= 1 /\ n <= Len(x.pending) /\ n <= MaxBatch
  BY <1>1
<1>3. b = SubSeq(x.pending, 1, n)
  BY DEF NextBatch
<1> HIDE DEF n, b
<1>4. b \in Seq(Envelope) /\ Len(b) = n /\ \A i \in 1..n : b[i] = x.pending[i]
  BY <1>1, <1>2, <1>3
<1>5. b \in [1..n -> Envelope]
  BY <1>4
<1>6. b \in BoundedBatch
  <2>1. n \in 1..MaxBatch
    BY <1>2
  <2> QED BY <2>1, <1>5 DEF BoundedBatch, Envelope
<1>7. b \in Seq(Event)
  BY <1>6, BoundedBatchType
<1>8. \A i \in 1..Len(b) : b[i] = x.pending[i] /\ b[i] = [seq |-> x.next + i - 1, body |-> h]
  <2> SUFFICES ASSUME NEW i \in 1..n
               PROVE  b[i] = x.pending[i] /\ b[i] = [seq |-> x.next + i - 1, body |-> h]
    BY <1>4
  <2>1. i \in 1..Len(x.pending)
    BY <1>1, <1>2
  <2>2. b[i].body = h
    BY <2>1, <1>4 DEF PendingOwn
  <2>3. b[i].seq = x.next + i - 1
    BY <1>4 DEF MaySend, Contiguous, b
  <2>4. b[i] = x.pending[i] /\ b[i] \in Envelope
    BY <1>4
  <2> QED BY <2>2, <2>3, <2>4 DEF Envelope
<1> QED BY <1>2, <1>4, <1>6, <1>7, <1>8 DEF b

\* The next request of a running operation.
LEMMA DrainLocal ==
  ASSUME NEW h, NEW x \in HandleRec, Running(h, x), ~x.released, MaySend(x),
         x.ops[1].name = "close" => x.beat = NoCall
  PROVE  \E c \in CallRec :
           /\ c = Drain(x) /\ c.state = "sent"
           /\ [x EXCEPT !.call = c] \in HandleRec /\ LocalOK(h, [x EXCEPT !.call = c])
<1>1. PICK c \in CallRec :
        /\ c = Drain(x) /\ c.state = "sent"
        /\ \/ c.kind = "flush" /\ x.pending = << >>
           \/ c.kind = "append" /\ c.batch = NextBatch(x) /\ x.pending # << >>
  <2>1. CASE x.pending = << >>
    <3>1. "flush" \in Kinds
      BY DEF Kinds, OpKinds
    <3> QED BY <2>1, <3>1, EmptyCall DEF Drain
  <2>2. CASE x.pending # << >>
    <3>1. PICK b \in Seq(Event) : b = NextBatch(x)
      BY <2>2, NextBatchPrefix DEF Running
    <3>2. "append" \in Kinds /\ {} \in SUBSET Nat
      BY DEF Kinds, OpKinds
    <3>3. Drain(x) = Call("append", b, {})
      BY <2>2, <3>1 DEF Drain
    <3>4. Drain(x) \in CallRec /\ Drain(x).kind = "append" /\ Drain(x).batch = b /\ Drain(x).state = "sent"
      BY <3>2, <3>3, CallType
    <3> QED BY <2>2, <3>1, <3>4
  <2> QED BY <2>1, <2>2
<1> DEFINE y == [x EXCEPT !.call = c]
<1>2. /\ y \in HandleRec /\ y.call = c /\ y.ops = x.ops /\ y.pending = x.pending
      /\ y.next = x.next /\ y.produced = x.produced /\ y.dropped = x.dropped /\ y.start = x.start /\ y.phase = x.phase /\ y.beat = x.beat
      /\ y.released = x.released /\ y.lost = x.lost
  BY DEF HandleRec
<1> HIDE DEF y
<1>3. PendingOwn(h, y) /\ NothingSkipped(y)
  BY <1>2 DEF Running, PendingOwn, NothingSkipped
<1>4. x.ops \in Seq(OpRec) /\ x.next \in Nat /\ 1 \in 1..Len(x.ops)
  BY HandleFields DEF Running
<1>5. AppendIsPrefix(h, y) /\ Sendable(c)
  BY <1>1, <1>2, NextBatchPrefix DEF AppendIsPrefix, Sendable, Running
<1>6. FlushCovers(y)
  <2>1. ASSUME c.kind # "append" PROVE Covered(x, x.ops[1].mark)
    <3>1. x.pending = << >>
      BY <2>1, <1>1
    <3>2. 1..Len(x.pending) = {}
      BY <3>1
    <3>3. \A n \in x.start..(x.produced - 1) : n < x.next \/ n \in x.dropped
      BY <3>2 DEF Running, NothingSkipped
    <3>a. x.ops[1] \in OpRec
      BY <1>4
    <3>b. x.ops[1].mark <= x.produced
      BY <1>4 DEF Running, NothingSkipped
    <3>4. x.ops[1].mark <= x.produced /\ x.ops[1].mark \in Nat /\ x.produced \in Nat /\ x.start \in Nat
      BY <3>a, <3>b, HandleFields DEF OpRec
    <3>5. x.start..(x.ops[1].mark - 1) \subseteq x.start..(x.produced - 1)
      BY <3>4
    <3> QED BY <3>3, <3>5 DEF Covered
  <2>2. Covered(x, x.ops[1].mark) => Covered(y, x.ops[1].mark)
    BY <1>2 DEF Covered
  <2> QED BY <1>1, <1>2, <2>1, <2>2 DEF FlushCovers, Running
<1>7. CloseIsJoined(y)
  BY <1>1, <1>2 DEF CloseIsJoined, Running, OpKinds
<1>8. ReleasedIsOver(y)
  BY <1>2 DEF ReleasedIsOver
<1>9. SlotsOK(y)
  BY <1>1, <1>2, <1>5 DEF SlotsOK, Running, OpKinds
<1>10. LocalOK(h, y)
  BY <1>3, <1>5, <1>6, <1>7, <1>8, <1>9 DEF LocalOK
<1> QED BY <1>1, <1>2, <1>10 DEF y

\* The operation sends its next request.
LEMMA SendStep ==
  ASSUME ProtocolInv, UNCHANGED <<vars, writers, takeovers, opening, resuming, strays, faults>>,
         NEW h \in 1..Len(hs), NEW z \in HandleRec, z = hs[h], NEW x \in HandleRec,
         hs' = [hs EXCEPT ![h] = [x EXCEPT !.call = Drain(x)]],
         Running(h, x), ~x.released, MaySend(x), x.ops[1].name = "close" => x.beat = NoCall,
         z.phase = x.phase, z.rt = x.rt, z.token = x.token, z.epoch = x.epoch, PrefixDurable(h, x)
  PROVE  ProtocolInv'
<1>1. PICK c \in CallRec : /\ c = Drain(x) /\ c.state = "sent"
                           /\ [x EXCEPT !.call = c] \in HandleRec /\ LocalOK(h, [x EXCEPT !.call = c])
  BY DrainLocal
<1>2. PICK y \in HandleRec : y = [x EXCEPT !.call = c]
  BY <1>1
<1>3. hs' = [hs EXCEPT ![h] = y] /\ LocalOK(h, y)
  BY <1>1, <1>2
<1>4. /\ y.call = c /\ y.phase = x.phase /\ y.rt = x.rt /\ y.token = x.token /\ y.epoch = x.epoch
      /\ y.next = x.next /\ y.start = x.start /\ y.ran = x.ran /\ y.lost = x.lost
      /\ y.dropped = x.dropped
  BY <1>2 DEF HandleRec
<1>5. Continues(z, y)
  BY <1>4 DEF Continues, Ended, Running
<1>6. AnswerIsTrue(y)
  BY <1>1, <1>4 DEF AnswerIsTrue
<1>7. PrefixDurable(h, y)
  BY <1>4 DEF PrefixDurable, Covered
<1>8. RestOK
  BY RestKept
<1>9. UNCHANGED vars /\ UNCHANGED writers /\ UNCHANGED strays
  OBVIOUS
<1> QED BY <1>3, <1>5, <1>6, <1>7, <1>8, <1>9, ClientStep

\* A handle whose request is in flight has an operation at the head of its chain.
LEMMA CallRuns ==
  ASSUME NEW h, NEW x \in HandleRec, LocalOK(h, x), x.phase \in {"open", "closing"}, x.call # NoCall
  PROVE  Running(h, x)
<1>1. x.call.kind \in OpKinds
  BY DEF LocalOK, SlotsOK
<1>2. x.ops # << >>
  BY <1>1 DEF LocalOK, FlushCovers, Covered
<1>3. x.released => ~x.lost /\ x.ops[1].name = "close"
  BY DEF LocalOK, ReleasedIsOver, CloseIsJoined
<1> QED BY <1>2, <1>3 DEF Running, LocalOK, CloseIsJoined, SlotsOK

\* A call times out; its request may still arrive.
LEMMA TimeoutStep ==
  ASSUME ProtocolInv, NEW h \in 1..Len(hs), Timeout(h)
  PROVE  ProtocolInv'
<1>1. PICK x \in HandleRec : x = hs[h]
  BY HandleAt
<1>2. LocalOK(h, x) /\ PrefixDurable(h, x)
  BY <1>1, HandleAt DEF HandleOK, SharedOK
<1>3. x.phase \in {"open", "closing"} /\ x.call # NoCall /\ Fail(h, x)
  BY <1>1 DEF Timeout, Live
<1>4. Running(h, x)
  BY <1>2, <1>3, CallRuns
<1>5. strays' = strays \cup Stray(x.rt, x.call, x.token, x.epoch) /\ faults' \in Nat
      /\ UNCHANGED <<vars, opening, resuming>>
  BY <1>1 DEF Timeout, ProtocolInv, ProtocolTypeOK
<1>6. Sendable(x.call) /\ (x.call.kind = "release" => x.ops[1].name = "close" /\ ~x.lost)
  BY <1>2 DEF LocalOK, SlotsOK, CloseIsJoined
<1> QED BY <1>1, <1>2, <1>3, <1>4, <1>5, <1>6, FailStep

\* The next operation of a handle starts: it drains, waits, releases or ends.
LEMMA StartOpStep ==
  ASSUME ProtocolInv, NEW h \in 1..Len(hs), StartOp(h)
  PROVE  ProtocolInv'
<1>1. PICK z \in HandleRec : z = hs[h]
  BY HandleAt
<1>2. PICK x \in HandleRec : x = [z EXCEPT !.timer = FALSE]
  BY DEF HandleRec
<1>3. LocalOK(h, z) /\ PrefixDurable(h, z)
  BY <1>1, HandleAt DEF HandleOK, SharedOK
<1>4. /\ z.phase = x.phase /\ z.rt = x.rt /\ z.token = x.token /\ z.epoch = x.epoch
      /\ z.start = x.start /\ z.next = x.next /\ z.ran = x.ran /\ z.dropped = x.dropped
  BY <1>2 DEF HandleRec
<1>5. LocalOK(h, x) /\ PrefixDurable(h, x)
  BY <1>2, <1>3, <1>4, TimerLocal DEF PrefixDurable, Covered
<1>6. /\ x.phase \in {"open", "closing"} /\ x.ops # << >> /\ x.call = NoCall
      /\ Head(x.ops).name = "close" => x.beat = NoCall
  BY <1>1, <1>2, <1>4 DEF StartOp, Live
<1>7. ~x.released
  BY <1>5, <1>6, NoCallType DEF LocalOK, ReleasedIsOver
<1>8. Running(h, x)
  BY <1>5, <1>6, <1>7 DEF LocalOK, CloseIsJoined, SlotsOK, Running
<1>9. UNCHANGED <<vars, opening, resuming, strays, faults>> /\ faults \in Nat
  BY DEF StartOp, ProtocolInv, ProtocolTypeOK
<1>10. CASE Fail(h, x)
  BY <1>1, <1>4, <1>5, <1>8, <1>9, <1>10, FailStep
<1>11. CASE /\ MaySend(x)
            /\ hs' = [hs EXCEPT ![h] = [x EXCEPT !.call = Drain(x)]] /\ UNCHANGED <<writers, takeovers>>
  <2>1. x.ops[1].name = "close" => x.beat = NoCall
    <3>1. Head(x.ops) = x.ops[1]
      OBVIOUS
    <3> QED BY <3>1, <1>6
  <2> QED BY <1>1, <1>4, <1>5, <1>7, <1>8, <1>9, <1>11, <2>1, SendStep
<1> QED BY <1>1, <1>2, <1>10, <1>11 DEF StartOp

\* What is left of a sequence behind its first n elements.
LEMMA RestOfSeq ==
  ASSUME NEW S, NEW s \in Seq(S), NEW n \in Nat, n <= Len(s)
  PROVE  /\ SubSeq(s, n + 1, Len(s)) \in Seq(S)
         /\ Len(SubSeq(s, n + 1, Len(s))) = Len(s) - n
         /\ \A i \in 1..Len(SubSeq(s, n + 1, Len(s))) : SubSeq(s, n + 1, Len(s))[i] = s[n + i]
<1>1. Len(s) \in Nat /\ n + 1 \in Nat
  OBVIOUS
<1>2. Len(SubSeq(s, n + 1, Len(s))) = Len(s) - n
  BY <1>1
<1> QED BY <1>1, <1>2

\* An accepted append extends the acknowledged prefix by what is in the log.
LEMMA AcknowledgedRuns ==
  ASSUME NEW h, NEW x \in HandleRec, LocalOK(h, x), SharedOK(h, x), x.phase \in {"open", "closing"},
         x.call.kind = "append", x.call.state = "done", Accepted(x)
  PROVE  \E y \in HandleRec :
           /\ y = Acknowledged(x)
           /\ Running(h, y) /\ ~y.released /\ PrefixDurable(h, y)
           /\ y.ops[1].name = "close" => y.beat = NoCall
           /\ x.phase = y.phase /\ x.rt = y.rt /\ x.token = y.token /\ x.epoch = y.epoch
<1> DEFINE n == Len(x.call.batch)
           p == SubSeq(x.pending, n + 1, Len(x.pending))
           m == x.call.next
           y == [x EXCEPT !.next = m, !.pending = p]
<1>1. /\ x.pending \in Seq(Envelope) /\ Len(x.pending) \in Nat /\ x.next \in Nat /\ x.produced \in Nat
      /\ x.start \in Nat /\ x.ran \in Nat
  BY HandleFields
<1>2. n \in Nat /\ m \in Nat
  <2>1. x.call \in CallRec
    BY HandleFields
  <2>2. x.call.batch \in Seq(Event) /\ x.call.next \in Nat
    BY <2>1 DEF CallRec
  <2> QED BY <2>2
<1>3. m = x.next + n
  BY DEF Accepted
<1>4. n <= Len(x.pending)
      /\ \A i \in 1..n : /\ x.call.batch[i] = [seq |-> x.next + i - 1, body |-> h]
                         /\ x.pending[i] = [seq |-> x.next + i - 1, body |-> h]
  BY DEF LocalOK, AppendIsPrefix
<1>5. \A i \in 1..n : x.call.batch[i] \in events[K(x.rt)]
  BY DEF SharedOK, AnswerIsTrue, Accepted
<1>6. p \in Seq(Envelope) /\ Len(p) = Len(x.pending) - n
      /\ \A i \in 1..Len(p) : p[i] = x.pending[n + i]
  <2>1. PICK q \in Seq(Envelope) : q = x.pending
    BY <1>1
  <2>2. n \in Nat /\ n <= Len(q)
    BY <1>2, <1>4, <2>1
  <2> HIDE DEF n
  <2>3. /\ SubSeq(q, n + 1, Len(q)) \in Seq(Envelope)
        /\ Len(SubSeq(q, n + 1, Len(q))) = Len(q) - n
        /\ \A i \in 1..Len(SubSeq(q, n + 1, Len(q))) : SubSeq(q, n + 1, Len(q))[i] = q[n + i]
    BY <2>2, RestOfSeq
  <2>4. p = SubSeq(q, n + 1, Len(q))
    BY <2>1
  <2> HIDE DEF p
  <2> QED BY <2>1, <2>3, <2>4
<1>7. y = Acknowledged(x)
  BY DEF Acknowledged
<1> HIDE DEF n, p, m
<1>8. /\ y \in HandleRec /\ y.next = m /\ y.pending = p /\ y.ops = x.ops /\ y.phase = x.phase
      /\ y.produced = x.produced /\ y.dropped = x.dropped /\ y.start = x.start /\ y.beat = x.beat /\ y.released = x.released /\ y.lost = x.lost
      /\ y.rt = x.rt /\ y.token = x.token /\ y.epoch = x.epoch /\ y.start = x.start /\ y.ran = x.ran
  BY <1>2, <1>6 DEF HandleRec
<1> HIDE DEF y
<1>9. PendingOwn(h, y)
  <2> SUFFICES ASSUME NEW i \in 1..Len(p) PROVE p[i].body = h
    BY <1>8 DEF PendingOwn
  <2>1. n + i \in 1..Len(x.pending)
    BY <1>1, <1>2, <1>4, <1>6
  <2> QED BY <2>1, <1>6 DEF LocalOK, PendingOwn
<1>10. NothingSkipped(y)
  <2>1. ASSUME NEW k \in x.start..(x.produced - 1)
        PROVE  k < m \/ k \in x.dropped \/ \E i \in 1..Len(p) : p[i].seq = k
    <3>1. k < x.next \/ k \in x.dropped \/ \E i \in 1..Len(x.pending) : x.pending[i].seq = k
      BY DEF LocalOK, NothingSkipped
    <3>2. CASE k < x.next
      BY <3>2, <1>1, <1>2, <1>3
    <3>3. ASSUME NEW i \in 1..Len(x.pending), x.pending[i].seq = k
          PROVE  k < m \/ \E l \in 1..Len(p) : p[l].seq = k
      <4>1. CASE i \in 1..n
        <5>1. x.pending[i] = [seq |-> x.next + i - 1, body |-> h]
          BY <4>1, <1>4
        <5>2. k = x.next + i - 1
          BY <5>1, <3>3
        <5> QED BY <5>2, <4>1, <1>1, <1>2, <1>3
      <4>2. CASE i > n
        <5>1. i - n \in 1..Len(p) /\ n + (i - n) = i
          BY <4>2, <1>1, <1>2, <1>4, <1>6
        <5>2. p[i - n] = x.pending[n + (i - n)]
          BY <5>1, <1>6
        <5> QED BY <5>1, <5>2, <3>3
      <4> QED BY <4>1, <4>2, <1>1, <1>2
    <3> QED BY <3>1, <3>2, <3>3
  <2> QED BY <2>1, <1>8 DEF LocalOK, NothingSkipped
<1>11. PrefixDurable(h, y)
  <2>1. Covered(y, x.ran)
    <3>1. \A k \in x.start..(x.ran - 1) : k < x.next \/ k \in x.dropped
      BY DEF SharedOK, PrefixDurable, Covered
    <3>2. \A k \in x.start..(x.ran - 1) : k < m \/ k \in x.dropped
      BY <3>1, <1>1, <1>2, <1>3
    <3> QED BY <3>2, <1>8 DEF Covered
  <2>2. ASSUME NEW j \in x.start..(m - 1) PROVE [seq |-> j, body |-> h] \in events[K(x.rt)]
    <3>1. CASE j < x.next
      <4>1. j \in x.start..(x.next - 1)
        BY <3>1, <1>1, <1>2
      <4> QED BY <4>1 DEF SharedOK, PrefixDurable, Covered
    <3>2. CASE j >= x.next
      <4>1. PICK i \in 1..n : j = x.next + i - 1
        <5>1. j \in Int /\ j <= m - 1
          BY <1>1, <1>2
        <5>a. j - x.next \in Nat /\ j = x.next + (j - x.next)
          BY <5>1, <3>2, <1>1
        <5>2. PICK d \in Nat : j = x.next + d
          BY <5>a
        <5>3. d + 1 \in 1..n /\ j = x.next + (d + 1) - 1
          BY <5>1, <5>2, <1>1, <1>2, <1>3, SMTT(40)
        <5> QED BY <5>3
      <4> QED BY <4>1, <1>4, <1>5
    <3> QED BY <3>1, <3>2, <1>1, <1>2
  <2> QED BY <2>1, <2>2, <1>8 DEF PrefixDurable
<1>12. x.call.kind \in OpKinds /\ x.call # NoCall
  BY NoCallType DEF OpKinds
<1>13. Running(h, x)
  BY <1>12, CallRuns
<1>14. ~x.released
  BY DEF LocalOK, ReleasedIsOver
<1>15. x.ops[1].name = "close" => x.beat = NoCall
  BY <1>12 DEF LocalOK, CloseIsJoined
<1>16. Running(h, y)
  BY <1>8, <1>9, <1>10, <1>13 DEF Running
<1> QED BY <1>7, <1>8, <1>11, <1>14, <1>15, <1>16

\* The answer of an append or a release is read.
LEMMA ReplyStep ==
  ASSUME ProtocolInv, NEW h \in 1..Len(hs), Reply(h)
  PROVE  ProtocolInv'
<1>1. PICK x \in HandleRec : x = hs[h]
  BY HandleAt
<1>2. LocalOK(h, x) /\ SharedOK(h, x) /\ PrefixDurable(h, x)
  BY <1>1, HandleAt DEF HandleOK, SharedOK
<1>3. x.phase \in {"open", "closing"} /\ x.call.state = "done" /\ x.call # NoCall
  BY <1>1, NoCallType DEF Reply, Live
<1>4. x.call.kind \in OpKinds
  BY <1>2, <1>3 DEF LocalOK, SlotsOK
<1>5. Running(h, x)
  BY <1>2, <1>3, CallRuns
<1>6. UNCHANGED <<vars, opening, resuming, strays, faults>> /\ faults \in Nat
  BY DEF Reply, ProtocolInv, ProtocolTypeOK
<1>7. x.ops \in Seq(OpRec) /\ x.ops # << >> /\ Head(x.ops) = x.ops[1] /\ 1 \in 1..Len(x.ops)
  BY <1>5, HandleFields DEF Running
<1>8. CASE ~Accepted(x)
  <2>1. PICK l \in BOOLEAN : l = (x.lost \/ x.call.result = "SESSION_OWNERSHIP_LOST")
    OBVIOUS
  <2>2. PICK w \in HandleRec : w = [x EXCEPT !.lost = l]
    BY DEF HandleRec
  <2>3. Fail(h, w)
    BY <1>1, <1>8, <2>1, <2>2 DEF Reply
  <2>4. /\ w.phase = x.phase /\ w.ops = x.ops /\ w.pending = x.pending /\ w.next = x.next
        /\ w.produced = x.produced /\ w.dropped = x.dropped /\ w.start = x.start /\ w.beat = x.beat /\ w.released = x.released
        /\ w.rt = x.rt /\ w.token = x.token /\ w.epoch = x.epoch /\ w.start = x.start /\ w.ran = x.ran
    BY <2>2 DEF HandleRec
  <2>5. ~x.released
    BY <1>2, <1>3, <1>8 DEF LocalOK, ReleasedIsOver, Accepted
  <2>6. Running(h, w)
    BY <1>5, <2>4, <2>5 DEF Running, PendingOwn, NothingSkipped
  <2>7. PrefixDurable(h, w)
    BY <1>2, <2>4 DEF PrefixDurable, Covered
  <2> QED BY <1>1, <1>6, <2>3, <2>4, <2>6, <2>7, FailStep
<1>9. CASE Accepted(x) /\ x.call.kind = "append"
  <2>1. PICK y \in HandleRec :
           /\ y = Acknowledged(x)
           /\ Running(h, y) /\ ~y.released /\ PrefixDurable(h, y)
           /\ y.ops[1].name = "close" => y.beat = NoCall
           /\ x.phase = y.phase /\ x.rt = y.rt /\ x.token = y.token /\ x.epoch = y.epoch
    BY <1>2, <1>3, <1>9, AcknowledgedRuns
  <2>2. \/ Fail(h, y)
        \/ /\ MaySend(y)
           /\ hs' = [hs EXCEPT ![h] = [y EXCEPT !.call = Drain(y)]] /\ UNCHANGED <<writers, takeovers>>
    BY <1>1, <1>9, <2>1 DEF Reply
  <2>3. CASE Fail(h, y)
    BY <1>1, <1>6, <2>1, <2>3, FailStep
  <2>4. CASE /\ MaySend(y)
             /\ hs' = [hs EXCEPT ![h] = [y EXCEPT !.call = Drain(y)]] /\ UNCHANGED <<writers, takeovers>>
    BY <1>1, <1>6, <2>1, <2>4, SendStep
  <2> QED BY <2>2, <2>3, <2>4
<1>10. CASE Fail(h, x)
  BY <1>1, <1>2, <1>5, <1>6, <1>10, FailStep
<1>11. CASE /\ x.call.kind = "flush" /\ x.ops[1].name = "close" /\ ~x.lost
            /\ hs' = [hs EXCEPT ![h].call = Call("release", << >>, {})]
            /\ UNCHANGED <<writers, takeovers>>
  <2>1. PICK c \in CallRec : c = Call("release", << >>, {}) /\ c.kind = "release" /\ c.state = "sent"
    BY EmptyCall DEF Kinds, OpKinds
  <2>2. PICK y \in HandleRec : y = [x EXCEPT !.call = c]
    BY DEF HandleRec
  <2>3. /\ y.call = c /\ y.ops = x.ops /\ y.pending = x.pending /\ y.next = x.next
        /\ y.produced = x.produced /\ y.dropped = x.dropped /\ y.phase = x.phase /\ y.beat = x.beat
        /\ y.released = x.released /\ y.lost = x.lost /\ y.ran = x.ran /\ y.start = x.start
        /\ y.rt = x.rt /\ y.token = x.token /\ y.epoch = x.epoch
    BY <2>2 DEF HandleRec
  <2>4. hs' = [hs EXCEPT ![h] = y]
    BY <1>1, <1>11, <2>1, <2>2
  <2>5. ~x.released /\ Covered(x, x.ops[1].mark) /\ x.beat = NoCall
    BY <1>2, <1>3, <1>4, <1>11 DEF LocalOK, ReleasedIsOver, FlushCovers, CloseIsJoined
  <2>6. LocalOK(h, y)
    <3>1. PendingOwn(h, y) /\ NothingSkipped(y)
      BY <1>5, <2>3 DEF Running, PendingOwn, NothingSkipped
    <3>2. AppendIsPrefix(h, y) /\ FlushCovers(y) /\ ReleasedIsOver(y)
      BY <1>7, <2>1, <2>3, <2>5 DEF AppendIsPrefix, FlushCovers, Covered, ReleasedIsOver
    <3>3. CloseIsJoined(y)
      BY <1>3, <1>5, <1>11, <2>1, <2>3, <2>5 DEF CloseIsJoined, Running
    <3>4. SlotsOK(y)
      BY <2>1, <2>3, <2>5 DEF SlotsOK, Sendable, OpKinds
    <3> QED BY <3>1, <3>2, <3>3, <3>4 DEF LocalOK
  <2>7. Continues(x, y) /\ Covered(y, y.ran) /\ y.call.state # "done"
    BY <1>2, <2>1, <2>3 DEF Continues, Ended, PrefixDurable, Covered
  <2>8. UNCHANGED <<vars, writers, takeovers, opening, faults, strays>>
    BY <1>6, <1>11
  <2>9. resuming' \in [Runtime -> {"no", "requested", "resuming", "abandoned"}]
    BY <1>6 DEF ProtocolInv, ProtocolTypeOK
  <2> QED BY <1>1, <2>3, <2>4, <2>6, <2>7, <2>8, <2>9, QuietStep
<1>12. CASE /\ x.call.kind = "flush" /\ x.ops[1].name # "close"
            /\ hs' = [hs EXCEPT ![h] = [Settled(x) EXCEPT !.ran = IF Head(x.ops).name = "tool"
                                                                  THEN Head(x.ops).mark ELSE @]]
            /\ UNCHANGED <<writers, takeovers>>
  <2>1. PICK u \in Seq(OpRec) : u = Tail(x.ops)
    <3>1. Tail(x.ops) \in Seq(OpRec)
      BY <1>7
    <3> QED BY <3>1
  <2>2. x.ops[1].mark \in Nat /\ x.ran \in Nat
    <3>1. x.ops[1] \in OpRec
      BY <1>7
    <3> QED BY <3>1, HandleFields DEF OpRec
  <2>3. PICK r \in Nat : r = IF x.ops[1].name = "tool" THEN x.ops[1].mark ELSE x.ran
    BY <2>2
  <2>4. Covered(x, r)
    BY <1>2, <1>12, <2>3 DEF LocalOK, FlushCovers, PrefixDurable
  <2>5. PICK y \in HandleRec : y = [x EXCEPT !.ops = u, !.call = NoCall, !.ran = r]
    BY NoCallType DEF HandleRec
  <2>6. /\ y.ops = u /\ y.call = NoCall /\ y.pending = x.pending /\ y.next = x.next
        /\ y.produced = x.produced /\ y.dropped = x.dropped /\ y.phase = x.phase /\ y.beat = x.beat
        /\ y.released = x.released /\ y.lost = x.lost /\ y.ran = r /\ y.start = x.start
        /\ y.rt = x.rt /\ y.token = x.token /\ y.epoch = x.epoch
    BY <2>5 DEF HandleRec
  <2>7. hs' = [hs EXCEPT ![h] = y]
    <3>1. [Settled(x) EXCEPT !.ran = IF Head(x.ops).name = "tool" THEN Head(x.ops).mark ELSE @] = y
      BY <1>7, <2>1, <2>3, <2>5 DEF Settled, HandleRec
    <3> QED BY <3>1, <1>12
  <2>8. LocalOK(h, y)
    BY <1>5, <1>12, <2>1, <2>6, SettledLocal
  <2>9. Continues(x, y) /\ Covered(y, y.ran) /\ y.call.state # "done"
    BY <2>4, <2>6, NoCallType DEF Continues, Ended, Covered
  <2>10. UNCHANGED <<vars, writers, takeovers, opening, faults, strays>>
    BY <1>6, <1>12
  <2>11. resuming' \in [Runtime -> {"no", "requested", "resuming", "abandoned"}]
    BY <1>6 DEF ProtocolInv, ProtocolTypeOK
  <2> QED BY <1>1, <2>6, <2>7, <2>8, <2>9, <2>10, <2>11, QuietStep
<1> QED BY <1>1, <1>7, <1>8, <1>9, <1>10, <1>11, <1>12 DEF Reply

-----------------------------------------------------------------------------
(* The server executes a handle's request.                                 *)

\* What was durable stays durable when the store moves.
LEMMA DurableKept ==
  ASSUME Moves, NEW h, NEW x \in HandleRec, PrefixDurable(h, x),
         NEW y \in HandleRec, y.rt = x.rt, y.start = x.start, y.next = x.next, y.ran = x.ran,
         y.dropped = x.dropped
  PROVE  PrefixDurable(h, y)'
<1>1. K(x.rt) \in Key
  <2>1. x.rt \in Principal
    BY HandleFields
  <2> QED BY <2>1, KType
<1>2. events[K(x.rt)] \subseteq events'[K(x.rt)]
  BY <1>1 DEF Moves
<1> QED BY <1>2 DEF PrefixDurable, Covered, K, KeyOf

\* The server executes the call of a handle.
LEMMA ServeCallStep ==
  ASSUME ProtocolInv, NEW h \in 1..Len(hs), ServeHandle(h, "call")
  PROVE  ProtocolInv'
<1>1. PICK x \in HandleRec : x = hs[h]
  BY HandleAt
<1>2. LocalOK(h, x) /\ SharedOK(h, x)
  BY <1>1, HandleAt DEF HandleOK
<1>3. /\ x.call \in CallRec /\ x.token \in Token /\ x.epoch \in Nat /\ x.rt \in Principal
  BY HandleFields
<1>4. x.call.state = "sent" /\ Serve(x.rt, x.call, x.token, x.epoch)
  BY <1>1 DEF ServeHandle
<1>5. x.call.kind \in OpKinds /\ Sendable(x.call)
  BY <1>2, <1>4, NoCallType DEF LocalOK, SlotsOK
<1>6. StoreOK /\ Moves
  BY <1>3, <1>4, <1>5, ServeMoves DEF ProtocolInv
<1> DEFINE a == Answer(x.rt, x.call, x.token, x.epoch)
<1>7. PICK c \in CallRec : /\ c = Answered(x.rt, x.call, x.token, x.epoch)
                           /\ Answers(c, x.call, a)
  BY <1>3, <1>5, <1>6, AnsweredCall DEF Moves
<1>8. PICK rel \in BOOLEAN : rel = (x.released \/ (x.call.kind = "release" /\ a = "OK"))
  OBVIOUS
<1>9. PICK y \in HandleRec : y = [x EXCEPT !.call = c, !.released = rel]
  BY DEF HandleRec
<1>10. hs' = [hs EXCEPT ![h] = y]
  <2>1. hs \in Seq(HandleRec)
    BY DEF ProtocolInv, ProtocolTypeOK
  <2> QED BY <2>1, <1>1, <1>7, <1>8, <1>9, ZenonT(60) DEF ServeHandle, HandleRec
<1>11. /\ y.call = c /\ y.ops = x.ops /\ y.pending = x.pending /\ y.next = x.next
       /\ y.produced = x.produced /\ y.dropped = x.dropped /\ y.phase = x.phase /\ y.beat = x.beat
       /\ y.released = rel /\ y.lost = x.lost /\ y.ran = x.ran /\ y.start = x.start
       /\ y.rt = x.rt /\ y.token = x.token /\ y.epoch = x.epoch
  BY <1>9 DEF HandleRec
<1>12. c.kind = x.call.kind /\ c.batch = x.call.batch /\ c.state = "done" /\ c.result = a
  BY <1>7 DEF Answers
<1> HIDE DEF a
<1>13. ~x.released /\ x.phase \in {"open", "closing"}
  BY <1>2, <1>4, <1>5 DEF LocalOK, ReleasedIsOver, CloseIsJoined
<1>14. LocalOK(h, y)
  <2>a. PendingOwn(h, y) /\ AppendIsPrefix(h, y)
    BY <1>2, <1>11, <1>12 DEF LocalOK, PendingOwn, AppendIsPrefix
  <2>b. NothingSkipped(y)
    BY <1>2, <1>11 DEF LocalOK, NothingSkipped
  <2>c. FlushCovers(y)
    <3>1. Covered(x, x.ops[1].mark) => Covered(y, x.ops[1].mark)
      BY <1>11 DEF Covered
    <3> QED BY <3>1, <1>2, <1>11, <1>12 DEF LocalOK, FlushCovers
  <2>1. PendingOwn(h, y) /\ NothingSkipped(y) /\ AppendIsPrefix(h, y) /\ FlushCovers(y)
    BY <2>a, <2>b, <2>c
  <2>2. CloseIsJoined(y)
    BY <1>2, <1>11, <1>12 DEF LocalOK, CloseIsJoined
  <2>3. SlotsOK(y)
    BY <1>2, <1>5, <1>11, <1>12 DEF LocalOK, SlotsOK, Sendable
  <2>4. ReleasedIsOver(y)
    <3>1. rel => x.call.kind = "release" /\ a = "OK" /\ ~x.lost
      BY <1>2, <1>8, <1>13 DEF LocalOK, CloseIsJoined
    <3> QED BY <3>1, <1>11, <1>12 DEF ReleasedIsOver
  <2> QED BY <2>1, <2>2, <2>3, <2>4 DEF LocalOK
<1>15. AnswerIsTrue(y)'
  <2> SUFFICES ASSUME c.kind = "append", c.result \in {"OK", "REPLAY"}
               PROVE  \A i \in 1..Len(c.batch) : c.batch[i] \in events'[K(x.rt)]
    BY <1>11 DEF AnswerIsTrue, K, KeyOf
  <2>1. \A i \in 1..Len(x.call.batch) : x.call.batch[i] \in events'[K(x.rt)]
    BY <1>3, <1>4, <1>5, <1>6, <1>12, AppendServed DEF a
  <2> QED BY <2>1, <1>12
<1>16. PrefixDurable(h, y)'
  BY <1>2, <1>6, <1>11, DurableKept DEF SharedOK
<1>17. Continues(x, y)
  BY <1>11 DEF Continues, Ended
<1>18. UNCHANGED <<writers, takeovers, opening, resuming, strays, faults>>
  BY DEF ServeHandle
<1>19. RestOK
  BY <1>18, RestKept
<1> QED BY <1>1, <1>6, <1>10, <1>14, <1>15, <1>16, <1>17, <1>18, <1>19, OneHandle

\* The server executes the heartbeat of a handle.
LEMMA ServeBeatStep ==
  ASSUME ProtocolInv, NEW h \in 1..Len(hs), ServeHandle(h, "beat")
  PROVE  ProtocolInv'
<1>1. PICK x \in HandleRec : x = hs[h]
  BY HandleAt
<1>2. LocalOK(h, x) /\ SharedOK(h, x)
  BY <1>1, HandleAt DEF HandleOK
<1>3. /\ x.beat \in CallRec /\ x.token \in Token /\ x.epoch \in Nat /\ x.rt \in Principal
  BY HandleFields
<1>4. x.beat.state = "sent" /\ Serve(x.rt, x.beat, x.token, x.epoch)
  BY <1>1 DEF ServeHandle
<1>5. x.beat.kind = "heartbeat" /\ Sendable(x.beat) /\ x.beat # NoCall
  BY <1>2, <1>4, NoCallType DEF LocalOK, SlotsOK, Sendable
<1>6. StoreOK /\ Moves
  BY <1>3, <1>4, <1>5, ServeMoves DEF ProtocolInv
<1> DEFINE a == Answer(x.rt, x.beat, x.token, x.epoch)
<1>7. PICK c \in CallRec : /\ c = Answered(x.rt, x.beat, x.token, x.epoch)
                           /\ Answers(c, x.beat, a)
  BY <1>3, <1>5, <1>6, AnsweredCall DEF Moves
<1>9. PICK y \in HandleRec : y = [x EXCEPT !.beat = c]
  BY DEF HandleRec
<1>10. hs' = [hs EXCEPT ![h] = y]
  <2>1. hs \in Seq(HandleRec)
    BY DEF ProtocolInv, ProtocolTypeOK
  <2>2. x.released = (x.released \/ (x.beat.kind = "release" /\ a = "OK"))
    BY <1>5, HandleFields
  <2>3. y = [x EXCEPT !.beat = c, !.released = x.released \/ (x.beat.kind = "release" /\ a = "OK")]
    BY <2>2, <1>9 DEF HandleRec
  <2>4. hs' = [hs EXCEPT ![h] = [x EXCEPT !.beat = c,
                                   !.released = x.released \/ (x.beat.kind = "release" /\ a = "OK")]]
    BY <2>1, <1>1, <1>7 DEF ServeHandle, HandleRec
  <2> QED BY <2>3, <2>4
<1>11. /\ y.call = x.call /\ y.ops = x.ops /\ y.pending = x.pending /\ y.next = x.next
       /\ y.produced = x.produced /\ y.dropped = x.dropped /\ y.start = x.start /\ y.phase = x.phase /\ y.beat = c
       /\ y.released = x.released /\ y.lost = x.lost /\ y.ran = x.ran /\ y.start = x.start
       /\ y.rt = x.rt /\ y.token = x.token /\ y.epoch = x.epoch
  BY <1>9 DEF HandleRec
<1>12. c.kind = "heartbeat"
  BY <1>5, <1>7 DEF Answers
<1>14. LocalOK(h, y)
  <2>1. PendingOwn(h, y) /\ NothingSkipped(y) /\ AppendIsPrefix(h, y) /\ FlushCovers(y)
    BY <1>2, <1>11 DEF LocalOK, PendingOwn, NothingSkipped, AppendIsPrefix, FlushCovers, Covered
  <2>2. CloseIsJoined(y)
    BY <1>2, <1>5, <1>11 DEF LocalOK, CloseIsJoined
  <2>3. SlotsOK(y) /\ ReleasedIsOver(y)
    BY <1>2, <1>11, <1>12 DEF LocalOK, SlotsOK, ReleasedIsOver
  <2> QED BY <2>1, <2>2, <2>3 DEF LocalOK
<1>15. AnswerIsTrue(y)'
  <2>1. events[K(x.rt)] \subseteq events'[K(x.rt)]
    BY <1>3, <1>6, KType DEF Moves
  <2> QED BY <1>2, <1>11, <2>1 DEF AnswerIsTrue, K, KeyOf, SharedOK
<1>16. PrefixDurable(h, y)'
  BY <1>2, <1>6, <1>11, DurableKept DEF SharedOK
<1>17. Continues(x, y)
  BY <1>11 DEF Continues, Ended
<1>18. UNCHANGED <<writers, takeovers, opening, resuming, strays, faults>>
  BY DEF ServeHandle
<1>19. RestOK
  BY <1>18, RestKept
<1> QED BY <1>1, <1>6, <1>10, <1>14, <1>15, <1>16, <1>17, <1>18, <1>19, OneHandle

-----------------------------------------------------------------------------
(* Steps that leave the handles alone.                                     *)

\* A handle that does nothing keeps its facts while the store moves.
LEMMA HandleStays ==
  ASSUME ProtocolInv, Moves, NEW h \in 1..Len(hs), hs'[h] = hs[h],
         writers[hs[h].rt] = h => writers'[hs[h].rt] = h
  PROVE  HandleMoves(h)
<1>1. PICK x \in HandleRec : x = hs[h]
  BY HandleAt
<1>2. HandleOK(h, x)
  BY <1>1, HandleAt
<1>3. SharedOK(h, x)'
  BY <1>1, <1>2, SharedKept DEF HandleOK, ProtocolInv
<1>4. LocalOK(h, x)'
  BY <1>2 DEF HandleOK, LocalOK, PendingOwn, NothingSkipped, AppendIsPrefix,
              FlushCovers, CloseIsJoined, ReleasedIsOver, SlotsOK, Sendable
<1>5. Continues(hs[h], x)
  BY <1>1 DEF Continues
<1> QED BY <1>1, <1>3, <1>4, <1>5 DEF HandleMoves, HandleOK

\* All handles wait while the store moves.
LEMMA HandlesStay ==
  ASSUME ProtocolInv, Moves, RestOK, UNCHANGED <<hs, writers>>,
         \A q \in strays' : q \in strays \/ StrayMade(q)
  PROVE  ProtocolInv'
<1>1. \A h \in 1..Len(hs) : HandleMoves(h)
  BY HandleStays
<1>2. hs' \in Seq(HandleRec) /\ Len(hs') = Len(hs)
  BY DEF ProtocolInv, ProtocolTypeOK
<1> QED BY <1>1, <1>2, HandlesStep

\* The other writers and the clock.
LEMMA StoreStep ==
  ASSUME ProtocolInv, Moves, UNCHANGED clientVars
  PROVE  ProtocolInv'
<1>1. UNCHANGED <<hs, writers, takeovers, opening, resuming, strays, faults>>
  BY DEF clientVars
<1>2. RestOK
  BY <1>1, RestKept
<1> QED BY <1>1, <1>2, HandlesStay

\* Another writer takes the session over or writes to it.
LEMMA OtherStep ==
  ASSUME ProtocolInv, NEW p \in Others, OtherTakesOver(p) \/ OtherWrites(p)
  PROVE  ProtocolInv'
<1>1. p \in Principal /\ StoreOK /\ K(p) \in Key
  BY KType DEF Others, ProtocolInv
<1>2. CASE OtherTakesOver(p)
  <2>1. Moves
    BY <1>1, <1>2, OpenMoves DEF OtherTakesOver
  <2> QED BY <1>2, <2>1, StoreStep DEF OtherTakesOver
<1>3. CASE OtherWrites(p)
  <2>1. PICK r \in Row : r = row[K(p)]
    BY <1>1, RowFields
  <2>2. r.actor = ActorOf[p] /\ UNCHANGED clientVars
    BY <1>3, <2>1 DEF OtherWrites
  <2>3. r.count \in Nat /\ r.epoch \in Nat /\ r.token \in Token \cup {None}
    BY RowType
  <2>4. ActorOf[p] # None
    BY <1>1
  <2>5. r.token \in Token
    BY <1>1, <2>1, <2>2, <2>3, <2>4 DEF StoreOK, LeaseHasToken
  <2>6. PICK b : b = <<[seq |-> r.count, body |-> 0]>>
    OBVIOUS
  <2>7. CASE release(p, s0, r.token, r.epoch)
    BY <1>1, <2>2, <2>3, <2>5, <2>7, WriterMoves, StoreStep
  <2>8. CASE append_events(p, s0, r.token, r.epoch, b, b)
    <3>1. r.count < MaxEvents
      <4>1. row[K(p)].count + Len(b) <= MaxEvents
        BY <2>8 DEF append_events, K
      <4>2. Len(b) = 1
        BY <2>6
      <4> QED BY <4>1, <4>2, <2>1, <2>3
    <3>2. [seq |-> r.count, body |-> 0] \in Envelope
      BY <3>1, <2>3 DEF Envelope
    <3>3. b \in [1..1 -> Envelope] /\ 1 \in 1..MaxBatch
      BY <3>2, <2>6
    <3>4. b \in BoundedBatch
      BY <3>3 DEF BoundedBatch, Envelope
    <3> QED BY <1>1, <2>2, <2>3, <2>5, <2>8, <3>4, AppendMoves, StoreStep
  <2> QED BY <1>3, <2>1, <2>6, <2>7, <2>8 DEF OtherWrites
<1> QED BY <1>2, <1>3

\* Time passes.
LEMMA ProtocolTickStep == ASSUME ProtocolInv, ProtocolTick PROVE ProtocolInv'
  BY TickMoves, StoreStep DEF ProtocolTick, ProtocolInv

\* A late request reaches the server.
LEMMA ServeStrayStep ==
  ASSUME ProtocolInv, NEW q \in strays, ServeStray(q)
  PROVE  ProtocolInv'
<1>1. q \in StrayRec /\ StrayOK(q) /\ StoreOK
  BY DEF ProtocolInv, ProtocolTypeOK, StraysOK
<1>2. q.rt \in Principal /\ q.call \in CallRec /\ q.epoch \in Nat
  BY <1>1 DEF StrayRec
<1>3. Moves
  BY <1>1, <1>2, ServeMoves DEF ServeStray, StrayOK
<1>4. hs \in Seq(HandleRec) /\ DOMAIN hs = 1..Len(hs)
  BY DEF ProtocolInv, ProtocolTypeOK
<1> DEFINE hit(h) == /\ q.call.kind = "release" /\ hs[h].token = q.token
                     /\ Answer(q.rt, q.call, q.token, q.epoch) = "OK"
<1>5. hs' = [h \in 1..Len(hs) |-> IF hit(h) THEN [hs[h] EXCEPT !.released = TRUE] ELSE hs[h]]
  BY <1>4 DEF ServeStray
<1>6. UNCHANGED <<writers, takeovers, opening, resuming, faults>> /\ strays' = strays \ {q}
  BY DEF ServeStray
<1> HIDE DEF hit
<1>7. \A h \in 1..Len(hs) : hs'[h] \in HandleRec
  <2>1. \A x \in HandleRec : [x EXCEPT !.released = TRUE] \in HandleRec
    BY DEF HandleRec
  <2>2. \A h \in 1..Len(hs) : hs[h] \in HandleRec
    BY <1>4
  <2> QED BY <1>5, <2>1, <2>2
<1>8. hs' \in Seq(HandleRec) /\ Len(hs') = Len(hs)
  <2>1. Len(hs) \in Nat
    BY <1>4
  <2>2. hs' \in [1..Len(hs) -> HandleRec]
    BY <1>5, <1>7
  <2> QED BY <2>1, <2>2
<1>9. ASSUME NEW h \in 1..Len(hs) PROVE HandleMoves(h)
  <2>1. CASE ~hit(h)
    BY <2>1, <1>3, <1>5, <1>6, HandleStays
  <2>2. CASE hit(h)
    <3>1. PICK x \in HandleRec : x = hs[h]
      BY HandleAt
    <3>2. LocalOK(h, x) /\ SharedOK(h, x)
      BY <3>1, HandleAt DEF HandleOK
    <3>3. Ended(x)
      <4>1. PICK g \in 1..Len(hs) : hs[g].token = q.token /\ Ended(hs[g])
        BY <1>1, <2>2 DEF StrayOK, hit, Ended
      <4>2. g = h
        BY <4>1, <2>2 DEF hit, ProtocolInv, HandlesDistinct
      <4> QED BY <4>1, <4>2, <3>1
    <3>4. PICK y \in HandleRec : y = [x EXCEPT !.released = TRUE]
      BY DEF HandleRec
    <3>5. /\ y.call = x.call /\ y.ops = x.ops /\ y.pending = x.pending /\ y.next = x.next
          /\ y.produced = x.produced /\ y.dropped = x.dropped /\ y.phase = x.phase /\ y.beat = x.beat
          /\ y.lost = x.lost /\ y.ran = x.ran /\ y.start = x.start
          /\ y.rt = x.rt /\ y.token = x.token /\ y.epoch = x.epoch
      BY <3>4 DEF HandleRec
    <3>6. y = hs'[h]
      BY <1>5, <2>2, <3>1, <3>4
    <3>7. LocalOK(h, y)'
      <4>1. ReleasedIsOver(y)
        BY <3>3, <3>5 DEF ReleasedIsOver, Ended
      <4> QED BY <4>1, <3>2, <3>5 DEF LocalOK, PendingOwn, NothingSkipped, AppendIsPrefix,
                 FlushCovers, Covered, CloseIsJoined, ReleasedIsOver, SlotsOK, Sendable
    <3>8. Continues(x, y)
      BY <3>5 DEF Continues, Ended
    <3>9. AnswerIsTrue(y)'
      <4>1. x.rt \in Principal
        BY HandleFields
      <4>2. events[K(x.rt)] \subseteq events'[K(x.rt)]
        BY <4>1, <1>3, KType DEF Moves
      <4> QED BY <4>2, <3>2, <3>5 DEF AnswerIsTrue, K, KeyOf, SharedOK
    <3>10. PrefixDurable(h, y)'
      BY <1>3, <3>2, <3>5, DurableKept DEF SharedOK
    <3>11. SharedOK(h, y)'
      BY <1>1, <1>3, <1>6, <3>2, <3>8, <3>9, <3>10, SharedStep
    <3> QED BY <3>1, <3>6, <3>7, <3>8, <3>11 DEF HandleMoves, HandleOK
  <2> QED BY <2>1, <2>2
<1>10. RestOK
  BY <1>6, RestKept
<1> QED BY <1>3, <1>6, <1>8, <1>9, <1>10, HandlesStep

-----------------------------------------------------------------------------
(* Opening and adopting.                                                   *)

\* The request of one runtime changes.
LEMMA OpeningStep ==
  ASSUME ProtocolInv, Moves, UNCHANGED <<hs, writers, strays>>,
         takeovers' \in [Runtime -> Nat], faults' \in Nat,
         resuming' \in [Runtime -> {"no", "requested", "resuming", "abandoned"}],
         NEW rt \in Runtime, NEW c \in CallRec, opening' = [opening EXCEPT ![rt] = c],
         c = NoCall \/ c.kind \in OpenKinds,
         c.state = "done" /\ c.result = "OK" =>
           /\ c.token \in Token
           /\ Granted(c.token, c.epoch, K(rt))'
           /\ \A h \in 1..Len(hs) : /\ hs[h].token # c.token
                                    /\ hs[h].rt = rt => hs[h].epoch < c.epoch
           /\ \A q \in Runtime : Won(q) => opening[q].token # c.token
  PROVE  ProtocolInv'
<1>1. opening \in [Runtime -> CallRec] /\ hs \in Seq(HandleRec) /\ writers \in [Runtime -> Nat]
  BY DEF ProtocolInv, ProtocolTypeOK
<1>2. opening'[rt] = c /\ \A q \in Runtime : q # rt => opening'[q] = opening[q]
  BY <1>1
<1>3. \A h \in 1..Len(hs) : HandleMoves(h)
  BY HandleStays
<1>4. HandlesOK'
  <2> SUFFICES ASSUME NEW h \in 1..Len(hs) PROVE HandleOK(h, hs[h])'
    BY DEF HandlesOK
  <2>1. PICK y \in HandleRec : y = hs'[h] /\ HandleOK(h, y)'
    BY <1>3 DEF HandleMoves
  <2> QED BY <2>1, PrimedHandle
<1>5. HandlesDistinct' /\ StraysOK'
  BY DEF HandlesDistinct, ProtocolInv, StraysOK, StrayOK, Sendable
<1>6. OpeningsOK'
  <2> SUFFICES ASSUME NEW q \in Runtime PROVE OpeningOK(q)'
    BY DEF OpeningsOK
  <2>1. CASE q = rt
    <3>1. Won(rt)' => c.state = "done" /\ c.result = "OK"
      BY <1>2 DEF Won
    <3>2. Won(rt)' => Granted(opening[rt].token, opening[rt].epoch, K(rt))'
      BY <3>1, <1>2 DEF Granted, K, KeyOf
    <3> QED BY <3>1, <3>2, <2>1, <1>2 DEF OpeningOK
  <2>2. CASE q # rt
    <3>1. OpeningOK(q) /\ opening'[q] = opening[q]
      BY <2>2, <1>2 DEF ProtocolInv, OpeningsOK
    <3>2. Won(q)' => Won(q)
      BY <3>1 DEF Won
    <3>3. Won(q)' => Granted(opening[q].token, opening[q].epoch, K(q))'
      BY <3>1, <3>2 DEF OpeningOK, Granted, Moves, K, KeyOf
    <3> QED BY <3>1, <3>2, <3>3 DEF OpeningOK
  <2> QED BY <2>1, <2>2
<1>7. OpeningsDistinct'
  <2> SUFFICES ASSUME NEW r \in Runtime, NEW q \in Runtime, Won(r)', Won(q)',
                      opening'[r].token = opening'[q].token
               PROVE  r = q
    BY DEF OpeningsDistinct
  <2>1. Won(rt)' => c.state = "done" /\ c.result = "OK"
    BY <1>2 DEF Won
  <2>2. (r # rt => Won(r)) /\ (q # rt => Won(q))
    BY <1>2 DEF Won
  <2> QED BY <2>1, <2>2, <1>2 DEF ProtocolInv, OpeningsDistinct
<1>8. ProtocolTypeOK'
  <2>1. opening' \in [Runtime -> CallRec]
    BY <1>1
  <2> QED BY <2>1 DEF ProtocolInv, ProtocolTypeOK
<1> QED BY <1>4, <1>5, <1>6, <1>7, <1>8 DEF ProtocolInv, Moves

\* A runtime asks for the session.
LEMMA RequestStep ==
  ASSUME ProtocolInv, NEW rt \in Runtime,
         create(rt) \/ open(rt) \/ \E e \in 1..MaxEpoch : resumeWithTakeover(rt, e)
  PROVE  ProtocolInv'
<1>1. Moves /\ UNCHANGED <<hs, writers, takeovers, strays, faults>>
  <2>1. UNCHANGED vars /\ UNCHANGED <<hs, writers, takeovers, strays, faults>>
    BY DEF create, open, resumeWithTakeover
  <2> QED BY <2>1, StandsStill DEF ProtocolInv
<1>2. PICK c \in CallRec : opening' = [opening EXCEPT ![rt] = c] /\ c.kind \in OpenKinds /\ c.state = "sent"
  <2>1. CASE create(rt)
    <3>1. PICK c \in CallRec : c = Call("create", << >>, {}) /\ c.kind = "create" /\ c.state = "sent"
      BY EmptyCall DEF Kinds, OpenKinds
    <3> QED BY <2>1, <3>1 DEF create, OpenKinds
  <2>2. CASE open(rt)
    <3>1. PICK c \in CallRec : c = Call("open", << >>, {}) /\ c.kind = "open" /\ c.state = "sent"
      BY EmptyCall DEF Kinds, OpenKinds
    <3> QED BY <2>2, <3>1 DEF open, OpenKinds
  <2>3. CASE \E e \in 1..MaxEpoch : resumeWithTakeover(rt, e)
    <3>1. PICK e \in 1..MaxEpoch : resumeWithTakeover(rt, e)
      BY <2>3
    <3>2. PICK ex \in SUBSET Nat : ex = {e}
      <4>1. {e} \in SUBSET Nat
        OBVIOUS
      <4> QED BY <4>1
    <3>3. << >> \in Seq(Event)
      OBVIOUS
    <3>4. PICK c : c = Call("takeover", << >>, ex)
      OBVIOUS
    <3>5. c \in CallRec /\ c.kind = "takeover" /\ c.state = "sent"
      BY <3>3, <3>4, NoCallType DEF Call, CallRec, NoCall, Kinds, OpenKinds
    <3> QED BY <3>1, <3>2, <3>4, <3>5 DEF resumeWithTakeover, OpenKinds
  <2> QED BY <2>1, <2>2, <2>3
<1>3. resuming' \in [Runtime -> {"no", "requested", "resuming", "abandoned"}]
  BY DEF create, open, resumeWithTakeover, ProtocolInv, ProtocolTypeOK
<1>4. takeovers' \in [Runtime -> Nat] /\ faults' \in Nat
  BY <1>1 DEF ProtocolInv, ProtocolTypeOK
<1> QED BY <1>1, <1>2, <1>3, <1>4, OpeningStep

\* The server answers it.
LEMMA ServeOpeningStep ==
  ASSUME ProtocolInv, NEW rt \in Runtime, ServeOpening(rt)
  PROVE  ProtocolInv'
<1>1. PICK r \in CallRec : r = opening[rt]
  BY DEF ProtocolInv, ProtocolTypeOK
<1>2. rt \in Principal /\ StoreOK /\ K(rt) \in Key
  BY KType DEF ProtocolInv
<1>3. r.state = "sent" /\ Serve(rt, r, None, 0)
  BY <1>1 DEF ServeOpening
<1>4. r.kind \in OpenKinds
  BY <1>1, <1>3, NoCallType DEF ProtocolInv, OpeningsOK, OpeningOK
<1>5. Sendable(r) /\ r.kind \notin OpKinds \cup {"heartbeat"}
  BY <1>4 DEF Sendable, OpenKinds, OpKinds
<1>6. Moves
  BY <1>2, <1>3, <1>5, ServeMoves
<1> DEFINE a == Answer(rt, r, None, 0)
<1>7. PICK c \in CallRec : /\ c = Answered(rt, r, None, 0) /\ Answers(c, r, a)
                           /\ c.epoch = row'[K(rt)].epoch /\ c.token = row'[K(rt)].token
  BY <1>2, <1>4, <1>5, <1>6, AnsweredCall DEF Moves
<1>8. c.kind = r.kind /\ c.result = a
  BY <1>7 DEF Answers
<1>9. opening' = [opening EXCEPT ![rt] = c]
      /\ UNCHANGED <<hs, writers, takeovers, resuming, strays, faults>>
  BY <1>1, <1>7 DEF ServeOpening
<1>10. ASSUME c.result = "OK"
       PROVE  /\ c.token \in Token
              /\ Granted(c.token, c.epoch, K(rt))'
              /\ \A h \in 1..Len(hs) : /\ hs[h].token # c.token
                                       /\ hs[h].rt = rt => hs[h].epoch < c.epoch
              /\ \A q \in Runtime : Won(q) => opening[q].token # c.token
  <2>1. Grants(K(rt), NewToken)
    BY <1>2, <1>3, <1>4, <1>8, <1>10, OpenServed
  <2>2. c.token \in Token \ Minted /\ c.epoch = row[K(rt)].epoch + 1
    BY <2>1, <1>7 DEF Grants
  <2>3. PICK b : grants' = grants \cup {[key |-> K(rt), epoch |-> c.epoch, token |-> c.token, actor |-> b]}
    BY <2>1, <2>2, <1>7 DEF Grants
  <2>4. Granted(c.token, c.epoch, K(rt))'
    <3>1. PICK g : g = [key |-> K(rt), epoch |-> c.epoch, token |-> c.token, actor |-> b]
      OBVIOUS
    <3>2. g \in grants' /\ g.token = c.token /\ g.epoch = c.epoch /\ g.key = K(rt)
      BY <2>3, <3>1
    <3> QED BY <3>2 DEF Granted, K, KeyOf
  <2>5. \A g \in grants : g.token \in Minted
    BY DEF Minted
  <2>6. ASSUME NEW h \in 1..Len(hs)
        PROVE  hs[h].token # c.token /\ (hs[h].rt = rt => hs[h].epoch < c.epoch)
    <3>1. PICK g \in grants : g.token = hs[h].token /\ g.epoch = hs[h].epoch /\ g.key = K(hs[h].rt)
      BY HandleAt DEF HandleOK, SharedOK, Granted
    <3>2. g.epoch <= row[g.key].epoch /\ hs[h].epoch \in Nat
      BY HandleAt DEF ProtocolInv, StoreOK, GrantsBounded
    <3>3. row[K(rt)].epoch \in Nat
      BY <1>2, RowFields
    <3> QED BY <2>2, <2>5, <3>1, <3>2, <3>3
  <2>7. ASSUME NEW q \in Runtime, Won(q) PROVE opening[q].token # c.token
    <3>1. Granted(opening[q].token, opening[q].epoch, K(q))
      BY <2>7 DEF ProtocolInv, OpeningsOK, OpeningOK
    <3> QED BY <3>1, <2>2, <2>5 DEF Granted
  <2> QED BY <2>2, <2>4, <2>6, <2>7
<1>11. /\ takeovers' \in [Runtime -> Nat] /\ faults' \in Nat
       /\ resuming' \in [Runtime -> {"no", "requested", "resuming", "abandoned"}]
  BY <1>9 DEF ProtocolInv, ProtocolTypeOK
<1> QED BY <1>4, <1>6, <1>8, <1>9, <1>10, <1>11, OpeningStep

\* A new handle knows nothing but its capability.
LEMMA NewHandleOK ==
  ASSUME NEW rt \in Runtime, NEW c \in CallRec, c.token \in Token, NEW h
  PROVE  \E y \in HandleRec :
           /\ y = NewHandle(rt, c) /\ LocalOK(h, y)
           /\ y.rt = rt /\ y.token = c.token /\ y.epoch = c.epoch /\ y.call = NoCall
           /\ y.start = y.next /\ y.ran = y.next /\ y.next \in Nat
<1>1. c.epoch \in Nat /\ c.next \in Nat
  BY DEF CallRec
<1>2. << >> \in Seq(Envelope) /\ << >> \in Seq(OpRec)
  OBVIOUS
<1> DEFINE y == NewHandle(rt, c)
<1>3. y \in HandleRec
  BY <1>1, <1>2, NoCallType DEF NewHandle, HandleRec
<1>4. /\ y.rt = rt /\ y.token = c.token /\ y.epoch = c.epoch /\ y.call = NoCall /\ y.beat = NoCall
      /\ y.start = c.next /\ y.next = c.next /\ y.produced = c.next /\ y.ran = c.next
      /\ y.phase = "open" /\ y.pending = << >> /\ y.ops = << >> /\ y.released = FALSE
  BY DEF NewHandle
<1> HIDE DEF y
<1>5. PICK x \in HandleRec : x = y
  BY <1>3
<1>6. /\ Len(x.pending) = 0 /\ Len(x.ops) = 0 /\ x.call.kind = "none" /\ x.produced = x.next
      /\ x.next \in Nat /\ ~x.released /\ x.call = NoCall /\ x.beat = NoCall
  BY <1>1, <1>4, <1>5, NoCallType
<1>7. PendingOwn(h, x) /\ NothingSkipped(x)
  BY <1>6 DEF PendingOwn, NothingSkipped
<1>8. AppendIsPrefix(h, x) /\ FlushCovers(x) /\ SlotsOK(x)
  BY <1>6 DEF AppendIsPrefix, FlushCovers, Covered, SlotsOK, Sendable, OpKinds
<1>9. CloseIsJoined(x) /\ ReleasedIsOver(x)
  BY <1>6 DEF CloseIsJoined, ReleasedIsOver, OpKinds
<1>10. LocalOK(h, x)
  BY <1>7, <1>8, <1>9 DEF LocalOK
<1> QED BY <1>1, <1>4, <1>5, <1>10 DEF y

\* A granted session becomes a handle, and the runtime routes to it.
LEMMA AdoptStep ==
  ASSUME ProtocolInv, UNCHANGED <<vars, strays, faults>>, NEW rt \in Runtime, Won(rt),
         adopt(rt, opening[rt]), opening' = [opening EXCEPT ![rt] = NoCall],
         takeovers' \in [Runtime -> Nat],
         resuming' \in [Runtime -> {"no", "requested", "resuming", "abandoned"}]
  PROVE  ProtocolInv'
<1>1. PICK c \in CallRec : c = opening[rt]
  BY DEF ProtocolInv, ProtocolTypeOK
<1>2. /\ c.token \in Token /\ Granted(c.token, c.epoch, K(rt)) /\ c.epoch \in Nat
      /\ \A h \in 1..Len(hs) : hs[h].token # c.token /\ (hs[h].rt = rt => hs[h].epoch < c.epoch)
  BY <1>1 DEF ProtocolInv, OpeningsOK, OpeningOK, CallRec
<1>3. hs \in Seq(HandleRec) /\ Len(hs) \in Nat /\ writers \in [Runtime -> Nat]
      /\ opening \in [Runtime -> CallRec]
  BY DEF ProtocolInv, ProtocolTypeOK
<1>4. PICK n \in Nat : n = Len(hs) + 1
  BY <1>3
<1>5. PICK y \in HandleRec :
           /\ y = NewHandle(rt, c) /\ LocalOK(n, y)
           /\ y.rt = rt /\ y.token = c.token /\ y.epoch = c.epoch /\ y.call = NoCall
           /\ y.start = y.next /\ y.ran = y.next /\ y.next \in Nat
  BY <1>2, NewHandleOK, SMTT(40)
<1>6. hs' = Append(hs, y) /\ Len(hs) < MaxHandles /\ writers' = [writers EXCEPT ![rt] = n]
  BY <1>1, <1>4, <1>5 DEF adopt
<1>7. /\ hs' \in Seq(HandleRec) /\ Len(hs') = n /\ hs'[n] = y
      /\ \A h \in 1..Len(hs) : hs'[h] = hs[h]
  BY <1>3, <1>4, <1>6
<1>8. \A h \in 1..n : h \in 1..Len(hs) \/ h = n
  BY <1>3, <1>4
<1>9. Moves /\ UNCHANGED <<row, events, grants>>
  BY StandsStill DEF ProtocolInv, vars
<1>10. K(rt) \in Key /\ row[K(rt)].epoch \in Nat
  BY KType, RowFields DEF ProtocolInv
<1>11. c.epoch <= row[K(rt)].epoch
  BY <1>2 DEF Granted, ProtocolInv, StoreOK, GrantsBounded
<1>12. HandlesOK'
  <2> SUFFICES ASSUME NEW h \in 1..n PROVE HandleOK(h, hs[h])'
    BY <1>7 DEF HandlesOK
  <2>1. CASE h = n
    <3>1. LocalOK(n, y)'
      BY <1>5 DEF LocalOK, PendingOwn, NothingSkipped, AppendIsPrefix,
              FlushCovers, CloseIsJoined, ReleasedIsOver, SlotsOK, Sendable
    <3>2. Granted(y.token, y.epoch, K(y.rt))'
      BY <1>2, <1>5, <1>9 DEF Granted, K, KeyOf
    <3>3. AnswerIsTrue(y)'
      BY <1>5, NoCallType DEF AnswerIsTrue
    <3>4. PrefixDurable(n, y)'
      BY <1>5 DEF PrefixDurable, Covered
    <3>5. writers'[rt] = n
      BY <1>3, <1>6
    <3>6. RoutedIfCurrent(n, y)'
      BY <3>5, <1>5 DEF RoutedIfCurrent
    <3>7. HandleOK(n, y)'
      BY <3>1, <3>2, <3>3, <3>4, <3>6 DEF HandleOK, SharedOK
    <3> QED BY <2>1, <3>7, <1>7, PrimedHandle
  <2>2. CASE h \in 1..Len(hs)
    <3>1. PICK x \in HandleRec : x = hs[h]
      BY <2>2, HandleAt
    <3>2. HandleOK(h, x) /\ hs'[h] = x /\ x.epoch \in Nat
      BY <2>2, <3>1, <1>7, HandleAt
    <3>3. CASE x.rt # rt
      <4>1. writers'[x.rt] = writers[x.rt]
        BY <3>3, <1>3, <1>6
      <4>2. HandleMoves(h)
        BY <2>2, <3>1, <3>2, <4>1, <1>9, HandleStays
      <4>3. HandleOK(h, x)'
        BY <4>2, <3>2 DEF HandleMoves
      <4> QED BY <4>3, <3>2, PrimedHandle
    <3>4. CASE x.rt = rt
      <4>1. x.epoch < row[K(x.rt)].epoch
        BY <3>1, <3>2, <3>4, <2>2, <1>2, <1>10, <1>11
      <4>2. RoutedIfCurrent(h, x)'
        BY <4>1, <3>2, <3>4, <1>9, <1>10 DEF RoutedIfCurrent, K, KeyOf
      <4>3. Granted(x.token, x.epoch, K(x.rt))' /\ AnswerIsTrue(x)' /\ PrefixDurable(h, x)'
        BY <3>2, <1>9 DEF HandleOK, SharedOK, Granted, AnswerIsTrue, PrefixDurable, Covered, K, KeyOf
      <4>4. LocalOK(h, x)'
        BY <3>2 DEF HandleOK, LocalOK, PendingOwn, NothingSkipped, AppendIsPrefix,
              FlushCovers, CloseIsJoined, ReleasedIsOver, SlotsOK, Sendable
      <4>5. HandleOK(h, x)'
        BY <4>2, <4>3, <4>4 DEF HandleOK, SharedOK
      <4> QED BY <4>5, <3>2, PrimedHandle
    <3> QED BY <3>3, <3>4
  <2> QED BY <2>1, <2>2, <1>8
<1>13. HandlesDistinct'
  <2> SUFFICES ASSUME NEW g \in 1..n, NEW h \in 1..n, hs'[g].token = hs'[h].token PROVE g = h
    BY <1>7 DEF HandlesDistinct
  <2> QED BY <1>2, <1>5, <1>7, <1>8, ZenonT(60) DEF ProtocolInv, HandlesDistinct
<1>14. /\ opening'[rt] = NoCall
       /\ \A q \in Runtime : q # rt => opening'[q] = opening[q]
  BY <1>3
<1>15. \A q \in Runtime : Won(q)' => Won(q) /\ q # rt
  BY <1>14, NoCallType DEF Won
<1>16. OpeningsOK'
  <2> SUFFICES ASSUME NEW q \in Runtime PROVE OpeningOK(q)'
    BY DEF OpeningsOK
  <2>1. (opening[q] = NoCall \/ opening[q].kind \in OpenKinds)'
    BY <1>14 DEF ProtocolInv, OpeningsOK, OpeningOK
  <2>2. ASSUME Won(q)'
        PROVE  (/\ opening[q].token \in Token
                /\ Granted(opening[q].token, opening[q].epoch, K(q))
                /\ \A h \in 1..Len(hs) : /\ hs[h].token # opening[q].token
                                         /\ hs[h].rt = q => hs[h].epoch < opening[q].epoch)'
    <3>1. Won(q) /\ q # rt /\ opening'[q] = opening[q] /\ OpeningOK(q)
      BY <2>2, <1>14, <1>15 DEF ProtocolInv, OpeningsOK
    <3>2. opening[q].token # c.token
      BY <3>1, <1>1 DEF ProtocolInv, OpeningsDistinct
    <3>3. \A h \in 1..n : /\ hs'[h].token # opening[q].token
                          /\ hs'[h].rt = q => hs'[h].epoch < opening[q].epoch
      BY <3>1, <3>2, <1>5, <1>7, <1>8 DEF OpeningOK
    <3>4. Granted(opening[q].token, opening[q].epoch, K(q))'
      BY <3>1, <1>9 DEF OpeningOK, Granted, K, KeyOf
    <3> QED BY <3>1, <3>3, <3>4, <1>7 DEF OpeningOK
  <2> QED BY <2>1, <2>2 DEF OpeningOK
<1>17. OpeningsDistinct'
  BY <1>14, <1>15 DEF ProtocolInv, OpeningsDistinct
<1>18. StraysOK'
  <2> SUFFICES ASSUME NEW q \in strays PROVE StrayOK(q)'
    BY DEF StraysOK
  <2>1. StrayOK(q)
    BY DEF ProtocolInv, StraysOK
  <2>2. \A h \in 1..Len(hs) : h \in 1..n
    BY <1>3, <1>4
  <2> QED BY <2>1, <2>2, <1>7 DEF StrayOK, Sendable
<1>19. ProtocolTypeOK'
  <2>1. writers' \in [Runtime -> Nat] /\ opening' \in [Runtime -> CallRec]
    BY <1>3, <1>6, NoCallType
  <2>2. \A q \in Runtime : writers'[q] <= n
    BY <1>3, <1>4, <1>6 DEF ProtocolInv, ProtocolTypeOK
  <2>3. n <= MaxHandles
    BY <1>3, <1>4, <1>6
  <2> QED BY <2>1, <2>2, <2>3, <1>7 DEF ProtocolInv, ProtocolTypeOK
<1> QED BY <1>9, <1>12, <1>13, <1>16, <1>17, <1>18, <1>19 DEF ProtocolInv, Moves

\* The answer of an open is read: the session is adopted or refused.
LEMMA OpenedStep ==
  ASSUME ProtocolInv, NEW rt \in Runtime, Opened(rt)
  PROVE  ProtocolInv'
<1>1. /\ opening[rt].state = "done" /\ opening' = [opening EXCEPT ![rt] = NoCall]
      /\ UNCHANGED <<vars, strays, faults>>
  BY DEF Opened
<1>2. hs \in Seq(HandleRec) /\ takeovers \in [Runtime -> Nat] /\ faults \in Nat
      /\ resuming \in [Runtime -> {"no", "requested", "resuming", "abandoned"}]
  BY DEF ProtocolInv, ProtocolTypeOK
<1>3. CASE opening[rt].result = "OK"
  <2>1. Won(rt) /\ adopt(rt, opening[rt])
    BY <1>1, <1>3 DEF Won, Opened
  <2>2. Len(hs) + 1 \in Nat
    BY <1>2
  <2>3. takeovers' \in [Runtime -> Nat]
        /\ resuming' \in [Runtime -> {"no", "requested", "resuming", "abandoned"}]
    BY <1>2, <1>3, <2>2 DEF Opened
  <2> QED BY <1>1, <2>1, <2>3, AdoptStep
<1>4. CASE opening[rt].result # "OK"
  <2>1. UNCHANGED <<hs, writers, takeovers>> /\ resuming' = [resuming EXCEPT ![rt] = "no"]
    BY <1>4 DEF Opened
  <2>2. takeovers' \in [Runtime -> Nat]
        /\ resuming' \in [Runtime -> {"no", "requested", "resuming", "abandoned"}]
    BY <1>2, <2>1
  <2>3. Moves
    BY <1>1, StandsStill DEF ProtocolInv
  <2>4. NoCall \in CallRec /\ NoCall.state # "done"
    BY NoCallType
  <2> QED BY <1>1, <1>2, <2>1, <2>2, <2>3, <2>4, OpeningStep
<1> QED BY <1>3, <1>4

\* A forgotten opening may still be executed.
LEMMA StrayOfOpening ==
  ASSUME ProtocolInv, NEW rt \in Runtime, NEW q \in Stray(rt, opening[rt], None, 0)
  PROVE  StrayMade(q)
<1>1. PICK c \in CallRec : c = opening[rt]
  BY DEF ProtocolInv, ProtocolTypeOK
<1>2. c.state = "sent" /\ q = [rt |-> rt, call |-> c, token |-> None, epoch |-> 0]
  BY <1>1 DEF Stray
<1>3. c.kind \in OpenKinds
  BY <1>1, <1>2, NoCallType DEF ProtocolInv, OpeningsOK, OpeningOK
<1>4. q.call = c /\ q \in StrayRec
  BY <1>2 DEF StrayRec
<1> QED BY <1>3, <1>4 DEF StrayMade, Sendable, OpenKinds, OpKinds

\* An open times out; it may still be executed, and its grant is then unused.
LEMMA OpeningTimeoutStep ==
  ASSUME ProtocolInv, NEW rt \in Runtime, OpeningTimeout(rt)
  PROVE  ProtocolInv'
<1>1. /\ UNCHANGED <<vars, hs, writers, takeovers>> /\ faults' = faults + 1
      /\ opening' = [opening EXCEPT ![rt] = NoCall] /\ resuming' = [resuming EXCEPT ![rt] = "no"]
      /\ strays' = strays \cup Stray(rt, opening[rt], None, 0)
  BY DEF OpeningTimeout
<1>2. RestOK
  BY <1>1, NoCallType DEF RestOK, ProtocolInv, ProtocolTypeOK
<1>3. Moves
  BY <1>1, StandsStill DEF ProtocolInv
<1> QED BY <1>1, <1>2, <1>3, StrayOfOpening, HandlesStay

\* A process dies with everything its handles retained.
LEMMA CrashStep ==
  ASSUME ProtocolInv, NEW rt \in Runtime, Crash(rt)
  PROVE  ProtocolInv'
<1> DEFINE mine == {h \in 1..Len(hs) : hs[h].rt = rt /\ hs[h].phase \in {"open", "closing"}}
           Dead(x) == [x EXCEPT !.phase = "dead", !.pending = << >>, !.ops = << >>,
                                !.timer = FALSE, !.call = NoCall, !.beat = NoCall]
<1>1. hs \in Seq(HandleRec) /\ DOMAIN hs = 1..Len(hs) /\ Len(hs) \in Nat
      /\ \A h \in 1..Len(hs) : hs[h] \in HandleRec
  BY DEF ProtocolInv, ProtocolTypeOK
<1>2. mine = {h \in DOMAIN hs : hs[h].rt = rt /\ Live(h)}
  BY <1>1 DEF Live
<1>3. hs' = [h \in 1..Len(hs) |-> IF h \in mine THEN Dead(hs[h]) ELSE hs[h]]
  BY <1>1, <1>2 DEF Crash
<1>4. /\ faults' = faults + 1 /\ writers' = [writers EXCEPT ![rt] = 0]
      /\ takeovers' = [takeovers EXCEPT ![rt] = 0]
      /\ opening' = [opening EXCEPT ![rt] = NoCall] /\ resuming' = [resuming EXCEPT ![rt] = "no"]
      /\ UNCHANGED vars
  BY DEF Crash
<1>5. strays' = strays \cup Stray(rt, opening[rt], None, 0) \cup
         UNION {Stray(rt, hs[h].call, hs[h].token, hs[h].epoch) \cup
                Stray(rt, hs[h].beat, hs[h].token, hs[h].epoch) : h \in mine}
  BY <1>2 DEF Crash
<1>6. \A h \in mine : /\ h \in 1..Len(hs) /\ hs[h].rt = rt /\ hs[h].phase \in {"open", "closing"}
  OBVIOUS
<1>7. \A h \in 1..Len(hs) : h \notin mine => hs[h].rt # rt \/ hs[h].phase # "open"
  OBVIOUS
<1>8. \A x \in HandleRec :
        /\ Dead(x) \in HandleRec /\ Dead(x).rt = x.rt /\ Dead(x).token = x.token
        /\ Dead(x).epoch = x.epoch /\ Dead(x).lost = x.lost /\ Dead(x).phase = "dead"
        /\ Dead(x).pending = << >> /\ Dead(x).ops = << >> /\ Dead(x).call = NoCall
        /\ Dead(x).beat = NoCall /\ Dead(x).released = x.released /\ Dead(x).start = x.start
        /\ Dead(x).next = x.next /\ Dead(x).ran = x.ran /\ Dead(x).dropped = x.dropped
  <2>1. << >> \in Seq(Envelope) /\ << >> \in Seq(OpRec)
    OBVIOUS
  <2> QED BY <2>1, NoCallType, ZenonT(60) DEF HandleRec
<1> HIDE DEF mine, Dead
<1>9. hs' \in Seq(HandleRec) /\ Len(hs') = Len(hs)
  <2>1. hs' \in [1..Len(hs) -> HandleRec]
    BY <1>1, <1>3, <1>8
  <2> QED BY <2>1, <1>1
<1>10. Moves
  BY <1>4, StandsStill DEF ProtocolInv
<1>11. RestOK
  BY <1>4, NoCallType DEF RestOK, ProtocolInv, ProtocolTypeOK
<1>12. writers'[rt] = 0 /\ \A q \in Runtime : q # rt => writers'[q] = writers[q]
  BY <1>4 DEF ProtocolInv, ProtocolTypeOK
<1>13. ASSUME NEW h \in 1..Len(hs) PROVE HandleMoves(h)
  <2>1. PICK x \in HandleRec : x = hs[h]
    BY HandleAt
  <2>2. LocalOK(h, x) /\ SharedOK(h, x) /\ x.rt \in Runtime
    BY <2>1, HandleAt DEF HandleOK
  <2>3. CASE h \in mine
    <3>1. PICK y \in HandleRec : y = Dead(x)
      BY <1>8
    <3>2. /\ y.rt = x.rt /\ y.token = x.token
          /\ y.epoch = x.epoch /\ y.lost = x.lost /\ y.phase = "dead"
          /\ y.pending = << >> /\ y.ops = << >> /\ y.call = NoCall
          /\ y.beat = NoCall /\ y.released = x.released /\ y.start = x.start
          /\ y.next = x.next /\ y.ran = x.ran /\ y.dropped = x.dropped
      BY <1>8, <3>1
    <3>3. y = hs'[h]
      BY <1>3, <2>1, <2>3, <3>1
    <3>4. LocalOK(h, y)'
      <4>1. Len(y.pending) = 0 /\ Len(y.ops) = 0 /\ y.call.kind = "none"
        BY <3>2, NoCallType
      <4>2. PendingOwn(h, y) /\ NothingSkipped(y)
        BY <3>2, <4>1 DEF PendingOwn, NothingSkipped
      <4>3. AppendIsPrefix(h, y) /\ FlushCovers(y) /\ SlotsOK(y)
        BY <3>2, <4>1 DEF AppendIsPrefix, FlushCovers, Covered, SlotsOK, Sendable, OpKinds
      <4>4. CloseIsJoined(y) /\ ReleasedIsOver(y)
        BY <2>2, <3>2, <4>1 DEF CloseIsJoined, ReleasedIsOver, OpKinds, LocalOK
      <4> QED BY <4>2, <4>3, <4>4 DEF LocalOK, PendingOwn, NothingSkipped, AppendIsPrefix,
                 FlushCovers, Covered, CloseIsJoined, ReleasedIsOver, SlotsOK, Sendable
    <3>5. Continues(x, y)
      BY <3>2 DEF Continues, Ended
    <3>6. AnswerIsTrue(y)'
      BY <3>2, NoCallType DEF AnswerIsTrue
    <3>7. PrefixDurable(h, y)'
      BY <1>10, <2>2, <3>2, DurableKept DEF SharedOK
    <3>8. SharedOK(h, y)'
      BY <1>10, <2>2, <3>2, <3>5, <3>6, <3>7, SharedStep DEF ProtocolInv
    <3> QED BY <2>1, <3>3, <3>4, <3>5, <3>8 DEF HandleMoves, HandleOK
  <2>4. CASE h \notin mine
    <3>1. hs'[h] = x
      BY <1>3, <2>1, <2>4
    <3>2. CASE x.rt # rt
      BY <1>10, <1>12, <2>1, <2>2, <3>1, <3>2, HandleStays
    <3>3. CASE x.phase # "open"
      <4>1. Continues(x, x)
        BY DEF Continues
      <4>2. events' = events
        BY <1>4 DEF vars
      <4>3. AnswerIsTrue(x)' /\ PrefixDurable(h, x)'
        BY <2>2, <4>2 DEF SharedOK, AnswerIsTrue, PrefixDurable, Covered, K, KeyOf
      <4>4. SharedOK(h, x)'
        BY <1>10, <2>2, <3>3, <4>1, <4>3, SharedStep DEF ProtocolInv
      <4>5. LocalOK(h, x)'
        BY <2>2 DEF LocalOK, PendingOwn, NothingSkipped, AppendIsPrefix,
                 FlushCovers, CloseIsJoined, ReleasedIsOver, SlotsOK, Sendable
      <4> QED BY <2>1, <3>1, <4>1, <4>4, <4>5 DEF HandleMoves, HandleOK
    <3> QED BY <3>2, <3>3, <1>7, <2>1, <2>4
  <2> QED BY <2>3, <2>4
<1>14. \A q \in strays' : q \in strays \/ StrayMade(q)
  <2> SUFFICES ASSUME NEW q \in strays', q \notin strays PROVE StrayMade(q)
    OBVIOUS
  <2>1. CASE q \in Stray(rt, opening[rt], None, 0)
    BY <2>1, StrayOfOpening
  <2>2. CASE \E h \in mine : q \in Stray(rt, hs[h].call, hs[h].token, hs[h].epoch) \cup
                                   Stray(rt, hs[h].beat, hs[h].token, hs[h].epoch)
    <3>1. PICK h \in mine : q \in Stray(rt, hs[h].call, hs[h].token, hs[h].epoch) \cup
                                  Stray(rt, hs[h].beat, hs[h].token, hs[h].epoch)
      BY <2>2
    <3>2. PICK x \in HandleRec : x = hs[h]
      BY <1>6, HandleAt
    <3>3. LocalOK(h, x) /\ x.rt = rt /\ h \in 1..Len(hs)
      BY <3>1, <3>2, <1>6, HandleAt DEF HandleOK
    <3>4. x.call \in CallRec /\ x.beat \in CallRec
      BY HandleFields
    <3>5. hs'[h] = Dead(x)
      BY <1>3, <3>1, <3>2, <3>3
    <3>6. ~x.lost => hs'[h].token = x.token /\ Ended(hs'[h])
      BY <3>5, <1>8 DEF Ended
    <3>7. CASE q \in Stray(x.rt, x.call, x.token, x.epoch)
      <4>1. Sendable(x.call) /\ (x.call.kind = "release" => ~x.lost)
        BY <3>3 DEF LocalOK, SlotsOK, CloseIsJoined
      <4> QED BY <4>1, <3>3, <3>4, <3>6, <3>7, StrayOfHandle
    <3>8. CASE q \in Stray(x.rt, x.beat, x.token, x.epoch)
      <4>1. Sendable(x.beat) /\ x.beat.kind # "release"
        BY <3>3, NoCallType DEF LocalOK, SlotsOK, Sendable
      <4> QED BY <4>1, <3>4, <3>8, StrayOfHandle
    <3> QED BY <3>1, <3>2, <3>3, <3>7, <3>8
  <2> QED BY <1>5, <2>1, <2>2
<1> QED BY <1>9, <1>10, <1>11, <1>13, <1>14, HandlesStep

\* The phases of resumeWithTakeover.
LEMMA ResumeStep ==
  ASSUME ProtocolInv, NEW rt \in Runtime, openReserved(rt) \/ ResumeDone(rt) \/ ResumeAbandoned(rt)
  PROVE  ProtocolInv'
<1>1. UNCHANGED vars /\ UNCHANGED <<hs, writers, opening, strays, faults>>
  BY DEF openReserved, ResumeDone, ResumeAbandoned
<1>2. /\ takeovers' \in [Runtime -> Nat]
      /\ resuming' \in [Runtime -> {"no", "requested", "resuming", "abandoned"}]
  <2>1. /\ takeovers \in [Runtime -> Nat]
        /\ resuming \in [Runtime -> {"no", "requested", "resuming", "abandoned"}]
    BY DEF ProtocolInv, ProtocolTypeOK
  <2>2. takeovers' = takeovers \/ takeovers' = [takeovers EXCEPT ![rt] = 0]
    BY DEF openReserved, ResumeDone, ResumeAbandoned
  <2>3. resuming' = resuming \/ resuming' = [resuming EXCEPT ![rt] = "no"]
    BY DEF openReserved, ResumeDone, ResumeAbandoned
  <2> QED BY <2>1, <2>2, <2>3
<1>3. RestOK
  BY <1>1, <1>2 DEF RestOK, ProtocolInv, ProtocolTypeOK
<1>4. Moves
  BY <1>1, StandsStill DEF ProtocolInv
<1> QED BY <1>1, <1>3, <1>4, HandlesStay

\* A resume fails and closes the writer it had reserved.
LEMMA ResumeFailsStep ==
  ASSUME ProtocolInv, NEW rt \in Runtime, ResumeFails(rt)
  PROVE  ProtocolInv'
<1>1. UNCHANGED vars /\ UNCHANGED <<writers, takeovers, opening, strays, faults>>
  BY DEF ResumeFails
<1>2. resuming' \in [Runtime -> {"no", "requested", "resuming", "abandoned"}]
  BY DEF ResumeFails, ProtocolInv, ProtocolTypeOK
<1>3. CASE writers[rt] # 0 /\ hs[writers[rt]].phase = "open"
  <2>1. PICK h \in 1..Len(hs) : h = writers[rt]
    BY <1>3 DEF ProtocolInv, ProtocolTypeOK
  <2>2. hs[h].phase = "open" /\ Closing(h)
    BY <1>3, <2>1 DEF ResumeFails
  <2> QED BY <1>1, <1>2, <2>2, ClosingStep
<1>4. CASE UNCHANGED hs
  <2>1. RestOK
    BY <1>1, <1>2 DEF RestOK, ProtocolInv, ProtocolTypeOK
  <2>2. Moves
    BY <1>1, StandsStill DEF ProtocolInv
  <2> QED BY <1>1, <1>4, <2>1, <2>2, HandlesStay
<1> QED BY <1>3, <1>4 DEF ResumeFails

\* The steps of a runtime.
LEMMA RuntimeSteps ==
  ASSUME ProtocolInv, NEW rt \in Runtime, RuntimeStep(rt)
  PROVE  ProtocolInv'
<1>1. CASE create(rt) \/ open(rt) \/ \E e \in 1..MaxEpoch : resumeWithTakeover(rt, e)
  BY <1>1, RequestStep
<1>2. CASE Opened(rt)
  BY <1>2, OpenedStep
<1>3. CASE ServeOpening(rt)
  BY <1>3, ServeOpeningStep
<1>4. CASE openReserved(rt) \/ ResumeDone(rt) \/ ResumeAbandoned(rt)
  BY <1>4, ResumeStep
<1>5. CASE ResumeFails(rt)
  BY <1>5, ResumeFailsStep
<1>6. CASE flush(rt) \/ execute(rt)
  <2>1. PICK name \in {"flush", "tool"} : writers[rt] # 0 /\ Queue(writers[rt], name)
    BY <1>6 DEF flush, execute
  <2>2. PICK h \in 1..Len(hs) : h = writers[rt]
    BY <2>1 DEF ProtocolInv, ProtocolTypeOK
  <2> QED BY <2>1, <2>2, QueueStep
<1>7. CASE enqueue(rt)
  BY <1>7, EnqueueStep
<1>8. CASE OpeningTimeout(rt) \/ Crash(rt)
  BY <1>8, OpeningTimeoutStep, CrashStep
<1> QED BY <1>1, <1>2, <1>3, <1>4, <1>5, <1>6, <1>7, <1>8 DEF RuntimeStep

\* The steps of a handle.
LEMMA HandleSteps ==
  ASSUME ProtocolInv, NEW h \in 1..Len(hs), HandleStep(h)
  PROVE  ProtocolInv'
<1>1. CASE ServeHandle(h, "call") \/ ServeHandle(h, "beat")
  BY <1>1, ServeCallStep, ServeBeatStep
<1>2. CASE StartOp(h) \/ Reply(h)
  BY <1>2, StartOpStep, ReplyStep
<1>3. CASE BatchTimer(h) \/ HeartbeatTimer(h) \/ HeartbeatReply(h)
  BY <1>3, BatchTimerStep, HeartbeatTimerStep, HeartbeatReplyStep
<1>4. CASE close(h)
  <2>1. /\ hs[h].phase = "open" /\ Closing(h)
        /\ UNCHANGED vars /\ UNCHANGED <<writers, takeovers, opening, faults, strays>>
    BY <1>4 DEF close
  <2>2. resuming' \in [Runtime -> {"no", "requested", "resuming", "abandoned"}]
    BY <1>4 DEF close, ProtocolInv, ProtocolTypeOK
  <2> QED BY <2>1, <2>2, ClosingStep
<1>5. CASE Timeout(h) \/ HeartbeatTimeout(h)
  BY <1>5, TimeoutStep, HeartbeatTimeoutStep
<1> QED BY <1>1, <1>2, <1>3, <1>4, <1>5 DEF HandleStep

\* Before any runtime opened a session.
LEMMA ProtocolInvInit == ProtocolInit => ProtocolInv
<1> SUFFICES ASSUME ProtocolInit PROVE ProtocolInv
  OBVIOUS
<1>1. /\ Init /\ hs = << >> /\ strays = {} /\ faults = 0
      /\ writers = [rt \in Runtime |-> 0] /\ takeovers = [rt \in Runtime |-> 0]
      /\ opening = [rt \in Runtime |-> NoCall] /\ resuming = [rt \in Runtime |-> "no"]
  BY DEF ProtocolInit
<1>2. hs \in Seq(HandleRec) /\ Len(hs) = 0
  BY <1>1
<1>3. ProtocolTypeOK
  BY <1>1, <1>2, NoCallType DEF ProtocolTypeOK
<1>4. StoreOK
  <2>1. Inv /\ grants = {}
    BY <1>1, InitInv DEF Init
  <2>2. LeaseHasToken
    <3> SUFFICES ASSUME NEW k \in Key PROVE row[k].actor = None
      BY DEF LeaseHasToken
    <3>1. row[k] = NoRow \/ row[k] = [NoRow EXCEPT !.epoch = 1]
      BY <1>1 DEF Init
    <3> QED BY <3>1 DEF NoRow
  <2> QED BY <2>1, <2>2 DEF StoreOK, GrantsBounded
<1>5. HandlesOK /\ HandlesDistinct /\ StraysOK
  BY <1>1, <1>2 DEF HandlesOK, HandlesDistinct, StraysOK
<1>6. OpeningsOK /\ OpeningsDistinct
  BY <1>1, NoCallType DEF OpeningsOK, OpeningOK, OpeningsDistinct, Won
<1> QED BY <1>3, <1>4, <1>5, <1>6 DEF ProtocolInv

\* Every behaviour of the runtimes and the store keeps the invariant.
THEOREM ProtocolInvariant == ProtocolSpec => []ProtocolInv
<1>1. ProtocolInv /\ [ProtocolNext]_allVars => ProtocolInv'
  <2> SUFFICES ASSUME ProtocolInv, [ProtocolNext]_allVars PROVE ProtocolInv'
    OBVIOUS
  <2>1. ASSUME NEW rt \in Runtime, RuntimeStep(rt) PROVE ProtocolInv'
    BY <2>1, RuntimeSteps
  <2>2. ASSUME NEW h \in DOMAIN hs, HandleStep(h) PROVE ProtocolInv'
    <3>1. h \in 1..Len(hs)
      BY <2>2 DEF ProtocolInv, ProtocolTypeOK
    <3> QED BY <2>2, <3>1, HandleSteps
  <2>3. ASSUME NEW q \in strays, ServeStray(q) PROVE ProtocolInv'
    BY <2>3, ServeStrayStep
  <2>4. ASSUME NEW p \in Others, OtherTakesOver(p) \/ OtherWrites(p) PROVE ProtocolInv'
    BY <2>4, OtherStep
  <2>5. CASE ProtocolTick
    BY <2>5, ProtocolTickStep
  <2>6. CASE UNCHANGED allVars
    <3>1. UNCHANGED vars /\ UNCHANGED clientVars
      BY <2>6 DEF allVars
    <3>2. Moves
      BY <3>1, StandsStill DEF ProtocolInv
    <3> QED BY <3>1, <3>2, StoreStep
  <2> QED BY <2>1, <2>2, <2>3, <2>4, <2>5, <2>6 DEF ProtocolNext
<1> QED BY <1>1, ProtocolInvInit, PTL DEF ProtocolSpec

-----------------------------------------------------------------------------
(* What the invariant says of the code.                                    *)

\* persist: what a handle was acknowledged is in the authoritative log, at the
\* acknowledged positions and as this handle wrote it, whatever was retried.
THEOREM ProtocolAcknowledged == ProtocolSpec => []AcknowledgedIsDurable
<1>1. ProtocolInv => AcknowledgedIsDurable
  <2> SUFFICES ASSUME ProtocolInv, NEW h \in DOMAIN hs
               PROVE  \A n \in hs[h].start..(hs[h].next - 1) :
                        [seq |-> n, body |-> h] \in events[K(hs[h].rt)]
    BY DEF AcknowledgedIsDurable
  <2>1. h \in 1..Len(hs)
    BY DEF ProtocolInv, ProtocolTypeOK
  <2> QED BY <2>1, HandleAt DEF HandleOK, SharedOK, PrefixDurable, Covered
<1> QED BY <1>1, ProtocolInvariant, PTL

\* The tools/execute listener: a tool runs only once every event the handle had
\* retained before the tool was requested is durable.
THEOREM ProtocolTools == ProtocolSpec => []ToolAfterRetained
<1>1. ProtocolInv => ToolAfterRetained
  <2> SUFFICES ASSUME ProtocolInv, NEW h \in DOMAIN hs, NEW n \in hs[h].start..(hs[h].ran - 1)
               PROVE  n \in hs[h].dropped \/ [seq |-> n, body |-> h] \in events[K(hs[h].rt)]
    BY DEF ToolAfterRetained
  <2>1. h \in 1..Len(hs)
    BY DEF ProtocolInv, ProtocolTypeOK
  <2>2. PICK x \in HandleRec : x = hs[h]
    BY <2>1, HandleAt
  <2>3. PrefixDurable(h, x)
    BY <2>1, <2>2, HandleAt DEF HandleOK, SharedOK
  <2>4. n \in x.dropped \/ n \in x.start..(x.next - 1)
    BY <2>2, <2>3, HandleFields DEF PrefixDurable, Covered
  <2> QED BY <2>2, <2>3, <2>4 DEF PrefixDurable
<1> QED BY <1>1, ProtocolInvariant, PTL

\* close: a handle that released its session is never told that it lost it.
THEOREM ProtocolRelease == ProtocolSpec => []ReleaseIsNotLoss
<1>1. ProtocolInv => ReleaseIsNotLoss
  <2> SUFFICES ASSUME ProtocolInv, NEW h \in DOMAIN hs, hs[h].released PROVE ~hs[h].lost
    BY DEF ReleaseIsNotLoss
  <2>1. h \in 1..Len(hs)
    BY DEF ProtocolInv, ProtocolTypeOK
  <2> QED BY <2>1, HandleAt DEF HandleOK, LocalOK, ReleasedIsOver
<1> QED BY <1>1, ProtocolInvariant, PTL

\* The writers map: the open handle the server accepts is the one that is routed to.
THEOREM ProtocolRouting == ProtocolSpec => []AcceptedWriterIsRouted
<1>1. ProtocolInv => AcceptedWriterIsRouted
  <2> SUFFICES ASSUME ProtocolInv, NEW h \in DOMAIN hs, hs[h].phase = "open",
                      IsWriter(hs[h].rt, K(hs[h].rt), hs[h].token, hs[h].epoch)
               PROVE  writers[hs[h].rt] = h
    BY DEF AcceptedWriterIsRouted
  <2>1. h \in 1..Len(hs)
    BY DEF ProtocolInv, ProtocolTypeOK
  <2> QED BY <2>1, HandleAt DEF HandleOK, SharedOK, RoutedIfCurrent, IsWriter
<1> QED BY <1>1, ProtocolInvariant, PTL
=============================================================================
