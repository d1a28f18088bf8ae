---------------------------- MODULE SessionStore ----------------------------
(***************************************************************************)
(* The authoritative Harness session store:                                *)
(* src/cyrene_navigator/persistence/store.py (class PersistenceStore) as   *)
(* reached through the routes of persistence/api.py.                       *)
(*                                                                         *)
(* Every mutation of the code runs inside BEGIN IMMEDIATE ... COMMIT, so    *)
(* one operation is one action here: it either commits everything below or *)
(* leaves every table alone.  A request the code rejects changes nothing;   *)
(* which error it gets is given by the Result operators, which the          *)
(* composed module SessionProtocol sends back to the client.               *)
(*                                                                         *)
(* Abstractions: a workspace is fixed, so a session is keyed by its         *)
(* organization and id; SHA-256 digests are the digested value itself;      *)
(* secrets.token_urlsafe is a choice among the tokens never used before;    *)
(* header, client id and last_activity_at are data no check reads.          *)
(***************************************************************************)
EXTENDS Naturals, FiniteSets, Sequences

CONSTANTS
  Principal,       \* configured bearer principals
  Actor,           \* actor ids
  Org,             \* organization keys of the sessions table
  NoOrg,           \* the '' key: unknown legacy organization scope
  Session,         \* session ids
  ActorOf,         \* [Principal -> Actor]
  OrgOf,           \* [Principal -> Org]
  Administrators,  \* principals with can_takeover
  PrivateScope,    \* principals with actor_private_scope
  HarnessWriters,  \* principals with can_write_harness
  Legacy,          \* keys an older database may hold, without owner data
  Token,           \* writer capabilities
  BatchId,         \* client-chosen batch identifiers
  Body,            \* event payloads
  LeaseLength,     \* lease_seconds, in clock units
  None,            \* SQL NULL
  MaxTime, MaxEpoch, MaxEvents, MaxBatch   \* model bounds

Key == Org \X Session

ASSUME ConstantsAssumption ==
  /\ ActorOf \in [Principal -> Actor]
  /\ OrgOf \in [Principal -> Org]
  /\ NoOrg \in Org
  /\ Administrators \subseteq Principal
  /\ PrivateScope \subseteq Principal
  /\ HarnessWriters \subseteq Principal
  /\ Legacy \subseteq {NoOrg} \X Session
  /\ None \notin Actor \cup Token
  /\ LeaseLength \in Nat \ {0}
  /\ MaxTime \in Nat /\ MaxEpoch \in Nat /\ MaxEvents \in Nat /\ MaxBatch \in Nat

Event == [seq : Nat, body : Body]

\* A batch as it arrives: any non-empty JSON array of event envelopes.
Batch == {b \in Seq(Event) : Len(b) > 0}

VARIABLES
  now,       \* _unix_ms()
  sessions,  \* primary keys present in table sessions
  row,       \* sessions: event_count, epoch and the owner columns
  meta,      \* session_product_metadata
  events,    \* session_events: set of rows (seq, event_json)
  batches,   \* session_batches: set of rows
  grants     \* every write handle issued so far (the handles clients hold)

vars == <<now, sessions, row, meta, events, batches, grants>>

NoRow  == [count |-> 0, epoch |-> 0, actor |-> None, token |-> None, expires |-> 0]
NoMeta == [owner |-> None, private |-> FALSE, source |-> "legacy"]

Row      == [count : Nat, epoch : Nat, actor : Actor \cup {None},
             token : Token \cup {None}, expires : Nat]
Meta     == [owner : Actor \cup {None}, private : BOOLEAN,
             source : {"cyrene", "legacy"}]
BatchRow == [epoch : Nat, id : BatchId, digest : Seq(Event), next : Nat]
Grant    == [key : Key, epoch : Nat, token : Token, actor : Actor]

\* Tokens that _new_token has already returned.
Minted == {g.token : g \in grants}

(***************************************************************************)
(* _initialize: sessions written before Product metadata existed are        *)
(* backfilled with an unknown owner; their mutable writer is not promoted.  *)
(***************************************************************************)
Init ==
  /\ now = 0
  /\ sessions \in SUBSET Legacy
  /\ row = [k \in Key |-> IF k \in sessions THEN [NoRow EXCEPT !.epoch = 1] ELSE NoRow]
  /\ meta = [k \in Key |-> NoMeta]
  /\ events = [k \in Key |-> {}]
  /\ batches = [k \in Key |-> {}]
  /\ grants = {}

-----------------------------------------------------------------------------
(* Request guards shared by the operations.                                *)

\* _organization_key: a principal only ever addresses its own organization.
KeyOf(p, s) == <<OrgOf[p], s>>

\* require_legacy_writer
MayMutate(p) == OrgOf[p] = NoOrg \/ p \in HarnessWriters

\* _can_access_session: the immutable Product owner decides, not the lease.
CanAccess(p, k) ==
  meta[k].private \/ p \in PrivateScope => meta[k].owner = ActorOf[p]

\* _require_session followed by _assert_session_access
Visible(p, k) == k \in sessions /\ CanAccess(p, k)

\* Mutant: the lease belongs to the actor, whatever handle it presents.
IsWriterByActor(p, k, t, e) == row[k].actor = ActorOf[p] /\ row[k].expires > now

\* _assert_writer
IsWriter(p, k, t, e) ==
  /\ row[k].epoch = e
  /\ row[k].actor = ActorOf[p]
  /\ row[k].token = t
  /\ row[k].expires > now

\* _lease_expiry
LeaseExpiry == now + LeaseLength

\* Mutant: the expected number is advanced before it is compared.
ContiguousOffByOne(b, expected) == \A i \in 1..Len(b) : b[i].seq = expected + i

\* _validate_event_sequence
Contiguous(b, expected) == \A i \in 1..Len(b) : b[i].seq = expected + i - 1

\* PRIMARY KEY (organization_id, workspace_id, session_id, seq)
KeyViolation(k, b) == \E i \in 1..Len(b), r \in events[k] : r.seq = b[i].seq

\* SELECT ... FROM session_batches WHERE epoch = ? AND batch_id = ?
Recorded(k, e, id) == {r \in batches[k] : r.epoch = e /\ r.id = id}

-----------------------------------------------------------------------------
(* What each operation answers.                                            *)

CreateResult(p, k) ==
  IF ~MayMutate(p) THEN "WORKSPACE_FORBIDDEN"
  ELSE IF k \in sessions THEN "SESSION_ALREADY_EXISTS"
  ELSE "OK"

\* open_handle(access = "write"); x is {takeover_expected_epoch}, or {} when the
\* request has none.
OpenResult(p, k, x) ==
  IF ~MayMutate(p) THEN "WORKSPACE_FORBIDDEN"
  ELSE IF ~Visible(p, k) THEN "SESSION_NOT_FOUND"
  ELSE IF row[k].actor # None /\ x = {} THEN "SESSION_ALREADY_OWNED"
  ELSE IF x # {} /\ row[k].epoch \notin x THEN "SESSION_OWNERSHIP_LOST"
  ELSE IF row[k].actor \notin {None, ActorOf[p]} /\ p \notin Administrators
       THEN "SESSION_TAKEOVER_FORBIDDEN"
  ELSE "OK"

WriterResult(p, k, t, e) ==
  IF ~MayMutate(p) THEN "WORKSPACE_FORBIDDEN"
  ELSE IF ~Visible(p, k) THEN "SESSION_NOT_FOUND"
  ELSE IF ~IsWriter(p, k, t, e) THEN "SESSION_OWNERSHIP_LOST"
  ELSE "OK"

AppendResult(p, k, t, e, id, b) ==
  IF WriterResult(p, k, t, e) # "OK" THEN WriterResult(p, k, t, e)
  ELSE IF \E r \in Recorded(k, e, id) : r.digest = b THEN "REPLAY"
  ELSE IF Recorded(k, e, id) # {} THEN "SESSION_SEQUENCE_CONFLICT"
  ELSE IF ~Contiguous(b, row[k].count) \/ KeyViolation(k, b)
       THEN "SESSION_SEQUENCE_CONFLICT"
  ELSE "OK"

\* The nextSeq of the answer: a replay repeats the one recorded at commit.
AppendNextSeq(k, e, id, b) ==
  IF Recorded(k, e, id) # {}
  THEN (CHOOSE r \in Recorded(k, e, id) : TRUE).next
  ELSE row[k].count + Len(b)

-----------------------------------------------------------------------------
(* The operations.                                                         *)

create_session(p, s, t) ==
  LET k == KeyOf(p, s) IN
  /\ CreateResult(p, k) = "OK"
  /\ t \in Token \ Minted
  /\ grants' = grants \cup {[key |-> k, epoch |-> 1, token |-> t, actor |-> ActorOf[p]]}
  /\ sessions' = sessions \cup {k}
  /\ row' = [row EXCEPT ![k] = [count |-> 0, epoch |-> 1, actor |-> ActorOf[p],
                                token |-> t, expires |-> LeaseExpiry]]
  /\ meta' = [meta EXCEPT ![k] = [owner |-> ActorOf[p], private |-> p \in PrivateScope,
                                  source |-> "cyrene"]]
  /\ UNCHANGED <<now, events, batches>>

open_handle(p, s, x, t) ==
  LET k == KeyOf(p, s) IN
  /\ OpenResult(p, k, x) = "OK"
  /\ row[k].epoch < MaxEpoch
  /\ t \in Token \ Minted
  /\ grants' = grants \cup {[key |-> k, epoch |-> row[k].epoch + 1, token |-> t,
                             actor |-> ActorOf[p]]}
  /\ row' = [row EXCEPT ![k] = [count |-> row[k].count, epoch |-> row[k].epoch + 1,
                                actor |-> ActorOf[p], token |-> t, expires |-> LeaseExpiry]]
  /\ UNCHANGED <<now, sessions, meta, events, batches>>

append_events(p, s, t, e, id, b) ==
  LET k == KeyOf(p, s) IN
  /\ AppendResult(p, k, t, e, id, b) = "OK"
  /\ row[k].count + Len(b) <= MaxEvents
  /\ events' = [events EXCEPT ![k] = @ \cup {b[i] : i \in 1..Len(b)}]
  /\ batches' = [batches EXCEPT ![k] = @ \cup
                   {[epoch |-> e, id |-> id, digest |-> b, next |-> row[k].count + Len(b)]}]
  /\ row' = [row EXCEPT ![k].count = @ + Len(b)]
  /\ UNCHANGED <<now, sessions, meta, grants>>

\* _renew_or_confirm(renew = True); flush is the same call with renew = False,
\* which only answers.
heartbeat(p, s, t, e) ==
  LET k == KeyOf(p, s) IN
  /\ WriterResult(p, k, t, e) = "OK"
  /\ row' = [row EXCEPT ![k].expires = LeaseExpiry]
  /\ UNCHANGED <<now, sessions, meta, events, batches, grants>>

\* Mutant: release forgets to advance the epoch.
releaseSameEpoch(p, s, t, e) ==
  LET k == KeyOf(p, s) IN
  /\ WriterResult(p, k, t, e) = "OK"
  /\ row' = [row EXCEPT ![k] = [count |-> row[k].count, epoch |-> row[k].epoch,
                                actor |-> None, token |-> None, expires |-> 0]]
  /\ UNCHANGED <<now, sessions, meta, events, batches, grants>>

release(p, s, t, e) ==
  LET k == KeyOf(p, s) IN
  /\ WriterResult(p, k, t, e) = "OK"
  /\ row[k].epoch < MaxEpoch
  /\ row' = [row EXCEPT ![k] = [count |-> row[k].count, epoch |-> row[k].epoch + 1,
                                actor |-> None, token |-> None, expires |-> 0]]
  /\ UNCHANGED <<now, sessions, meta, events, batches, grants>>

\* Wall-clock time passes.
Tick ==
  /\ now < MaxTime
  /\ now' = now + 1
  /\ UNCHANGED <<sessions, row, meta, events, batches, grants>>

\* The batches a client may send in a bounded model: up to MaxBatch envelopes
\* whose sequence numbers need not be contiguous or current.
BoundedBatch ==
  UNION {[1..n -> [seq : 0..MaxEvents - 1, body : Body]] : n \in 1..MaxBatch}

Next ==
  \/ \E p \in Principal, s \in Session, t \in Token :
       \/ create_session(p, s, t)
       \/ \E x \in {{}} \cup {{e} : e \in 0..MaxEpoch} : open_handle(p, s, x, t)
       \/ \E e \in 0..MaxEpoch : heartbeat(p, s, t, e)
       \/ \E e \in 0..MaxEpoch : release(p, s, t, e)
       \/ \E e \in 0..MaxEpoch :
            \* every other request is rejected before its body is looked at
            /\ WriterResult(p, KeyOf(p, s), t, e) = "OK"
            /\ \E id \in BatchId, b \in BoundedBatch : append_events(p, s, t, e, id, b)
  \/ Tick

Spec == Init /\ [][Next]_vars

-----------------------------------------------------------------------------
(* Reads.                                                                  *)

\* read_events: the rows SQL returns for seq >= offset ORDER BY seq LIMIT length.
Slice(k, offset, length) ==
  {r \in events[k] : /\ r.seq >= offset
                     /\ Cardinality({q \in events[k] : offset <= q.seq /\ q.seq < r.seq})
                          < length}

\* The two SESSION_STORAGE_CORRUPT branches of read_events: fewer rows than the
\* committed prefix promises, or rows whose numbers are not offset, offset + 1, ...
CorruptRead(k, offset, length) ==
  LET left == row[k].count - offset
      expected == IF length < left THEN length ELSE left
  IN  /\ offset < row[k].count
      /\ length > 0
      /\ \/ Cardinality(Slice(k, offset, length)) # expected
         \/ {r.seq : r \in Slice(k, offset, length)} # offset..(offset + expected - 1)

-----------------------------------------------------------------------------
(* Properties.                                                             *)

\* The tables hold what their column types and CHECK constraints allow.
TypeOK ==
  /\ now \in Nat
  /\ sessions \subseteq Key
  /\ row \in [Key -> Row]
  /\ meta \in [Key -> Meta]
  /\ events \in [Key -> SUBSET Event]
  /\ batches \in [Key -> SUBSET BatchRow]
  /\ grants \subseteq Grant

\* read_events never meets the SESSION_STORAGE_CORRUPT branches, whatever page
\* is asked for: append_events keeps the log gap-free and without duplicates.
NoCorruptRead ==
  \A k \in sessions : \A offset \in 0..MaxEvents, length \in 0..MaxEvents :
    ~CorruptRead(k, offset, length)

\* The committed rows are exactly the sequence numbers below event_count, each
\* with one body (what append_events must preserve for read_events to be exact).
LogContiguous ==
  \A k \in Key :
    /\ \A r \in events[k] : r.seq < row[k].count
    /\ \A n \in 0..(row[k].count - 1) : \E r \in events[k] : r.seq = n
    /\ \A q, r \in events[k] : q.seq = r.seq => q = r

\* A recorded batch receipt is true for ever: the events it stands for are in
\* the log at the positions it acknowledges, so append_events may answer a retry
\* from session_batches without looking at the events again.
ReceiptsInLog ==
  \A k \in Key : \A r \in batches[k] :
    /\ r.next <= row[k].count
    /\ \A i \in 1..Len(r.digest) :
         /\ r.digest[i] \in events[k]
         /\ r.digest[i].seq + Len(r.digest) + 1 = r.next + i

\* Fencing: nothing written under an older ownership epoch lies behind anything
\* written under a newer one (_assert_writer against takeover and release).
TenuresOrdered ==
  \A k \in Key : \A q, r \in batches[k] : q.next < r.next => q.epoch <= r.epoch

\* Of all the write handles ever issued for a session, at most one passes
\* _assert_writer, however often it was taken over, released or reopened.
SingleWriter ==
  \A p, q \in Principal, g, h \in grants :
    /\ g.key = h.key
    /\ IsWriter(p, g.key, g.token, g.epoch)
    /\ IsWriter(q, h.key, h.token, h.epoch)
    => g = h

\* An actor-private session is leased to nobody but its Product owner, not even
\* to an administrator's takeover (_assert_session_access precedes the lease).
PrivateLeaseIsOwners ==
  \A k \in sessions : meta[k].private => row[k].actor \in {None, meta[k].owner}

\* Takeover, release and reopening never rewrite the Product projection of an
\* existing session (the README of persistence: writer fencing is not ownership).
ProductMetadataStable ==
  [][\A k \in sessions : k \in sessions' /\ meta'[k] = meta[k]]_vars

-----------------------------------------------------------------------------
(* The promise behind the tables.                                          *)

\* The entry with number n of a log, with the tenure of the batch it was committed in.
EntryIn(rows, receipts, n) ==
  LET r == CHOOSE r \in rows : r.seq = n
      b == CHOOSE b \in receipts : \E i \in 1..Len(b.digest) : b.digest[i] = r
  IN  [tenure |-> b.epoch, body |-> r.body]

EntryAt(k, n) == EntryIn(events[k], batches[k], n)

\* The log of a session as a sequence of entries: the refinement mapping to FencedLog.
Abstract == INSTANCE FencedLog WITH
  log    <- [k \in Key |-> [n \in 1..row[k].count |-> EntryAt(k, n - 1)]],
  tenure <- [k \in Key |-> row[k].epoch],
  held   <- [k \in Key |-> row[k].actor # None]

\* The store implements one fenced append-only log per session.
ImplementsFencedLog == Abstract!Spec

=============================================================================
