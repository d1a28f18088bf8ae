------------------------------- MODULE Outbox -------------------------------
(***************************************************************************)
(* The notification outbox of one Workspace and the executors that deliver  *)
(* it: work_notifications in work/store.py and the delivery loop of         *)
(* harness/src/executor.ts.                                                *)
(*                                                                         *)
(* Time is abstract: a lease is live until it lapses, a queued row is due   *)
(* when its available_at has passed.  A lease token is a random secret, so  *)
(* a fresh one differs from every token a row, an executor or a delayed     *)
(* request still carries.  Calls to the store may be answered, refused, or  *)
(* given up by the caller and executed later (`late`).                      *)
(***************************************************************************)
EXTENDS Naturals, Sequences, FiniteSets

CONSTANTS
  Key,         \* notifications, named by their deduplication key
  KindOf,      \* the delivery route of each notification
  Worker,      \* executor processes
  Token,       \* lease tokens
  Route,       \* personal Teams conversations of the owner
  None,        \* SQL NULL, no value
  Limit,       \* rows one shared claim may lease
  MaxSends,    \* bound on rate-limited sends of a notification
  MaxRetries   \* bound on retryCount

PrivateKind == {"private", "privateNotice"}
Kind == {"channel", "notice"} \cup PrivateKind

ASSUME OutboxAssumption ==
  /\ KindOf \in [Key -> Kind]
  /\ None \notin Token \cup Route
  /\ Limit \in Nat \ {0} /\ MaxSends \in Nat /\ MaxRetries \in Nat

VARIABLES
  note,       \* work_notifications
  installed,  \* the owner's active private route, or None
  held,       \* leases each executor has yet to deliver
  stage,      \* what each executor is doing
  cur,        \* the lease it is doing it for
  outcome,    \* the outcome it is recording
  late,       \* abandoned calls that the store may still execute
  sent        \* every message given to the provider

vars == <<note, installed, held, stage, cur, outcome, late, sent>>

Status == {"absent", "queued", "leased", "started", "delivered", "failed", "uncertain"}
Final == {"delivered", "failed", "uncertain"}
Outcome == {"retry"} \cup Final
Row == [status : Status, token : Token \cup {None}, lease : {"none", "live", "lapsed"},
        due : BOOLEAN, retries : Nat]
Lease == [key : Key, token : Token, retries : Nat, route : Route \cup {None}]
Call == [lease : Lease, target : {"started"} \cup Outcome]
Result == {"accepted", "rejected", "limited", "unknown"}
Message == [attempt : Nat, result : Result, route : Route \cup {None}]

Private(k) == KindOf[k] \in PrivateKind
Shared == {k \in Key : ~Private(k)}
Owned == {k \in Key : Private(k)}

Init ==
  /\ note = [k \in Key |-> [status |-> "absent", token |-> None, lease |-> "none",
                            due |-> FALSE, retries |-> 0]]
  /\ installed \in Route \cup {None}
  /\ held = [w \in Worker |-> {}]
  /\ stage = [w \in Worker |-> "idle"]
  /\ cur = [w \in Worker |-> None]
  /\ outcome = [w \in Worker |-> None]
  /\ late = {}
  /\ sent = [k \in Key |-> << >>]

-----------------------------------------------------------------------------
(* The store.                                                              *)

\* _enqueue_notification: a deduplication key inserts one queued row, a replay of
\* it changes nothing.
create_notification(k) ==
  /\ note[k].status = "absent"
  /\ \E d \in BOOLEAN :
       note' = [note EXCEPT ![k] = [status |-> "queued", token |-> None, lease |-> "none",
                                    due |-> d, retries |-> 0]]
  /\ UNCHANGED <<installed, held, stage, cur, outcome, late, sent>>

Unleased(r, status) ==
  [status |-> status, token |-> None, lease |-> "none", due |-> r.due, retries |-> r.retries]

\* Mutant: an expired send is queued again.
SweptRequeued(r) ==
  IF r.status \in {"leased", "started"} /\ r.lease = "lapsed" THEN Unleased(r, "queued") ELSE r

\* Mutant: only unstarted leases are swept.
SweptLeased(r) ==
  IF r.status = "leased" /\ r.lease = "lapsed" THEN Unleased(r, "queued") ELSE r

\* A claim first settles the expired leases it may see: an unstarted one returns to
\* the queue, a started one becomes uncertain.
Swept(r) ==
  IF r.status \in {"leased", "started"} /\ r.lease = "lapsed"
  THEN Unleased(r, IF r.status = "started" THEN "uncertain" ELSE "queued")
  ELSE r

Carried == {note[k].token : k \in Key} \cup {cur[w].token : w \in {v \in Worker : stage[v] # "idle"}}
             \cup {c.lease.token : c \in late}
             \cup {l.token : l \in UNION {held[w] : w \in Worker}}

Tokens(S) ==
  {f \in [S -> Token \ Carried] : \A k, j \in S : f[k] = f[j] => k = j}

Leased(r, t) ==
  [status |-> "leased", token |-> t, lease |-> "live", due |-> r.due, retries |-> r.retries]

\* The executor learns of its leases unless the answer is lost.
Receive(w, leases) ==
  /\ \E got \in {{}, leases} : held' = [held EXCEPT ![w] = got]
  /\ UNCHANGED <<installed, stage, cur, outcome, late, sent>>

\* claim_notifications with the type filter of one delivery loop: the rows leased are
\* due rows of that type, as many as the limit allows.
claim_notifications(w, kind) ==
  LET swept == [k \in Key |-> IF k \in Shared THEN Swept(note[k]) ELSE note[k]]
      ready == {k \in Shared : KindOf[k] = kind /\ swept[k].status = "queued" /\ swept[k].due}
  IN /\ stage[w] = "idle" /\ held[w] = {}
     /\ \E S \in SUBSET ready :
          /\ S = ready \/ Cardinality(S) = Limit
          /\ Cardinality(S) <= Limit
          /\ \E f \in Tokens(S) :
               /\ note' = [k \in Key |-> IF k \in S THEN Leased(swept[k], f[k]) ELSE swept[k]]
               /\ Receive(w, {[key |-> k, token |-> f[k], retries |-> swept[k].retries,
                               route |-> None] : k \in S})

\* claim_private_notifications: one row is leased together with the owner's current
\* route; without an active installation every candidate stays queued and its result
\* is overwritten by the reason it is held.
claim_private_notifications(w) ==
  LET swept == [k \in Key |-> IF k \in Owned THEN Swept(note[k]) ELSE note[k]]
      ready == {k \in Owned : swept[k].status = "queued" /\ swept[k].due}
      hold(r) == [status |-> r.status, token |-> r.token, lease |-> r.lease, due |-> r.due,
                  retries |-> 0]
  IN /\ stage[w] = "idle" /\ held[w] = {}
     /\ \/ /\ installed = None \/ ready = {}
           /\ note' = [k \in Key |-> IF k \in ready THEN hold(swept[k]) ELSE swept[k]]
           /\ Receive(w, {})
        \/ /\ installed # None
           /\ \E k \in ready, t \in Token \ Carried :
                /\ note' = [j \in Key |-> IF j = k THEN Leased(swept[k], t) ELSE swept[j]]
                /\ Receive(w, {[key |-> k, token |-> t, retries |-> swept[k].retries,
                                route |-> installed]})

\* _notification_transition: the caller's token must be the row's; a private row needs
\* an active installation; a start repeats, anything else needs a live lease.
Accepts(c) ==
  LET r == note[c.lease.key] IN
  /\ r.token = c.lease.token
  /\ Private(c.lease.key) => installed # None
  /\ IF c.target = "started" THEN r.status = "started" \/ (r.status = "leased" /\ r.lease = "live")
                             ELSE r.status = "started" /\ r.lease = "live"

\* The row a transition writes.  A retry clears the token and counts itself; a final
\* outcome keeps the token and replaces the result.
Transition(r, target) ==
  CASE target = "started" -> [status |-> "started", token |-> r.token, lease |-> r.lease,
                              due |-> r.due, retries |-> r.retries]
    [] target = "retry"   -> [status |-> "queued", token |-> None, lease |-> "none",
                              due |-> FALSE, retries |-> r.retries + 1]
    [] OTHER              -> [status |-> target, token |-> r.token, lease |-> "none",
                              due |-> r.due, retries |-> 0]

Execute(c) == note' = [note EXCEPT ![c.lease.key] = Transition(@, c.target)]

\* An abandoned call reaches the store after all, or never.
LateCall(c) ==
  /\ late' = late \ {c}
  /\ \/ Accepts(c) /\ Execute(c)
     \/ UNCHANGED note
  /\ UNCHANGED <<installed, held, stage, cur, outcome, sent>>

\* available_at passes.
Due(k) ==
  /\ note[k].status = "queued" /\ ~note[k].due
  /\ note' = [note EXCEPT ![k] = [status |-> "queued", token |-> @.token, lease |-> @.lease,
                                  due |-> TRUE, retries |-> @.retries]]
  /\ UNCHANGED <<installed, held, stage, cur, outcome, late, sent>>

\* lease_expires_at passes.
Lapse(k) ==
  /\ note[k].lease = "live"
  /\ note' = [note EXCEPT ![k] = [status |-> @.status, token |-> @.token, lease |-> "lapsed",
                                  due |-> @.due, retries |-> @.retries]]
  /\ UNCHANGED <<installed, held, stage, cur, outcome, late, sent>>

\* apply_private_installation, seen from here: the owner's route changes or goes away.
InstallationChanges ==
  /\ installed' \in (Route \cup {None}) \ {installed}
  /\ UNCHANGED <<note, held, stage, cur, outcome, late, sent>>

-----------------------------------------------------------------------------
(* The executor.                                                           *)

\* drainTeamsNotifications: one claim at a time, its leases one after the other.
Begin(w) ==
  /\ stage[w] = "idle"
  /\ \E l \in held[w] :
       /\ held' = [held EXCEPT ![w] = @ \ {l}]
       /\ cur' = [cur EXCEPT ![w] = l]
  /\ stage' = [stage EXCEPT ![w] = "start"]
  /\ UNCHANGED <<note, installed, outcome, late, sent>>

\* The executor goes on to another stage, recording an outcome there; an idle one
\* remembers nothing.
Move(w, stg, out) ==
  /\ stage' = [stage EXCEPT ![w] = stg]
  /\ outcome' = [outcome EXCEPT ![w] = IF stg = "idle" THEN None ELSE out]
  /\ cur' = [cur EXCEPT ![w] = IF stg = "idle" THEN None ELSE @]

Pending(w) ==
  [lease |-> cur[w], target |-> IF stage[w] = "start" THEN "started" ELSE outcome[w]]

Calling(w) == stage[w] \in {"start", "finish", "settle"}

\* The store answers.  A refused start ends the delivery; a refused result is caught
\* and recorded as failed (isUncertainConnectorOutcome of a 4xx); a refused second
\* attempt is only logged.
Answered(w) ==
  /\ Calling(w)
  /\ \/ /\ Accepts(Pending(w)) /\ Execute(Pending(w))
        /\ Move(w, IF stage[w] = "start" THEN "send" ELSE "idle", None)
     \/ /\ ~Accepts(Pending(w)) /\ UNCHANGED note
        /\ Move(w, IF stage[w] = "finish" THEN "settle" ELSE "idle", "failed")
  /\ UNCHANGED <<installed, held, late, sent>>

\* No answer, or a server error: the call may still be executed.  A result that could
\* not be recorded is recorded as uncertain.
GiveUp(w) ==
  /\ Calling(w)
  /\ late' = late \cup {Pending(w)}
  /\ Move(w, IF stage[w] = "finish" THEN "settle" ELSE "idle", "uncertain")
  /\ UNCHANGED <<note, installed, held, sent>>

Step(stg, out) == [stage |-> stg, outcome |-> out]

\* Before the provider call a failed check is a failed delivery; only the credential
\* notice retries a grant that could not be obtained (deliverCredentialHealthNotification).
PrecheckFails(w) ==
  /\ stage[w] = "send"
  /\ \E out \in {"failed"} \cup (IF KindOf[cur[w].key] = "notice" THEN {"retry"} ELSE {}) :
       /\ out = "retry" => cur[w].retries < MaxRetries
       /\ Move(w, "settle", out)
  /\ UNCHANGED <<note, installed, held, late, sent>>

\* Mutant: an unknown outcome is retried.
sendRetried(result) ==
  CASE result = "accepted" -> {Step("finish", "delivered")}
    [] result = "rejected" -> {Step("finish", "failed"), Step("settle", "failed")}
    [] OTHER               -> {Step("finish", "retry"), Step("settle", "retry")}

\* What a shared delivery does with the provider's result: returned results are
\* recorded inside the try block, thrown ones in the catch block.
sendTeamsMessage(result) ==
  CASE result = "accepted" -> {Step("finish", "delivered")}
    [] result = "rejected" -> {Step("finish", "failed"), Step("settle", "failed")}
    [] result = "limited"  -> {Step("finish", "retry"), Step("settle", "retry")}
    [] result = "unknown"  -> {Step("finish", "uncertain"), Step("settle", "uncertain")}

\* A private delivery also calls an accepted message without a vendor id uncertain.
sendPrivateMessage(result) ==
  IF result = "accepted" THEN {Step("finish", "delivered"), Step("finish", "uncertain")}
                         ELSE sendTeamsMessage(result)

\* The provider call.  The request id counts the retries the lease was claimed with.
Send(w) ==
  /\ stage[w] = "send"
  /\ \E result \in Result :
       /\ result = "limited" => Len(sent[cur[w].key]) < MaxSends /\ cur[w].retries < MaxRetries
       /\ sent' = [sent EXCEPT ![cur[w].key] =
                     Append(@, [attempt |-> cur[w].retries + 1, result |-> result,
                                route |-> cur[w].route])]
       /\ \E s \in IF Private(cur[w].key) THEN sendPrivateMessage(result)
                                          ELSE sendTeamsMessage(result) :
            Move(w, s.stage, s.outcome)
  /\ UNCHANGED <<note, installed, held, late>>

\* The process dies and restarts: it forgets its leases.
Crash(w) ==
  /\ stage[w] # "idle" \/ held[w] # {}
  /\ late' = late \cup (IF Calling(w) THEN {Pending(w)} ELSE {})
  /\ Move(w, "idle", None)
  /\ held' = [held EXCEPT ![w] = {}]
  /\ UNCHANGED <<note, installed, sent>>

Next ==
  \/ \E k \in Key : create_notification(k) \/ Due(k) \/ Lapse(k)
  \/ \E w \in Worker :
       \/ \E kind \in {"channel", "notice"} : claim_notifications(w, kind)
       \/ claim_private_notifications(w)
       \/ Begin(w) \/ Answered(w) \/ GiveUp(w) \/ PrecheckFails(w) \/ Send(w) \/ Crash(w)
  \/ \E c \in late : LateCall(c)
  \/ InstallationChanges

Spec == Init /\ [][Next]_vars

-----------------------------------------------------------------------------
(* Properties.                                                             *)

\* Rows, leases, calls and messages are well formed.
OutboxTypeOK ==
  /\ note \in [Key -> Row]
  /\ installed \in Route \cup {None}
  /\ held \in [Worker -> SUBSET Lease]
  /\ stage \in [Worker -> {"idle", "start", "send", "finish", "settle"}]
  /\ cur \in [Worker -> Lease \cup {None}]
  /\ outcome \in [Worker -> Outcome \cup {None}]
  /\ late \subseteq Call
  /\ sent \in [Key -> Seq(Message)]

\* Only a known rate limit is ever sent again: every message but the last of a
\* notification was refused by the provider, whatever crashed, lapsed or was lost
\* (claim_notifications: "expired in-flight sends become uncertain, never resent").
NeverResent ==
  \A k \in Key : \A i \in 1..(Len(sent[k]) - 1) : sent[k][i].result = "limited"

Last(k) == sent[k][Len(sent[k])]
\* No message was given to the provider, or the provider refused the last one for now.
NothingSent(k) == sent[k] = << >> \/ Last(k).result = "limited"

\* What a row says about the world is so: a delivered one was accepted, a shared one
\* recorded as failed was not accepted and is not in doubt, and a row that may still be
\* claimed has nothing sent.
StatusIsTrue ==
  \A k \in Key :
    /\ note[k].status = "delivered" => sent[k] # << >> /\ Last(k).result = "accepted"
    /\ (note[k].status = "failed" /\ k \in Shared) =>
         NothingSent(k) \/ Last(k).result = "rejected"
    /\ note[k].status \in {"queued", "leased"} => NothingSent(k)

\* Two executors are never between start and result of the same notification, unless
\* the row was already given up as uncertain.
OneSender ==
  \A v, w \in Worker :
    (v # w /\ stage[v] = "send" /\ stage[w] = "send") => cur[v].key # cur[w].key

\* Request ids are not used twice: each message of a shared notification carries its
\* own attempt number (deliverTeamsNotification).
AttemptsDistinct ==
  \A k \in Shared : \A i, j \in DOMAIN sent[k] :
    i # j => sent[k][i].attempt # sent[k][j].attempt

\* The same for every notification.  A test of the retry counter says each retry counts
\* (tests/test_work_api.py: retryCount == retry_number), but holding a private row for
\* a missing installation overwrites the counter, and the next request id repeats.
RetriesCounted ==
  \A k \in Key : \A i, j \in DOMAIN sent[k] :
    i # j => sent[k][i].attempt # sent[k][j].attempt

\* A final outcome is final: it is never changed, not even by a late call.
FinalIsFinal ==
  [][\A k \in Key : note[k].status \in Final => note'[k].status = note[k].status]_vars

-----------------------------------------------------------------------------
(* Fairness: time passes, an executor keeps polling (setInterval in         *)
(* executor.ts) and finishes what it began, because every call it makes has *)
(* a timeout; nobody is obliged to crash.                                   *)
Fairness ==
  /\ \A k \in Key : WF_vars(Due(k)) /\ WF_vars(Lapse(k))
  /\ \A w \in Worker :
       /\ WF_vars(\E kind \in {"channel", "notice"} : claim_notifications(w, kind))
       /\ WF_vars(claim_private_notifications(w))
       /\ WF_vars(Begin(w)) /\ WF_vars(Answered(w) \/ GiveUp(w))
       /\ WF_vars(Send(w) \/ PrecheckFails(w))
FairSpec == Spec /\ Fairness

\* A started notification does not stay started: it is settled by its executor, or a
\* later claim finds its lease expired.
StartedSettles ==
  \A k \in Key : note[k].status = "started" ~> note[k].status # "started"
=============================================================================
