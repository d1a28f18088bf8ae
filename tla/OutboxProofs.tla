---------------------------- MODULE OutboxProofs ----------------------------
(***************************************************************************)
(* Proofs about Outbox, for any notifications, executors, tokens and limits.*)
(*                                                                         *)
(* The invariant has three parts.  Hands: a lease is in one place at a      *)
(* time, because its token was fresh when it was issued and travels with    *)
(* the lease.  Sending: an executor about to send works for a row that      *)
(* still carries its token, or that was given up as uncertain, and nothing  *)
(* was sent for it before.  Truthful: what a row says, and what a pending   *)
(* call would make it say if it were accepted now, agrees with what was     *)
(* sent.                                                                   *)
(***************************************************************************)
EXTENDS Outbox, TLAPS

Limited(s) == \A i \in 1..Len(s) : s[i].result = "limited"

Busy(w) == stage[w] # "idle"

\* A lease, found by its token, is held by one executor, being delivered by one, or in
\* calls it abandoned; a call abandoned before the send has no other trace.
Hands ==
  /\ \A v, w \in Worker : Busy(v) /\ Busy(w) /\ cur[v].token = cur[w].token => v = w
  /\ \A v, w \in Worker : \A l \in held[v] : Busy(w) => l.token # cur[w].token
  /\ \A v, w \in Worker : \A l \in held[v], m \in held[w] : l.token = m.token => v = w /\ l = m
  /\ \A w \in Worker : \A c \in late, l \in held[w] : c.lease.token # l.token
  /\ \A w \in Worker : \A c \in late :
       stage[w] \in {"start", "send"} => c.lease.token # cur[w].token
  /\ \A w \in Worker : \A c \in late :
       c.target = "started" /\ Busy(w) => c.lease.token # cur[w].token
  /\ \A c, d \in late :
       c.target = "started" /\ c.lease.token = d.lease.token => d.target = "started"

\* What must have been sent for notification k to have this status, or for a call to
\* record this outcome.
Truth(k, s, said) ==
  /\ said = "delivered" => s # << >> /\ s[Len(s)].result = "accepted"
  /\ (said = "failed" /\ k \in Shared) =>
       s = << >> \/ s[Len(s)].result \in {"limited", "rejected"}
  /\ said \in {"retry", "absent", "queued", "leased"} => Limited(s)

\* A result for this lease would be accepted.
Current(l) ==
  note[l.key].status = "started" /\ note[l.key].token = l.token /\ note[l.key].lease = "live"

Finishing(w) == stage[w] \in {"finish", "settle"}

Sending ==
  \A w \in Worker : stage[w] = "send" =>
    /\ Limited(sent[cur[w].key])
    /\ \/ note[cur[w].key].status = "started" /\ note[cur[w].key].token = cur[w].token
       \/ note[cur[w].key].status = "uncertain"

Truthful ==
  /\ \A k \in Key : Truth(k, sent[k], note[k].status)
  /\ \A w \in Worker :
       Finishing(w) /\ Current(cur[w]) => Truth(cur[w].key, sent[cur[w].key], outcome[w])
  /\ \A c \in late :
       c.target # "started" /\ Current(c.lease)
         => Truth(c.lease.key, sent[c.lease.key], c.target)

Started(l) == note[l.key].status = "started" /\ note[l.key].token = l.token

\* Nobody has started a row whose lease its executor has yet to start.
Unstarted ==
  \A w \in Worker :
    /\ \A l \in held[w] : ~Started(l)
    /\ stage[w] = "start" => ~Started(cur[w])

Typed ==
  /\ OutboxTypeOK
  /\ \A w \in Worker : Busy(w) => cur[w] \in Lease
  /\ \A w \in Worker : Finishing(w) => outcome[w] \in Outcome

OutboxInv == Typed /\ Hands /\ Unstarted /\ Sending /\ OneSender /\ NeverResent /\ Truthful

-----------------------------------------------------------------------------
(* Sequences and rows.                                                     *)

\* Sending once more after nothing but rate limits.
LEMMA SendAfterLimits ==
  ASSUME NEW s \in Seq(Message), NEW m \in Message, Limited(s), NEW t, t = Append(s, m)
  PROVE  /\ t \in Seq(Message) /\ t # << >> /\ t[Len(t)] = m
         /\ m.result = "limited" => Limited(t)
<1>1. t \in Seq(Message) /\ Len(t) = Len(s) + 1 /\ t[Len(t)] = m /\ Len(s) \in Nat
  OBVIOUS
<1>2. \A i \in 1..Len(s) : t[i] = s[i]
  OBVIOUS
<1>3. t # << >>
  BY <1>1
<1>4. m.result = "limited" => Limited(t)
  BY <1>1, <1>2 DEF Limited
<1> QED
  BY <1>1, <1>3, <1>4

\* Where only rate limits were sent, the last send was a rate limit.
LEMMA LimitedLast ==
  ASSUME NEW s \in Seq(Message), Limited(s)
  PROVE  s = << >> \/ s[Len(s)].result = "limited"
<1>1. CASE s # << >>
  <2>1. Len(s) \in 1..Len(s)
    BY <1>1
  <2> QED
    BY <2>1 DEF Limited
<1> QED
  BY <1>1

\* A status or an outcome that asks for nothing but rate limits agrees with them.
LEMMA LimitedTruth ==
  ASSUME NEW s \in Seq(Message), Limited(s), NEW k, NEW said, said # "delivered"
  PROVE  Truth(k, s, said)
  BY LimitedLast DEF Truth

\* What the sweep of a lapsed lease makes of a row (claim_notifications).
LEMMA SweptRow ==
  ASSUME NEW r \in Row
  PROVE  /\ Swept(r) \in Row
         /\ Swept(r).status # "started" => Swept(r).status = r.status
              \/ (Swept(r).status = "queued" /\ r.status = "leased")
              \/ (Swept(r).status = "uncertain" /\ r.status = "started")
         /\ Swept(r).status = "started" => Swept(r) = r
         /\ Swept(r).due = r.due /\ Swept(r).retries = r.retries
         /\ Swept(r).token \in {r.token, None}
  BY OutboxAssumption DEF Swept, Unleased, Row, Status

\* What a claim writes into a row it leases.
LEMMA LeasedRow ==
  ASSUME NEW r \in Row, NEW t \in Token
  PROVE  Leased(r, t) \in Row /\ Leased(r, t).status = "leased" /\ Leased(r, t).token = t
  BY DEF Leased, Row, Status

\* What an accepted start or finish writes into its row (_transition_notification).
LEMMA TransitionRow ==
  ASSUME NEW r \in Row, NEW target \in {"started"} \cup Outcome
  PROVE  /\ Transition(r, target) \in Row
         /\ target = "started" => /\ Transition(r, target).status = "started"
                                  /\ Transition(r, target).token = r.token
                                  /\ Transition(r, target).lease = r.lease
         /\ target = "retry" => Transition(r, target).status = "queued"
         /\ target \in Final => Transition(r, target).status = target
<1>1. CASE target = "started"
  BY <1>1 DEF Transition, Row, Status, Final
<1>2. CASE target = "retry"
  BY <1>2, OutboxAssumption DEF Transition, Row, Status, Final
<1>3. CASE target \in Final
  BY <1>3 DEF Transition, Row, Status, Final
<1> QED
  BY <1>1, <1>2, <1>3 DEF Outcome

-----------------------------------------------------------------------------
(* Steps that neither send nor record a result.                            *)

\* The row keeps its truth and no started row appears or comes back to life.
QuietRow(k) ==
  /\ Truth(k, sent[k], note'[k].status)
  /\ note'[k].status = "started" =>
       /\ note[k].status = "started" /\ note'[k].token = note[k].token
       /\ note'[k].lease = "live" => note[k].lease = "live"
  /\ note[k].status = "started" => note'[k].status \in {"started", "uncertain"}
  /\ note[k].status = "uncertain" => note'[k].status = "uncertain"

\* A step in which nothing is sent and every row is quiet preserves what is said of sends.
LEMMA QuietStep ==
  ASSUME OutboxInv, sent' = sent, UNCHANGED <<stage, cur, outcome>>, late' \subseteq late,
         \A k \in Key : QuietRow(k)
  PROVE  Sending' /\ OneSender' /\ NeverResent' /\ Truthful'
<1> USE DEF OutboxInv
<1>1. Sending'
  <2> SUFFICES ASSUME NEW w \in Worker, stage[w] = "send"
               PROVE  /\ Limited(sent[cur[w].key])
                      /\ \/ /\ note'[cur[w].key].status = "started"
                            /\ note'[cur[w].key].token = cur[w].token
                         \/ note'[cur[w].key].status = "uncertain"
    BY DEF Sending
  <2>1. cur[w].key \in Key
    BY DEF Typed, Busy, Lease
  <2> QED
    BY <2>1 DEF Sending, QuietRow
<1>2. OneSender' /\ NeverResent'
  BY DEF OneSender, NeverResent
<1>3. ASSUME NEW l \in Lease, Current(l)' PROVE Current(l)
  BY <1>3 DEF Current, QuietRow, Lease
<1>4. \A w \in Worker :
        Finishing(w)' /\ Current(cur[w])' => Truth(cur[w].key, sent[cur[w].key], outcome[w])
  <2> SUFFICES ASSUME NEW w \in Worker, Finishing(w)', Current(cur[w])'
               PROVE  Truth(cur[w].key, sent[cur[w].key], outcome[w])
    OBVIOUS
  <2>1. Finishing(w) /\ cur[w] \in Lease
    BY DEF Finishing, Typed, Busy
  <2>2. Current(cur[w])
    BY <2>1 DEF Current, QuietRow, Lease
  <2> QED
    BY <2>1, <2>2 DEF Truthful
<1>5. \A c \in late' :
        c.target # "started" /\ Current(c.lease)' => Truth(c.lease.key, sent[c.lease.key], c.target)
  <2> SUFFICES ASSUME NEW c \in late', c.target # "started", Current(c.lease)'
               PROVE  Truth(c.lease.key, sent[c.lease.key], c.target)
    OBVIOUS
  <2>1. c \in late /\ c.lease \in Lease
    BY DEF Typed, OutboxTypeOK, Call
  <2> QED
    BY <2>1, <1>3 DEF Truthful
<1>6. Truthful'
  BY <1>4, <1>5 DEF Truthful, QuietRow
<1> QED
  BY <1>1, <1>2, <1>6

\* New leases carry tokens nobody has.
LEMMA HandsClaim ==
  ASSUME Typed, Hands, NEW w \in Worker, NEW got \in SUBSET Lease,
         held' = [held EXCEPT ![w] = got], UNCHANGED <<stage, cur, late>>, held[w] = {},
         \A l \in got : l.token \notin Carried,
         \A l, m \in got : l.token = m.token => l = m
  PROVE  Hands'
<1>1. \A l \in got : /\ \A v \in Worker : Busy(v) => l.token # cur[v].token
                     /\ \A c \in late : c.lease.token # l.token
                     /\ \A v \in Worker : \A m \in held[v] : m.token # l.token
  <2> SUFFICES ASSUME NEW l \in got
               PROVE  /\ \A v \in Worker : Busy(v) => l.token # cur[v].token
                      /\ \A c \in late : c.lease.token # l.token
                      /\ \A v \in Worker : \A m \in held[v] : m.token # l.token
    OBVIOUS
  <2>1. l.token \notin {cur[v].token : v \in {u \in Worker : stage[u] # "idle"}}
    BY DEF Carried
  <2>2. l.token \notin {c.lease.token : c \in late}
    BY DEF Carried
  <2>3. l.token \notin {m.token : m \in UNION {held[v] : v \in Worker}}
    BY DEF Carried
  <2> QED
    BY <2>1, <2>2, <2>3 DEF Busy
<1>2. \A v \in Worker : held'[v] = IF v = w THEN got ELSE held[v]
  BY DEF Typed, OutboxTypeOK
<1>3. \A v \in Worker : Busy(v)' <=> Busy(v)
  BY DEF Busy
<1>4. \A v, u \in Worker : \A l \in held'[v] : Busy(u) => l.token # cur[u].token
  BY <1>1, <1>2 DEF Hands
<1>5. \A v, u \in Worker : \A l \in held'[v], m \in held'[u] : l.token = m.token => v = u /\ l = m
  BY <1>1, <1>2 DEF Hands
<1>6. \A v \in Worker : \A c \in late, l \in held'[v] : c.lease.token # l.token
  BY <1>1, <1>2 DEF Hands
<1> QED
  BY <1>3, <1>4, <1>5, <1>6 DEF Hands

\* Fewer leases and fewer abandoned calls are no danger.
LEMMA HandsFewer ==
  ASSUME Hands, UNCHANGED <<stage, cur, held>>, late' \subseteq late
  PROVE  Hands'
<1>1. \A v \in Worker : Busy(v)' <=> Busy(v)
  BY DEF Busy
<1> QED
  BY <1>1 DEF Hands

\* An executor that goes on with the lease it has, or gives it up, disturbs nobody's leases.
LEMMA HandsOnward ==
  ASSUME Hands, UNCHANGED <<held, late>>,
         \A v \in Worker : Busy(v)' => Busy(v) /\ cur'[v] = cur[v],
         \A v \in Worker : stage'[v] \in {"start", "send"} => stage[v] \in {"start", "send"}
  PROVE  Hands'
<1>1. \A v \in Worker : stage'[v] \in {"start", "send"} => Busy(v)'
  BY DEF Busy
<1>2. \A v, u \in Worker : Busy(v)' /\ Busy(u)' /\ cur'[v].token = cur'[u].token => v = u
  BY DEF Hands
<1>3. \A v, u \in Worker : \A l \in held'[v] : Busy(u)' => l.token # cur'[u].token
  BY DEF Hands
<1>4. \A v \in Worker : \A c \in late' :
        stage'[v] \in {"start", "send"} => c.lease.token # cur'[v].token
  BY <1>1 DEF Hands
<1>5. \A v \in Worker : \A c \in late' :
        c.target = "started" /\ Busy(v)' => c.lease.token # cur'[v].token
  BY DEF Hands
<1> QED
  BY <1>2, <1>3, <1>4, <1>5 DEF Hands

\* Typed only depends on the parts of the state.
LEMMA TypedStep ==
  ASSUME Typed, UNCHANGED <<stage, cur, outcome>>, note' \in [Key -> Row],
         installed' \in Route \cup {None}, held' \in [Worker -> SUBSET Lease],
         late' \subseteq late, sent' = sent
  PROVE  Typed'
<1>1. OutboxTypeOK'
  BY DEF Typed, OutboxTypeOK
<1> QED
  BY <1>1 DEF Typed, Busy, Finishing

\* In a quiet step a lease that was not started does not become so.
LEMMA UnstartedStep ==
  ASSUME OutboxInv, UNCHANGED <<stage, cur, held>>, \A k \in Key : QuietRow(k)
  PROVE  Unstarted'
<1> SUFFICES ASSUME NEW w \in Worker
             PROVE  /\ \A l \in held[w] : ~Started(l)'
                    /\ stage[w] = "start" => ~Started(cur[w])'
  BY DEF Unstarted, Started
<1>1. \A l \in Lease : Started(l)' => Started(l)
  BY DEF Started, QuietRow, Lease
<1>2. held[w] \subseteq Lease /\ (stage[w] = "start" => cur[w] \in Lease)
  BY DEF OutboxInv, Typed, OutboxTypeOK, Busy
<1>3. \A l \in held[w] : ~Started(l)'
  BY <1>1, <1>2 DEF OutboxInv, Unstarted
<1>4. stage[w] = "start" => ~Started(cur[w])'
  BY <1>2 DEF OutboxInv, Unstarted, Started, QuietRow, Lease
<1> QED
  BY <1>3, <1>4

\* The steps that only touch rows or the installation.
LEMMA CreateStep ==
  ASSUME OutboxInv, NEW k \in Key, create_notification(k)
  PROVE  OutboxInv'
<1>1. PICK d \in BOOLEAN :
        note' = [note EXCEPT ![k] = [status |-> "queued", token |-> None, lease |-> "none",
                                     due |-> d, retries |-> 0]]
  BY DEF create_notification
<1>2. UNCHANGED <<installed, held, stage, cur, outcome, late, sent>> /\ note[k].status = "absent"
  BY DEF create_notification
<1>3. note \in [Key -> Row]
  BY DEF OutboxInv, Typed, OutboxTypeOK
<1>4. note' \in [Key -> Row]
  BY <1>1, <1>3 DEF Row, Status
<1>5. \A j \in Key : QuietRow(j)
  <2> SUFFICES ASSUME NEW j \in Key PROVE QuietRow(j)
    OBVIOUS
  <2>1. Truth(j, sent[j], note[j].status)
    BY DEF OutboxInv, Truthful
  <2>2. CASE j = k
    <3>1. note'[j].status = "queued"
      BY <1>1, <1>3, <2>2
    <3> QED
      BY <3>1, <2>1, <2>2, <1>2 DEF QuietRow, Truth
  <2>3. CASE j # k
    BY <2>1, <2>3, <1>1, <1>3 DEF QuietRow
  <2> QED
    BY <2>2, <2>3
<1>6. Typed'
  BY <1>2, <1>4, TypedStep DEF OutboxInv, Typed, OutboxTypeOK
<1>7. Hands' /\ Unstarted'
  BY <1>2, <1>5, HandsFewer, UnstartedStep DEF OutboxInv
<1> QED
  BY <1>2, <1>5, <1>6, <1>7, QuietStep DEF OutboxInv

\* Time passes: a row falls due or a lease lapses.
LEMMA ClockStep ==
  ASSUME OutboxInv, NEW k \in Key, Due(k) \/ Lapse(k)
  PROVE  OutboxInv'
<1>1. UNCHANGED <<installed, held, stage, cur, outcome, late, sent>>
  BY DEF Due, Lapse
<1>2. note \in [Key -> Row]
  BY DEF OutboxInv, Typed, OutboxTypeOK
<1>3. PICK r : /\ note' = [note EXCEPT ![k] = r]
               /\ r \in Row /\ r.status = note[k].status /\ r.token = note[k].token
               /\ r.lease = "live" => note[k].lease = "live"
  <2>1. CASE Due(k)
    <3> DEFINE r == [status |-> "queued", token |-> note[k].token, lease |-> note[k].lease,
                     due |-> TRUE, retries |-> note[k].retries]
    <3>1. r \in Row
      BY <1>2 DEF Row, Status
    <3>2. note' = [note EXCEPT ![k] = r] /\ note[k].status = "queued"
      BY <2>1 DEF Due
    <3>3. r.status = "queued" /\ r.token = note[k].token /\ r.lease = note[k].lease
      OBVIOUS
    <3> HIDE DEF r
    <3> QED
      BY <3>1, <3>2, <3>3
  <2>2. CASE Lapse(k)
    BY <1>2, <2>2 DEF Lapse, Row, Status
  <2> QED
    BY <2>1, <2>2
<1>4. note' \in [Key -> Row]
  BY <1>2, <1>3
<1>5. \A j \in Key : /\ note'[j].status = note[j].status /\ note'[j].token = note[j].token
                     /\ note'[j].lease = "live" => note[j].lease = "live"
  BY <1>2, <1>3
<1>6. \A j \in Key : QuietRow(j)
  BY <1>5 DEF QuietRow, OutboxInv, Truthful
<1>7. Typed'
  BY <1>1, <1>4, TypedStep DEF OutboxInv, Typed, OutboxTypeOK
<1>8. Hands' /\ Unstarted'
  BY <1>1, <1>6, HandsFewer, UnstartedStep DEF OutboxInv
<1> QED
  BY <1>1, <1>6, <1>7, <1>8, QuietStep DEF OutboxInv

\* The owner installs, moves or removes the app (apply_private_installation).
LEMMA InstallationStep ==
  ASSUME OutboxInv, InstallationChanges
  PROVE  OutboxInv'
<1>1. UNCHANGED <<note, held, stage, cur, outcome, late, sent>> /\ installed' \in Route \cup {None}
  BY DEF InstallationChanges
<1>2. \A j \in Key : QuietRow(j)
  BY <1>1 DEF QuietRow, OutboxInv, Truthful
<1>3. Typed'
  BY <1>1, TypedStep DEF OutboxInv, Typed, OutboxTypeOK
<1>4. Hands' /\ Unstarted'
  BY <1>1, <1>2, HandsFewer, UnstartedStep DEF OutboxInv
<1> QED
  BY <1>1, <1>2, <1>3, <1>4, QuietStep DEF OutboxInv

-----------------------------------------------------------------------------
(* Claims.                                                                 *)

\* A swept row is quiet, and so is a due row leased after the sweep.
LEMMA SweptQuiet ==
  ASSUME OutboxInv, NEW k \in Key, NEW r \in Row, r = note[k] \/ r = Swept(note[k]),
         \/ note'[k].status = r.status /\ note'[k].token = r.token /\ note'[k].lease = r.lease
         \/ r.status = "queued" /\ note'[k].status = "leased"
  PROVE  QuietRow(k)
<1>1. note[k] \in Row /\ Truth(k, sent[k], note[k].status)
  BY DEF OutboxInv, Typed, OutboxTypeOK, Truthful
<1>2. CASE r = note[k]
  BY <1>1, <1>2 DEF QuietRow, Truth
<1>3. CASE r = Swept(note[k])
  <2>1. r.status = "started" => r = note[k]
    BY <1>1, <1>3, SweptRow
  <2>2. r.status # "started" => r.status = note[k].status
              \/ (r.status = "queued" /\ note[k].status = "leased")
              \/ (r.status = "uncertain" /\ note[k].status = "started")
    BY <1>1, <1>3, SweptRow
  <2> QED
    BY <1>1, <2>1, <2>2 DEF QuietRow, Truth
<1> QED
  BY <1>2, <1>3

\* What a claim does, whichever rows it leases.
LEMMA ClaimStep ==
  ASSUME OutboxInv, NEW w \in Worker, stage[w] = "idle", held[w] = {},
         NEW leases \in SUBSET Lease, Receive(w, leases),
         note' \in [Key -> Row], \A k \in Key : QuietRow(k),
         \A l \in leases : l.token \notin Carried /\ note'[l.key].status = "leased",
         \A l, m \in leases : l.token = m.token => l = m
  PROVE  OutboxInv'
<1>1. PICK got \in {{}, leases} : held' = [held EXCEPT ![w] = got]
  BY DEF Receive
<1>2. UNCHANGED <<installed, stage, cur, outcome, late, sent>>
  BY DEF Receive
<1>3. held' \in [Worker -> SUBSET Lease]
  BY <1>1 DEF OutboxInv, Typed, OutboxTypeOK
<1>4. Typed'
  BY <1>2, <1>3, TypedStep DEF OutboxInv, Typed, OutboxTypeOK
<1>5. Hands'
  BY <1>1, <1>2, HandsClaim DEF OutboxInv
<1>6. Unstarted'
  <2>1. \A l \in Lease : Started(l)' => Started(l)
    BY DEF Started, QuietRow, Lease
  <2>2. \A v \in Worker : held'[v] = IF v = w THEN got ELSE held[v]
    BY <1>1 DEF OutboxInv, Typed, OutboxTypeOK
  <2>3. \A l \in got : ~Started(l)'
    BY DEF Started
  <2>4. \A v \in Worker : \A l \in held'[v] : ~Started(l)'
    BY <2>1, <2>2, <2>3 DEF OutboxInv, Unstarted, Typed, OutboxTypeOK
  <2>5. ASSUME NEW v \in Worker, stage[v] = "start" PROVE ~Started(cur[v])'
    <3>1. cur[v] \in Lease /\ ~Started(cur[v])
      BY <2>5 DEF OutboxInv, Typed, Busy, Unstarted
    <3> QED
      BY <1>2, <3>1 DEF Started, QuietRow, Lease
  <2> QED
    BY <1>2, <2>4, <2>5 DEF Unstarted, Started
<1> QED
  BY <1>2, <1>4, <1>5, <1>6, QuietStep DEF OutboxInv

\* claim_notifications preserves the invariant.
LEMMA SharedClaimStep ==
  ASSUME OutboxInv, NEW w \in Worker, NEW kind, claim_notifications(w, kind)
  PROVE  OutboxInv'
<1> DEFINE swept == [k \in Key |-> IF k \in Shared THEN Swept(note[k]) ELSE note[k]]
           ready == {k \in Shared : KindOf[k] = kind /\ swept[k].status = "queued" /\ swept[k].due}
           leases(S, f) == {[key |-> k, token |-> f[k], retries |-> swept[k].retries,
                             route |-> None] : k \in S}
<1>0. PICK S \in SUBSET ready : \E f \in Tokens(S) :
        /\ note' = [k \in Key |-> IF k \in S THEN Leased(swept[k], f[k]) ELSE swept[k]]
        /\ Receive(w, leases(S, f))
  BY DEF claim_notifications
<1>1. PICK f \in Tokens(S) :
        /\ note' = [k \in Key |-> IF k \in S THEN Leased(swept[k], f[k]) ELSE swept[k]]
        /\ Receive(w, leases(S, f))
  BY <1>0
<1>2. stage[w] = "idle" /\ held[w] = {}
  BY DEF claim_notifications
<1>3. \A k \in Key : note[k] \in Row /\ swept[k] \in Row
  BY SweptRow DEF OutboxInv, Typed, OutboxTypeOK
<1>4. S \subseteq Key /\ \A k \in S : f[k] \in Token /\ f[k] \notin Carried
  BY <1>1 DEF Tokens, Shared
<1>5. \A k, j \in S : f[k] = f[j] => k = j
  BY <1>1 DEF Tokens
<1>6. note' \in [Key -> Row] /\ \A k \in S : note'[k].status = "leased"
  BY <1>1, <1>3, <1>4, LeasedRow
<1>7. \A k \in Key : QuietRow(k)
  <2> SUFFICES ASSUME NEW k \in Key PROVE QuietRow(k)
    OBVIOUS
  <2>1. swept[k] = note[k] \/ swept[k] = Swept(note[k])
    OBVIOUS
  <2>2. CASE k \in S
    <3>1. swept[k].status = "queued"
      BY <1>1, <2>2
    <3> QED
      BY <1>3, <1>6, <2>1, <2>2, <3>1, SweptQuiet
  <2>3. CASE k \notin S
    <3>1. note'[k] = swept[k]
      BY <1>1, <2>3
    <3> QED
      BY <1>3, <2>1, <3>1, SweptQuiet
  <2> QED
    BY <2>2, <2>3
<1>8. leases(S, f) \in SUBSET Lease
  <2> SUFFICES ASSUME NEW k \in S
               PROVE  [key |-> k, token |-> f[k], retries |-> swept[k].retries, route |-> None]
                        \in Lease
    OBVIOUS
  <2>1. swept[k].retries \in Nat /\ k \in Key /\ f[k] \in Token
    BY <1>3, <1>4 DEF Row
  <2> HIDE DEF swept
  <2> QED
    BY <2>1 DEF Lease
<1>9. \A l \in leases(S, f) : /\ l.key \in S /\ l.token = f[l.key]
                              /\ l = [key |-> l.key, token |-> f[l.key],
                                      retries |-> swept[l.key].retries, route |-> None]
  OBVIOUS
<1>10. \A l \in leases(S, f) : l.token \notin Carried /\ note'[l.key].status = "leased"
  BY <1>4, <1>6, <1>9
<1> HIDE DEF leases, swept
<1>11. ASSUME NEW l \in leases(S, f), NEW m \in leases(S, f), l.token = m.token PROVE l = m
  <2>1. l.key = m.key
    BY <1>5, <1>9, <1>11
  <2> QED
    BY <1>9, <2>1, Zenon
<1> DEFINE L == leases(S, f)
<1>12. L \in SUBSET Lease /\ Receive(w, L)
  BY <1>1, <1>8
<1>13. /\ \A l \in L : l.token \notin Carried /\ note'[l.key].status = "leased"
       /\ \A l, m \in L : l.token = m.token => l = m
  BY <1>10, <1>11
<1> HIDE DEF L
<1> QED
  BY <1>2, <1>6, <1>7, <1>12, <1>13, ClaimStep

\* claim_private_notifications preserves the invariant.
LEMMA PrivateClaimStep ==
  ASSUME OutboxInv, NEW w \in Worker, claim_private_notifications(w)
  PROVE  OutboxInv'
<1> DEFINE swept == [k \in Key |-> IF k \in Owned THEN Swept(note[k]) ELSE note[k]]
           ready == {k \in Owned : swept[k].status = "queued" /\ swept[k].due}
           hold(r) == [status |-> r.status, token |-> r.token, lease |-> r.lease, due |-> r.due,
                       retries |-> 0]
<1>1. stage[w] = "idle" /\ held[w] = {}
  BY DEF claim_private_notifications
<1>2. \A k \in Key : /\ note[k] \in Row /\ swept[k] \in Row
                     /\ swept[k] = note[k] \/ swept[k] = Swept(note[k])
  BY SweptRow DEF OutboxInv, Typed, OutboxTypeOK
<1>3. CASE /\ note' = [k \in Key |-> IF k \in ready THEN hold(swept[k]) ELSE swept[k]]
           /\ Receive(w, {})
  <2>1. \A k \in Key : /\ note'[k].status = swept[k].status /\ note'[k].token = swept[k].token
                       /\ note'[k].lease = swept[k].lease
    BY <1>3
  <2>2. \A k \in Key : QuietRow(k)
    BY <1>2, <2>1, SweptQuiet
  <2>3. \A r \in Row : hold(r) \in Row
    BY DEF Row
  <2>4. note' \in [Key -> Row]
    BY <1>2, <1>3, <2>3
  <2> HIDE DEF swept, ready
  <2> QED
    BY <1>1, <1>3, <2>2, <2>4, ClaimStep
<1>4. ASSUME NEW k \in ready, NEW t \in Token \ Carried, installed # None,
             note' = [j \in Key |-> IF j = k THEN Leased(swept[k], t) ELSE swept[j]],
             Receive(w, {[key |-> k, token |-> t, retries |-> swept[k].retries,
                          route |-> installed]})
      PROVE  OutboxInv'
  <2> DEFINE l == [key |-> k, token |-> t, retries |-> swept[k].retries, route |-> installed]
  <2>1. k \in Key /\ swept[k].status = "queued"
    BY <1>4 DEF Owned
  <2>2. note' \in [Key -> Row] /\ note'[k].status = "leased"
    BY <1>2, <1>4, <2>1, LeasedRow
  <2>3. \A j \in Key : j # k => note'[j] = swept[j]
    BY <1>4
  <2>4. \A j \in Key : QuietRow(j)
    BY <1>2, <2>1, <2>2, <2>3, SweptQuiet
  <2>5. swept[k].retries \in Nat /\ installed \in Route \cup {None}
    BY <1>2, <2>1 DEF Row, OutboxInv, Typed, OutboxTypeOK
  <2> HIDE DEF swept, ready
  <2>6. l \in Lease /\ l.token = t /\ l.key = k
    BY <2>1, <2>5 DEF Lease
  <2>7. {l} \in SUBSET Lease
    BY <2>6
  <2>8. \A m \in {l} : m.token \notin Carried /\ note'[m.key].status = "leased"
    BY <2>2, <2>6
  <2>9. Receive(w, {l})
    BY <1>4
  <2> HIDE DEF l
  <2> QED
    BY <1>1, <2>2, <2>4, <2>7, <2>8, <2>9, ClaimStep
<1> QED
  BY <1>3, <1>4 DEF claim_private_notifications

-----------------------------------------------------------------------------
(* The executor.                                                           *)

\* What Move does to the executor and to the others.
LEMMA MoveFacts ==
  ASSUME Typed, NEW w \in Worker, NEW stg \in {"idle", "start", "send", "finish", "settle"}, NEW out,
         Move(w, stg, out)
  PROVE  /\ \A v \in Worker : v # w => /\ stage'[v] = stage[v] /\ cur'[v] = cur[v]
                                       /\ outcome'[v] = outcome[v]
         /\ stage'[w] = stg
         /\ stg # "idle" => cur'[w] = cur[w] /\ outcome'[w] = out
         /\ stage' \in [Worker -> {"idle", "start", "send", "finish", "settle"}]
         /\ out \in Outcome \cup {None} => outcome' \in [Worker -> Outcome \cup {None}]
         /\ cur' \in [Worker -> Lease \cup {None}]
  BY DEF Typed, OutboxTypeOK, Move

\* An executor takes up the next row of its batch (drainTeamsNotifications).
LEMMA BeginStep ==
  ASSUME OutboxInv, NEW w \in Worker, Begin(w)
  PROVE  OutboxInv'
<1> USE DEF OutboxInv
<1>1. PICK l \in held[w] : /\ held' = [held EXCEPT ![w] = @ \ {l}]
                           /\ cur' = [cur EXCEPT ![w] = l]
  BY DEF Begin
<1>2. /\ stage' = [stage EXCEPT ![w] = "start"] /\ stage[w] = "idle"
      /\ UNCHANGED <<note, installed, outcome, late, sent>>
  BY DEF Begin
<1>3. l \in Lease
  BY DEF Typed, OutboxTypeOK
<1>4. \A v \in Worker : /\ stage'[v] = IF v = w THEN "start" ELSE stage[v]
                        /\ cur'[v] = IF v = w THEN l ELSE cur[v]
                        /\ held'[v] = IF v = w THEN held[w] \ {l} ELSE held[v]
  BY <1>1, <1>2 DEF Typed, OutboxTypeOK
<1>5. Typed'
  <2>1. OutboxTypeOK'
    BY <1>1, <1>2, <1>3 DEF Typed, OutboxTypeOK
  <2> QED
    BY <1>2, <1>3, <1>4, <2>1 DEF Typed, Busy, Finishing
<1>6. Hands'
  BY <1>2, <1>4 DEF Hands, Busy
<1>7. Unstarted'
  BY <1>2, <1>4 DEF Unstarted, Started
<1>8. Sending' /\ OneSender' /\ NeverResent'
  BY <1>2, <1>4 DEF Sending, OneSender, NeverResent
<1>9. Truthful'
  BY <1>2, <1>4 DEF Truthful, Finishing, Current
<1> QED
  BY <1>5, <1>6, <1>7, <1>8, <1>9

\* A pending call is a call, and its result would be true if it were accepted.
LEMMA PendingFacts ==
  ASSUME OutboxInv, NEW w \in Worker, Calling(w)
  PROVE  /\ Pending(w) \in Call /\ Pending(w).lease = cur[w] /\ cur[w] \in Lease /\ Busy(w)
         /\ stage[w] = "start" => Pending(w).target = "started"
         /\ stage[w] # "start" => Finishing(w) /\ Pending(w).target = outcome[w]
         /\ Pending(w).target = "started" => stage[w] = "start"
         /\ Pending(w).target # "started" /\ Current(cur[w])
              => Truth(cur[w].key, sent[cur[w].key], Pending(w).target)
<1> USE DEF OutboxInv
<1>1. Busy(w) /\ cur[w] \in Lease /\ (stage[w] # "start" => Finishing(w) /\ outcome[w] \in Outcome)
  BY DEF Calling, Busy, Finishing, Typed
<1>2. Pending(w).lease = cur[w]
      /\ Pending(w).target = IF stage[w] = "start" THEN "started" ELSE outcome[w]
  BY DEF Pending
<1>3. Pending(w) \in Call
  BY <1>1 DEF Pending, Call
<1>4. "started" \notin Outcome
  BY DEF Outcome, Final
<1> QED
  BY <1>1, <1>2, <1>3, <1>4 DEF Truthful

\* An executor that stops calling leaves its call behind.
LEMMA AbandonHands ==
  ASSUME OutboxInv, NEW w \in Worker, NEW lost \in SUBSET {Pending(w)},
         lost # {} => Calling(w), late' = late \cup lost,
         \A v \in Worker : v # w => stage'[v] = stage[v] /\ cur'[v] = cur[v],
         \A v \in Worker : held'[v] \subseteq held[v],
         stage'[w] = "idle" \/ (stage[w] = "finish" /\ stage'[w] = "settle" /\ cur'[w] = cur[w])
  PROVE  Hands'
<1> USE DEF OutboxInv
<1>1. \A v \in Worker : Busy(v)' => Busy(v) /\ cur'[v] = cur[v]
  BY DEF Busy
<1>2. \A v \in Worker : stage'[v] \in {"start", "send"} => v # w /\ stage[v] = stage'[v]
  OBVIOUS
<1>3. \A c \in lost : /\ c.lease = cur[w] /\ Busy(w)
                      /\ c.target = "started" => stage[w] = "start" /\ stage'[w] = "idle"
  <2> SUFFICES ASSUME NEW c \in lost
               PROVE  /\ c.lease = cur[w] /\ Busy(w)
                      /\ c.target = "started" => stage[w] = "start" /\ stage'[w] = "idle"
    OBVIOUS
  <2>1. c = Pending(w) /\ Calling(w)
    OBVIOUS
  <2> QED
    BY <2>1, PendingFacts
<1>4. \A v, u \in Worker : Busy(v)' /\ Busy(u)' /\ cur'[v].token = cur'[u].token => v = u
  BY <1>1 DEF Hands
<1>5. \A v, u \in Worker : \A l \in held'[v] : Busy(u)' => l.token # cur'[u].token
  BY <1>1 DEF Hands
<1>6. \A v, u \in Worker : \A l \in held'[v], m \in held'[u] : l.token = m.token => v = u /\ l = m
  BY DEF Hands
<1>7. \A v \in Worker : \A c \in late', l \in held'[v] : c.lease.token # l.token
  BY <1>3 DEF Hands
<1>8. \A v \in Worker : \A c \in late' :
        stage'[v] \in {"start", "send"} => c.lease.token # cur'[v].token
  BY <1>1, <1>2, <1>3 DEF Hands, Busy
<1>9. \A v \in Worker : \A c \in late' :
        c.target = "started" /\ Busy(v)' => c.lease.token # cur'[v].token
  <2> SUFFICES ASSUME NEW v \in Worker, NEW c \in late', c.target = "started", Busy(v)'
               PROVE  c.lease.token # cur'[v].token
    OBVIOUS
  <2>1. CASE c \in late
    BY <1>1, <2>1 DEF Hands
  <2>2. CASE c \in lost
    BY <1>1, <1>3, <2>2 DEF Hands, Busy
  <2> QED
    BY <2>1, <2>2
<1>10. \A c, d \in late' :
         c.target = "started" /\ c.lease.token = d.lease.token => d.target = "started"
  <2> SUFFICES ASSUME NEW c \in late', NEW d \in late', c.target = "started",
                      c.lease.token = d.lease.token
               PROVE  d.target = "started"
    OBVIOUS
  <2>1. CASE c \in late /\ d \in late
    BY <2>1 DEF Hands
  <2>2. CASE c \in late /\ d \in lost
    BY <1>3, <2>2 DEF Hands
  <2>3. CASE c \in lost /\ d \in late
    BY <1>3, <2>3 DEF Hands
  <2>4. CASE c \in lost /\ d \in lost
    BY <2>4
  <2> QED
    BY <2>1, <2>2, <2>3, <2>4
<1> QED
  BY <1>4, <1>5, <1>6, <1>7, <1>8, <1>9, <1>10 DEF Hands

\* Abandoning a call, after a timeout or a crash, preserves the invariant.
LEMMA AbandonStep ==
  ASSUME OutboxInv, NEW w \in Worker, NEW stg, Move(w, stg, "uncertain") \/ Move(w, stg, None),
         stg = "idle" \/ (stage[w] = "finish" /\ stg = "settle" /\ Move(w, stg, "uncertain")),
         NEW lost \in SUBSET {Pending(w)}, lost # {} => Calling(w), late' = late \cup lost,
         held' \in [Worker -> SUBSET Lease], \A v \in Worker : held'[v] \subseteq held[v],
         UNCHANGED <<note, installed, sent>>
  PROVE  OutboxInv'
<1> USE DEF OutboxInv
<1>1. /\ \A v \in Worker : v # w => /\ stage'[v] = stage[v] /\ cur'[v] = cur[v]
                                    /\ outcome'[v] = outcome[v]
      /\ stage'[w] = stg
      /\ stg # "idle" => cur'[w] = cur[w] /\ outcome'[w] = "uncertain"
      /\ stage' \in [Worker -> {"idle", "start", "send", "finish", "settle"}]
      /\ outcome' \in [Worker -> Outcome \cup {None}]
      /\ cur' \in [Worker -> Lease \cup {None}]
  BY MoveFacts DEF Outcome, Final
<1>2. lost \subseteq Call
  BY PendingFacts
<1>3. Typed'
  <2>1. OutboxTypeOK'
    BY <1>1, <1>2 DEF Typed, OutboxTypeOK
  <2> QED
    BY <1>1, <2>1 DEF Typed, Busy, Finishing, Outcome, Final
<1>4. Hands'
  BY <1>1, AbandonHands
<1>5. Unstarted'
  BY <1>1 DEF Unstarted, Started
<1>6. Sending' /\ OneSender' /\ NeverResent'
  BY <1>1 DEF Sending, OneSender, NeverResent
<1>7. Truthful'
  <2>1. ASSUME NEW v \in Worker, Finishing(v)', Current(cur[v])'
        PROVE  Truth(cur'[v].key, sent[cur'[v].key], outcome'[v])
    <3>1. CASE v = w
      BY <1>1, <2>1, <3>1 DEF Finishing, Truth
    <3>2. CASE v # w
      BY <1>1, <2>1, <3>2 DEF Finishing, Truthful, Current
    <3> QED
      BY <3>1, <3>2
  <2>2. ASSUME NEW c \in late', c.target # "started", Current(c.lease)'
        PROVE  Truth(c.lease.key, sent[c.lease.key], c.target)
    <3>0. Current(c.lease)
      BY <2>2 DEF Current
    <3>1. CASE c \in late
      BY <2>2, <3>0, <3>1 DEF Truthful
    <3>2. CASE c \in lost
      BY <2>2, <3>0, <3>2, PendingFacts
    <3> QED
      BY <3>1, <3>2
  <2> QED
    BY <2>1, <2>2 DEF Truthful
<1> QED
  BY <1>3, <1>4, <1>5, <1>6, <1>7

\* An executor gives up a call whose answer did not come.
LEMMA GiveUpStep ==
  ASSUME OutboxInv, NEW w \in Worker, GiveUp(w)
  PROVE  OutboxInv'
<1> DEFINE stg == IF stage[w] = "finish" THEN "settle" ELSE "idle"
<1>1. /\ Calling(w) /\ late' = late \cup {Pending(w)} /\ Move(w, stg, "uncertain")
      /\ UNCHANGED <<note, installed, held, sent>>
  BY DEF GiveUp
<1>2. held' \in [Worker -> SUBSET Lease] /\ \A v \in Worker : held'[v] \subseteq held[v]
  BY <1>1 DEF OutboxInv, Typed, OutboxTypeOK
<1>3. stg = "idle" \/ (stage[w] = "finish" /\ stg = "settle")
  OBVIOUS
<1> HIDE DEF stg
<1> QED
  BY <1>1, <1>2, <1>3, AbandonStep

\* An executor crashes; what it had sent may still arrive.
LEMMA CrashStep ==
  ASSUME OutboxInv, NEW w \in Worker, Crash(w)
  PROVE  OutboxInv'
<1>1. /\ Move(w, "idle", None) /\ held' = [held EXCEPT ![w] = {}]
      /\ UNCHANGED <<note, installed, sent>>
  BY DEF Crash
<1>2. PICK lost \in SUBSET {Pending(w)} : (lost # {} => Calling(w)) /\ late' = late \cup lost
  <2>1. CASE Calling(w)
    BY <2>1 DEF Crash
  <2>2. CASE ~Calling(w)
    BY <2>2 DEF Crash
  <2> QED
    BY <2>1, <2>2
<1>3. held' \in [Worker -> SUBSET Lease] /\ \A v \in Worker : held'[v] \subseteq held[v]
  BY <1>1 DEF OutboxInv, Typed, OutboxTypeOK
<1> QED
  BY <1>1, <1>2, <1>3, AbandonStep

\* A check that fails before the provider call.
LEMMA PrecheckStep ==
  ASSUME OutboxInv, NEW w \in Worker, PrecheckFails(w)
  PROVE  OutboxInv'
<1> USE DEF OutboxInv
<1>1. PICK out \in {"failed", "retry"} : Move(w, "settle", out)
  BY DEF PrecheckFails
<1>2. stage[w] = "send" /\ UNCHANGED <<note, installed, held, late, sent>>
  BY DEF PrecheckFails
<1>3. out \in Outcome
  BY DEF Outcome, Final
<1>4. /\ \A v \in Worker : v # w => /\ stage'[v] = stage[v] /\ cur'[v] = cur[v]
                                    /\ outcome'[v] = outcome[v]
      /\ stage'[w] = "settle" /\ cur'[w] = cur[w] /\ outcome'[w] = out
      /\ stage' \in [Worker -> {"idle", "start", "send", "finish", "settle"}]
      /\ outcome' \in [Worker -> Outcome \cup {None}]
      /\ cur' \in [Worker -> Lease \cup {None}]
  BY <1>1, <1>3, MoveFacts
<1>5. Typed'
  <2>1. OutboxTypeOK'
    BY <1>2, <1>4 DEF Typed, OutboxTypeOK
  <2> QED
    BY <1>2, <1>3, <1>4, <2>1 DEF Typed, Busy, Finishing
<1>6. Hands'
  <2>1. \A v \in Worker : Busy(v)' => Busy(v) /\ cur'[v] = cur[v]
    BY <1>2, <1>4 DEF Busy
  <2>2. \A v \in Worker : stage'[v] \in {"start", "send"} => stage[v] \in {"start", "send"}
    BY <1>2, <1>4
  <2> QED
    BY <1>2, <2>1, <2>2, HandsOnward
<1>7. Unstarted' /\ Sending' /\ OneSender' /\ NeverResent'
  BY <1>2, <1>4 DEF Unstarted, Started, Sending, OneSender, NeverResent
<1>8. Truth(cur[w].key, sent[cur[w].key], out)
  <2>1. Limited(sent[cur[w].key]) /\ sent[cur[w].key] \in Seq(Message)
    BY <1>2 DEF Sending, Typed, OutboxTypeOK, Busy, Lease
  <2> QED
    BY <2>1, LimitedTruth
<1>9. Truthful'
  BY <1>2, <1>4, <1>8 DEF Truthful, Finishing, Current
<1> QED
  BY <1>5, <1>6, <1>7, <1>9

\* What the delivery code records about each result of the provider.
LEMMA SendOutcome ==
  ASSUME NEW k, NEW result \in Result,
         NEW s \in IF Private(k) THEN sendPrivateMessage(result) ELSE sendTeamsMessage(result)
  PROVE  /\ s.stage \in {"finish", "settle"} /\ s.outcome \in Outcome
         /\ s.outcome = "retry" => result = "limited"
         /\ s.outcome = "delivered" => result = "accepted"
         /\ s.outcome = "failed" => result = "rejected"
<1>1. s \in {Step("finish", "delivered"), Step("finish", "uncertain"), Step("settle", "uncertain"),
             Step("finish", "failed"), Step("settle", "failed"), Step("finish", "retry"),
             Step("settle", "retry")}
  BY DEF sendPrivateMessage, sendTeamsMessage, Result
<1>2. s.stage \in {"finish", "settle"} /\ s.outcome \in Outcome
  BY <1>1 DEF Step, Outcome, Final
<1>3. s.outcome = "retry" => result = "limited"
  BY DEF sendPrivateMessage, sendTeamsMessage, Result, Step
<1>4. s.outcome = "delivered" => result = "accepted"
  BY DEF sendPrivateMessage, sendTeamsMessage, Result, Step
<1>5. s.outcome = "failed" => result = "rejected"
  BY DEF sendPrivateMessage, sendTeamsMessage, Result, Step
<1> QED
  BY <1>2, <1>3, <1>4, <1>5

\* The provider call.
LEMMA SendStep ==
  ASSUME OutboxInv, NEW w \in Worker, Send(w)
  PROVE  OutboxInv'
<1> USE DEF OutboxInv
<1> DEFINE k == cur[w].key
<1>1. PICK result \in Result :
        /\ sent' = [sent EXCEPT ![k] = Append(@, [attempt |-> cur[w].retries + 1,
                                                  result |-> result, route |-> cur[w].route])]
        /\ \E s \in IF Private(k) THEN sendPrivateMessage(result) ELSE sendTeamsMessage(result) :
             Move(w, s.stage, s.outcome)
  BY DEF Send
<1>2. PICK s \in IF Private(k) THEN sendPrivateMessage(result) ELSE sendTeamsMessage(result) :
        Move(w, s.stage, s.outcome)
  BY <1>1
<1>3. stage[w] = "send" /\ UNCHANGED <<note, installed, held, late>>
  BY DEF Send
<1>4. cur[w] \in Lease /\ k \in Key /\ cur[w].retries \in Nat /\ cur[w].route \in Route \cup {None}
  BY <1>3 DEF Typed, Busy, Lease
<1>5. /\ s.stage \in {"finish", "settle"} /\ s.outcome \in Outcome
      /\ s.outcome = "retry" => result = "limited"
      /\ s.outcome = "delivered" => result = "accepted"
      /\ s.outcome = "failed" => result = "rejected"
  BY SendOutcome
<1>6. /\ \A v \in Worker : v # w => /\ stage'[v] = stage[v] /\ cur'[v] = cur[v]
                                    /\ outcome'[v] = outcome[v]
      /\ stage'[w] = s.stage /\ cur'[w] = cur[w] /\ outcome'[w] = s.outcome
      /\ stage' \in [Worker -> {"idle", "start", "send", "finish", "settle"}]
      /\ outcome' \in [Worker -> Outcome \cup {None}]
      /\ cur' \in [Worker -> Lease \cup {None}]
  BY <1>2, <1>5, MoveFacts
<1>7. PICK m \in Message :
        m = [attempt |-> cur[w].retries + 1, result |-> result, route |-> cur[w].route]
  <2>1. [attempt |-> cur[w].retries + 1, result |-> result, route |-> cur[w].route] \in Message
    BY <1>4 DEF Message
  <2> QED
    BY <2>1
<1>8. sent \in [Key -> Seq(Message)] /\ Limited(sent[k])
  BY <1>3 DEF Typed, OutboxTypeOK, Sending
<1>9. sent'[k] = Append(sent[k], m) /\ \A j \in Key : j # k => sent'[j] = sent[j]
  BY <1>1, <1>4, <1>7, <1>8
<1>10. /\ sent'[k] \in Seq(Message) /\ sent'[k] # << >> /\ sent'[k][Len(sent'[k])] = m
       /\ \A i \in 1..(Len(sent'[k]) - 1) : sent'[k][i].result = "limited"
       /\ m.result = "limited" => Limited(sent'[k])
  <2>1. PICK q \in Seq(Message) : q = sent[k] /\ Limited(q)
    BY <1>4, <1>8
  <2>2. PICK t : t = Append(q, m)
    OBVIOUS
  <2>3. t \in Seq(Message) /\ t # << >> /\ t[Len(t)] = m
    <3>1. t \in Seq(Message)
      BY <2>1, <2>2, SendAfterLimits
    <3>2. t # << >>
      BY <2>1, <2>2
    <3>3. t[Len(t)] = m
      BY <2>1, <2>2, SendAfterLimits
    <3> QED
      BY <3>1, <3>2, <3>3
  <2>4. \A i \in 1..(Len(t) - 1) : t[i].result = "limited"
    <3>1. Len(t) = Len(q) + 1 /\ Len(q) \in Nat /\ \A i \in 1..Len(q) : t[i] = q[i]
      BY <2>2
    <3> QED
      BY <2>1, <3>1 DEF Limited
  <2>5. m.result = "limited" => Limited(t)
    BY <2>1, <2>2, SendAfterLimits
  <2>6. t = sent'[k]
    BY <1>9, <2>1, <2>2
  <2> QED
    BY <2>3, <2>4, <2>5, <2>6
<1>11. sent' \in [Key -> Seq(Message)]
  BY <1>1, <1>4, <1>8, <1>9, <1>10
<1>12. Typed'
  <2>1. OutboxTypeOK'
    BY <1>3, <1>6, <1>11 DEF Typed, OutboxTypeOK
  <2> QED
    BY <1>3, <1>4, <1>5, <1>6, <2>1 DEF Typed, Busy, Finishing
<1>13. Hands'
  <2>1. \A v \in Worker : Busy(v)' => Busy(v) /\ cur'[v] = cur[v]
    BY <1>3, <1>5, <1>6 DEF Busy
  <2>2. \A v \in Worker : stage'[v] \in {"start", "send"} => stage[v] \in {"start", "send"}
    BY <1>3, <1>5, <1>6
  <2> QED
    BY <1>3, <2>1, <2>2, HandsOnward
<1>14. Unstarted'
  BY <1>3, <1>5, <1>6 DEF Unstarted, Started
<1>15. OneSender'
  BY <1>5, <1>6 DEF OneSender
<1>16. Sending'
  <2> SUFFICES ASSUME NEW v \in Worker, stage'[v] = "send"
               PROVE  /\ Limited(sent'[cur'[v].key])
                      /\ \/ /\ note[cur'[v].key].status = "started"
                            /\ note[cur'[v].key].token = cur'[v].token
                         \/ note[cur'[v].key].status = "uncertain"
    BY <1>3 DEF Sending
  <2>1. v # w /\ stage[v] = "send" /\ cur'[v] = cur[v]
    BY <1>5, <1>6
  <2>2. cur[v].key # k /\ cur[v].key \in Key
    BY <1>3, <2>1 DEF OneSender, Typed, Busy, Lease
  <2> QED
    BY <1>9, <2>1, <2>2, SMTT(30) DEF Sending
<1>17. NeverResent'
  BY <1>9, <1>10 DEF NeverResent
<1>18. note[k].status = "uncertain" \/ (note[k].status = "started" /\ note[k].token = cur[w].token)
  BY <1>3 DEF Sending
<1>19. Truthful'
  <2>1. \A j \in Key : Truth(j, sent'[j], note[j].status)
    BY <1>9, <1>18 DEF Truthful, Truth
  <2>2. ASSUME NEW v \in Worker, Finishing(v)', Current(cur[v])'
        PROVE  Truth(cur'[v].key, sent'[cur'[v].key], outcome'[v])
    <3>1. CASE v = w
      <4>1. cur'[v].key = k /\ outcome'[v] = s.outcome
        BY <1>6, <3>1
      <4>2. sent'[k] # << >> /\ sent'[k][Len(sent'[k])].result = result
            /\ (result = "limited" => Limited(sent'[k]))
        BY <1>7, <1>10
      <4>3. s.outcome \notin {"absent", "queued", "leased"}
        BY <1>5 DEF Outcome, Final
      <4>4. Truth(k, sent'[k], s.outcome)
        BY <1>5, <4>2, <4>3 DEF Truth
      <4> QED
        BY <4>1, <4>4
    <3>2. CASE v # w
      <4>1. Finishing(v) /\ Current(cur[v]) /\ cur[v].key \in Key /\ Busy(v)
        BY <1>3, <1>6, <2>2, <3>2 DEF Finishing, Current, Typed, Busy, Lease
      <4>2. cur[v].key # k
        BY <1>3, <1>18, <3>2, <4>1 DEF Current, Hands, Busy
      <4> QED
        BY <1>6, <1>9, <3>2, <4>1, <4>2 DEF Truthful
    <3> QED
      BY <3>1, <3>2
  <2>3. ASSUME NEW c \in late, c.target # "started", Current(c.lease)
        PROVE  Truth(c.lease.key, sent'[c.lease.key], c.target)
    <3>1. c.lease.key \in Key
      BY DEF Typed, OutboxTypeOK, Call, Lease
    <3>2. c.lease.key # k
      BY <1>3, <1>18, <2>3 DEF Current, Hands
    <3> QED
      BY <1>9, <2>3, <3>1, <3>2 DEF Truthful
  <2> QED
    BY <1>3, <2>1, <2>2, <2>3 DEF Truthful, Current
<1> QED
  BY <1>12, <1>13, <1>14, <1>15, <1>16, <1>17, <1>19

-----------------------------------------------------------------------------
(* Calls that the store executes.                                          *)

\* The row after the store executed a start or finish call, accepted or not.
LEMMA ExecuteRow ==
  ASSUME OutboxInv, NEW c \in Call, Accepts(c), Execute(c),
         c.target # "started" /\ Current(c.lease) => Truth(c.lease.key, sent[c.lease.key], c.target)
  PROVE  /\ note' \in [Key -> Row] /\ c.lease.key \in Key
         /\ \A j \in Key : j # c.lease.key => note'[j] = note[j]
         /\ note[c.lease.key].token = c.lease.token
         /\ c.target = "started" => /\ note[c.lease.key].status \in {"leased", "started"}
                                    /\ note'[c.lease.key].status = "started"
                                    /\ note'[c.lease.key].token = c.lease.token
                                    /\ note'[c.lease.key].lease = note[c.lease.key].lease
         /\ c.target # "started" => /\ note[c.lease.key].status = "started"
                                    /\ note'[c.lease.key].status \notin {"started", "leased"}
         /\ \A j \in Key : Truth(j, sent[j], note'[j].status)
<1> DEFINE k == c.lease.key
<1>1. k \in Key /\ c.target \in {"started"} \cup Outcome
  BY DEF Call, Lease
<1>2. note \in [Key -> Row] /\ note[k] \in Row
  BY <1>1 DEF OutboxInv, Typed, OutboxTypeOK
<1>3. note' = [note EXCEPT ![k] = Transition(note[k], c.target)]
  BY DEF Execute
<1>4. note'[k] = Transition(note[k], c.target) /\ \A j \in Key : j # k => note'[j] = note[j]
  BY <1>1, <1>2, <1>3
<1>5. note' \in [Key -> Row]
  BY <1>1, <1>2, <1>3, TransitionRow
<1>6. note[k].token = c.lease.token
  BY DEF Accepts
<1>7. c.target = "started" => note[k].status \in {"leased", "started"}
  BY DEF Accepts
<1>8. c.target # "started" => Current(c.lease)
  BY DEF Accepts, Current
<1>9. /\ c.target = "started" => /\ note'[k].status = "started" /\ note'[k].token = note[k].token
                                 /\ note'[k].lease = note[k].lease
      /\ c.target = "retry" => note'[k].status = "queued"
      /\ c.target \in Final => note'[k].status = c.target
  BY <1>1, <1>2, <1>4, TransitionRow
<1>10. c.target # "started" => note'[k].status \notin {"started", "leased"}
  BY <1>1, <1>9 DEF Outcome, Final
<1>11. Truth(k, sent[k], note'[k].status)
  <2>1. CASE c.target = "started"
    BY <1>9, <2>1 DEF Truth
  <2>2. CASE c.target = "retry"
    BY <1>8, <1>9, <2>2 DEF Truth
  <2>3. CASE c.target \in Final
    <3>1. c.target # "started"
      BY <2>3 DEF Final
    <3> QED
      BY <1>8, <1>9, <2>3, <3>1
  <2> QED
    BY <1>1, <2>1, <2>2, <2>3 DEF Outcome
<1>12. \A j \in Key : Truth(j, sent[j], note'[j].status)
  BY <1>4, <1>11 DEF OutboxInv, Truthful
<1>13. c.target # "started" => note[k].status = "started"
  BY <1>8 DEF Current
<1> QED
  BY <1>1, <1>4, <1>5, <1>6, <1>7, <1>9, <1>10, <1>12, <1>13

\* A start is accepted: the row was waiting for it, and nothing but rate limits was sent.
LEMMA StartAnswered ==
  ASSUME OutboxInv, NEW w \in Worker, stage[w] = "start", Accepts(Pending(w)), Execute(Pending(w)),
         Move(w, "send", None), UNCHANGED <<installed, held, late, sent>>
  PROVE  OutboxInv'
<1> USE DEF OutboxInv
<1> DEFINE k == cur[w].key
<1>1. /\ Pending(w) \in Call /\ Pending(w).lease = cur[w] /\ Pending(w).target = "started"
      /\ cur[w] \in Lease /\ Busy(w)
  BY PendingFacts DEF Calling
<1>2. /\ note' \in [Key -> Row] /\ k \in Key
      /\ \A j \in Key : j # k => note'[j] = note[j]
      /\ note[k].token = cur[w].token /\ note[k].status \in {"leased", "started"}
      /\ note'[k].status = "started" /\ note'[k].token = cur[w].token
      /\ \A j \in Key : Truth(j, sent[j], note'[j].status)
  BY <1>1, ExecuteRow
<1>3. note[k].status = "leased"
  BY <1>2 DEF Unstarted, Started
<1>4. Limited(sent[k])
  BY <1>2, <1>3 DEF Truthful, Truth
<1>5. /\ \A v \in Worker : v # w => /\ stage'[v] = stage[v] /\ cur'[v] = cur[v]
                                    /\ outcome'[v] = outcome[v]
      /\ stage'[w] = "send" /\ cur'[w] = cur[w]
      /\ stage' \in [Worker -> {"idle", "start", "send", "finish", "settle"}]
      /\ outcome' \in [Worker -> Outcome \cup {None}]
      /\ cur' \in [Worker -> Lease \cup {None}]
  BY MoveFacts
<1>6. Typed'
  <2>1. OutboxTypeOK'
    BY <1>2, <1>5 DEF Typed, OutboxTypeOK
  <2> QED
    BY <1>1, <1>5, <2>1 DEF Typed, Busy, Finishing
<1>7. Hands'
  <2>1. \A v \in Worker : Busy(v)' => Busy(v) /\ cur'[v] = cur[v]
    BY <1>1, <1>5 DEF Busy
  <2>2. \A v \in Worker : stage'[v] \in {"start", "send"} => stage[v] \in {"start", "send"}
    BY <1>1, <1>5
  <2> QED
    BY <2>1, <2>2, HandsOnward
<1>8. Unstarted'
  <2> SUFFICES ASSUME NEW v \in Worker
               PROVE  /\ \A l \in held[v] : ~Started(l)'
                      /\ stage'[v] = "start" => ~Started(cur[v])'
    BY DEF Unstarted
  <2>1. ASSUME NEW l \in held[v] PROVE ~Started(l)'
    <3>1. l \in Lease /\ l.token # cur[w].token /\ ~Started(l)
      BY <1>1 DEF Typed, OutboxTypeOK, Hands, Unstarted
    <3> QED
      BY <1>2, <3>1 DEF Started, Lease
  <2>2. ASSUME stage'[v] = "start" PROVE ~Started(cur[v])'
    <3>1. v # w /\ stage[v] = "start" /\ cur'[v] = cur[v] /\ cur[v] \in Lease
      BY <1>5, <2>2 DEF Typed, Busy
    <3>2. cur[v].token # cur[w].token /\ ~Started(cur[v])
      BY <1>1, <3>1 DEF Hands, Unstarted, Busy
    <3> QED
      BY <1>2, <3>1, <3>2 DEF Started, Lease
  <2> QED
    BY <2>1, <2>2
<1>9. \A v \in Worker : stage[v] = "send" => cur[v].key # k /\ cur[v].key \in Key
  BY <1>3 DEF Sending, Typed, Busy, Lease
<1>10. Sending' /\ OneSender' /\ NeverResent'
  BY <1>2, <1>4, <1>5, <1>9 DEF Sending, OneSender, NeverResent
<1>11. Truthful'
  <2>1. ASSUME NEW v \in Worker, Finishing(v)', Current(cur[v])'
        PROVE  Truth(cur'[v].key, sent[cur'[v].key], outcome'[v])
    <3>1. v # w /\ Finishing(v) /\ cur'[v] = cur[v] /\ outcome'[v] = outcome[v]
          /\ Busy(v) /\ cur[v] \in Lease
      BY <1>5, <2>1 DEF Finishing, Typed, Busy
    <3>2. cur[v].token # cur[w].token
      BY <1>1, <3>1 DEF Hands
    <3>3. Current(cur[v])
      BY <1>2, <2>1, <3>1, <3>2 DEF Current, Lease
    <3> QED
      BY <3>1, <3>3 DEF Truthful
  <2>2. ASSUME NEW c \in late, c.target # "started", Current(c.lease)'
        PROVE  Truth(c.lease.key, sent[c.lease.key], c.target)
    <3>1. c.lease \in Lease /\ c.lease.token # cur[w].token
      BY DEF Typed, OutboxTypeOK, Call, Hands
    <3>2. Current(c.lease)
      BY <1>2, <2>2, <3>1 DEF Current, Lease
    <3> QED
      BY <2>2, <3>2 DEF Truthful
  <2> QED
    BY <1>2, <2>1, <2>2 DEF Truthful
<1> QED
  BY <1>6, <1>7, <1>8, <1>10, <1>11

\* A result is accepted: the row is settled or queued again, and the executor is done.
LEMMA ResultAnswered ==
  ASSUME OutboxInv, NEW w \in Worker, Finishing(w), Accepts(Pending(w)), Execute(Pending(w)),
         Move(w, "idle", None), UNCHANGED <<installed, held, late, sent>>
  PROVE  OutboxInv'
<1> USE DEF OutboxInv
<1> DEFINE k == cur[w].key
<1>1. /\ Pending(w) \in Call /\ Pending(w).lease = cur[w] /\ Pending(w).target # "started"
      /\ Current(cur[w]) => Truth(k, sent[k], Pending(w).target)
      /\ cur[w] \in Lease /\ Busy(w) /\ stage[w] # "send"
  BY PendingFacts DEF Calling, Finishing
<1>2. /\ note' \in [Key -> Row] /\ k \in Key
      /\ \A j \in Key : j # k => note'[j] = note[j]
      /\ note[k].token = cur[w].token /\ note[k].status = "started"
      /\ note'[k].status \notin {"started", "leased"}
      /\ \A j \in Key : Truth(j, sent[j], note'[j].status)
  BY <1>1, ExecuteRow
<1>3. /\ \A v \in Worker : v # w => /\ stage'[v] = stage[v] /\ cur'[v] = cur[v]
                                    /\ outcome'[v] = outcome[v]
      /\ stage'[w] = "idle"
      /\ stage' \in [Worker -> {"idle", "start", "send", "finish", "settle"}]
      /\ outcome' \in [Worker -> Outcome \cup {None}]
      /\ cur' \in [Worker -> Lease \cup {None}]
  BY MoveFacts
<1>4. Typed'
  <2>1. OutboxTypeOK'
    BY <1>2, <1>3 DEF Typed, OutboxTypeOK
  <2> QED
    BY <1>3, <2>1 DEF Typed, Busy, Finishing
<1>5. Hands'
  <2>1. \A v \in Worker : Busy(v)' => Busy(v) /\ cur'[v] = cur[v]
    BY <1>3 DEF Busy
  <2>2. \A v \in Worker : stage'[v] \in {"start", "send"} => stage[v] \in {"start", "send"}
    BY <1>3
  <2> QED
    BY <2>1, <2>2, HandsOnward
<1>6. \A l \in Lease : (Started(l)' => Started(l)) /\ (Current(l)' => Current(l))
  BY <1>2 DEF Started, Current, Lease
<1>7. Unstarted'
  <2> SUFFICES ASSUME NEW v \in Worker
               PROVE  /\ \A l \in held[v] : ~Started(l)'
                      /\ stage'[v] = "start" => ~Started(cur[v])'
    BY DEF Unstarted
  <2>1. \A l \in held[v] : ~Started(l)'
    BY <1>6 DEF Typed, OutboxTypeOK, Unstarted
  <2>2. stage'[v] = "start" => cur'[v] = cur[v] /\ cur[v] \in Lease /\ ~Started(cur[v])
    BY <1>3 DEF Typed, Busy, Unstarted
  <2>3. stage'[v] = "start" => ~Started(cur[v])'
    BY <1>2, <2>2 DEF Started, Lease
  <2> QED
    BY <2>1, <2>3
<1>8. \A v \in Worker : stage[v] = "send" => cur[v].key # k /\ cur[v].key \in Key
  BY <1>1, <1>2 DEF Sending, Typed, Busy, Lease, Hands
<1>9. Sending' /\ OneSender' /\ NeverResent'
  BY <1>2, <1>3, <1>8 DEF Sending, OneSender, NeverResent
<1>10. Truthful'
  <2>1. ASSUME NEW v \in Worker, Finishing(v)', Current(cur[v])'
        PROVE  Truth(cur'[v].key, sent[cur'[v].key], outcome'[v])
    <3>1. v # w /\ Finishing(v) /\ cur'[v] = cur[v] /\ outcome'[v] = outcome[v]
          /\ cur[v] \in Lease
      BY <1>3, <2>1 DEF Finishing, Typed, Busy
    <3>2. Current(cur[v])
      BY <1>2, <2>1, <3>1 DEF Current, Lease
    <3> QED
      BY <3>1, <3>2 DEF Truthful
  <2>2. ASSUME NEW c \in late, c.target # "started", Current(c.lease)'
        PROVE  Truth(c.lease.key, sent[c.lease.key], c.target)
    <3>1. c.lease \in Lease
      BY DEF Typed, OutboxTypeOK, Call
    <3> QED
      BY <1>6, <2>2, <3>1 DEF Truthful
  <2> QED
    BY <1>2, <2>1, <2>2 DEF Truthful
<1> QED
  BY <1>4, <1>5, <1>7, <1>9, <1>10

\* A refused result of a shared row is refused because the lease is over, so recording
\* it as failed can no longer be accepted either.
LEMMA ResultRefused ==
  ASSUME OutboxInv, NEW w \in Worker, stage[w] = "finish", ~Accepts(Pending(w)),
         Move(w, "settle", "failed"), UNCHANGED <<note, installed, held, late, sent>>
  PROVE  OutboxInv'
<1> USE DEF OutboxInv
<1>1. /\ Pending(w).lease = cur[w] /\ Pending(w).target # "started" /\ cur[w] \in Lease
  BY PendingFacts DEF Calling, Finishing
<1>2. /\ \A v \in Worker : v # w => /\ stage'[v] = stage[v] /\ cur'[v] = cur[v]
                                    /\ outcome'[v] = outcome[v]
      /\ stage'[w] = "settle" /\ cur'[w] = cur[w] /\ outcome'[w] = "failed"
      /\ stage' \in [Worker -> {"idle", "start", "send", "finish", "settle"}]
      /\ outcome' \in [Worker -> Outcome \cup {None}]
      /\ cur' \in [Worker -> Lease \cup {None}]
  BY MoveFacts DEF Outcome, Final
<1>3. Typed'
  <2>1. OutboxTypeOK'
    BY <1>2 DEF Typed, OutboxTypeOK
  <2> QED
    BY <1>1, <1>2, <2>1 DEF Typed, Busy, Finishing, Outcome, Final
<1>4. Hands'
  <2>1. \A v \in Worker : Busy(v)' => Busy(v) /\ cur'[v] = cur[v]
    BY <1>2 DEF Busy
  <2>2. \A v \in Worker : stage'[v] \in {"start", "send"} => stage[v] \in {"start", "send"}
    BY <1>2
  <2> QED
    BY <2>1, <2>2, HandsOnward
<1>5. Unstarted' /\ Sending' /\ OneSender' /\ NeverResent'
  BY <1>2 DEF Unstarted, Started, Sending, OneSender, NeverResent
<1>6. Current(cur[w]) => cur[w].key \notin Shared
  BY <1>1 DEF Accepts, Current, Shared
<1>7. Current(cur[w]) => Truth(cur[w].key, sent[cur[w].key], "failed")
  BY <1>6 DEF Truth
<1>8. Truthful'
  BY <1>2, <1>7 DEF Truthful, Finishing, Current
<1> QED
  BY <1>3, <1>4, <1>5, <1>8

\* The store executes a call and its answer arrives.
LEMMA AnsweredStep ==
  ASSUME OutboxInv, NEW w \in Worker, Answered(w)
  PROVE  OutboxInv'
<1>1. Calling(w) /\ UNCHANGED <<installed, held, late, sent>>
  BY DEF Answered
<1>2. CASE /\ Accepts(Pending(w)) /\ Execute(Pending(w))
           /\ Move(w, IF stage[w] = "start" THEN "send" ELSE "idle", None)
  <2>1. CASE stage[w] = "start"
    BY <1>1, <1>2, <2>1, StartAnswered
  <2>2. CASE stage[w] # "start"
    <3>1. Finishing(w)
      BY <1>1, <2>2 DEF Calling, Finishing
    <3> QED
      BY <1>1, <1>2, <2>2, <3>1, ResultAnswered
  <2> QED
    BY <2>1, <2>2
<1>3. CASE /\ ~Accepts(Pending(w)) /\ UNCHANGED note
           /\ Move(w, IF stage[w] = "finish" THEN "settle" ELSE "idle", "failed")
  <2>1. CASE stage[w] = "finish"
    BY <1>1, <1>3, <2>1, ResultRefused
  <2>2. CASE stage[w] # "finish"
    <3>1. Move(w, "idle", None)
      BY <1>3, <2>2 DEF Move
    <3>2. held' \in [Worker -> SUBSET Lease] /\ \A v \in Worker : held'[v] \subseteq held[v]
      BY <1>1 DEF OutboxInv, Typed, OutboxTypeOK
    <3>3. late' = late \cup {} /\ {} \in SUBSET {Pending(w)}
      BY <1>1
    <3>4. UNCHANGED <<note, installed, sent>>
      BY <1>1, <1>3
    <3> QED
      BY <3>1, <3>2, <3>3, <3>4, AbandonStep
  <2> QED
    BY <2>1, <2>2
<1> QED
  BY <1>2, <1>3 DEF Answered

\* An abandoned start that the store executes after all leaves a row that nobody sends.
LEMMA LateStart ==
  ASSUME OutboxInv, NEW c \in late, c.target = "started", Accepts(c), Execute(c),
         late' = late \ {c}, UNCHANGED <<installed, held, stage, cur, outcome, sent>>
  PROVE  OutboxInv'
<1> USE DEF OutboxInv
<1> DEFINE k == c.lease.key
<1>1. c \in Call
  BY DEF Typed, OutboxTypeOK
<1>2. /\ note' \in [Key -> Row] /\ k \in Key
      /\ \A j \in Key : j # k => note'[j] = note[j]
      /\ note[k].token = c.lease.token /\ note[k].status \in {"leased", "started"}
      /\ note'[k].status = "started" /\ note'[k].token = c.lease.token
      /\ \A j \in Key : Truth(j, sent[j], note'[j].status)
  BY <1>1, ExecuteRow
<1>3. Typed'
  BY <1>2, TypedStep DEF Typed, OutboxTypeOK
<1>4. Hands'
  BY HandsFewer
<1>5. Unstarted'
  <2> SUFFICES ASSUME NEW v \in Worker
               PROVE  /\ \A l \in held[v] : ~Started(l)'
                      /\ stage[v] = "start" => ~Started(cur[v])'
    BY DEF Unstarted
  <2>1. ASSUME NEW l \in held[v] PROVE ~Started(l)'
    <3>1. l \in Lease /\ l.token # c.lease.token /\ ~Started(l)
      BY DEF Typed, OutboxTypeOK, Hands, Unstarted
    <3> QED
      BY <1>2, <3>1 DEF Started, Lease
  <2>2. ASSUME stage[v] = "start" PROVE ~Started(cur[v])'
    <3>1. cur[v] \in Lease /\ cur[v].token # c.lease.token /\ ~Started(cur[v])
      BY <2>2 DEF Typed, Busy, Hands, Unstarted
    <3> QED
      BY <1>2, <3>1 DEF Started, Lease
  <2> QED
    BY <2>1, <2>2
<1>6. Sending'
  <2> SUFFICES ASSUME NEW v \in Worker, stage[v] = "send"
               PROVE  /\ Limited(sent[cur[v].key])
                      /\ \/ /\ note'[cur[v].key].status = "started"
                            /\ note'[cur[v].key].token = cur[v].token
                         \/ note'[cur[v].key].status = "uncertain"
    BY DEF Sending
  <2>1. cur[v].key \in Key
    BY DEF Typed, Busy, Lease
  <2> QED
    BY <1>2, <2>1 DEF Sending
<1>7. OneSender' /\ NeverResent'
  BY DEF OneSender, NeverResent
<1>8. Truthful'
  <2>1. ASSUME NEW v \in Worker, Finishing(v)', Current(cur[v])'
        PROVE  Truth(cur[v].key, sent[cur[v].key], outcome[v])
    <3>1. Finishing(v) /\ Busy(v) /\ cur[v] \in Lease /\ cur[v].token # c.lease.token
      BY <2>1 DEF Finishing, Typed, Busy, Hands
    <3>2. Current(cur[v])
      BY <1>2, <2>1, <3>1 DEF Current, Lease
    <3> QED
      BY <3>1, <3>2 DEF Truthful
  <2>2. ASSUME NEW d \in late', d.target # "started", Current(d.lease)'
        PROVE  Truth(d.lease.key, sent[d.lease.key], d.target)
    <3>1. d \in late /\ d.lease \in Lease /\ d.lease.token # c.lease.token
      BY <2>2 DEF Typed, OutboxTypeOK, Call, Hands
    <3>2. Current(d.lease)
      BY <1>2, <2>2, <3>1 DEF Current, Lease
    <3> QED
      BY <2>2, <3>1, <3>2 DEF Truthful
  <2> QED
    BY <1>2, <2>1, <2>2 DEF Truthful
<1> QED
  BY <1>3, <1>4, <1>5, <1>6, <1>7, <1>8

\* An abandoned result that the store executes after all.
LEMMA LateResult ==
  ASSUME OutboxInv, NEW c \in late, c.target # "started", Accepts(c), Execute(c),
         late' = late \ {c}, UNCHANGED <<installed, held, stage, cur, outcome, sent>>
  PROVE  OutboxInv'
<1> USE DEF OutboxInv
<1> DEFINE k == c.lease.key
<1>1. c \in Call /\ (Current(c.lease) => Truth(k, sent[k], c.target))
  BY DEF Typed, OutboxTypeOK, Truthful
<1>2. /\ note' \in [Key -> Row] /\ k \in Key
      /\ \A j \in Key : j # k => note'[j] = note[j]
      /\ note[k].token = c.lease.token /\ note[k].status = "started"
      /\ note'[k].status \notin {"started", "leased"}
      /\ \A j \in Key : Truth(j, sent[j], note'[j].status)
  BY <1>1, ExecuteRow
<1>3. Typed'
  BY <1>2, TypedStep DEF Typed, OutboxTypeOK
<1>4. Hands'
  BY HandsFewer
<1>5. \A l \in Lease : (Started(l)' => Started(l)) /\ (Current(l)' => Current(l))
  BY <1>2 DEF Started, Current, Lease
<1>6. Unstarted'
  <2> SUFFICES ASSUME NEW v \in Worker
               PROVE  /\ \A l \in held[v] : ~Started(l)'
                      /\ stage[v] = "start" => ~Started(cur[v])'
    BY DEF Unstarted
  <2>1. \A l \in held[v] : ~Started(l)'
    BY <1>5 DEF Typed, OutboxTypeOK, Unstarted
  <2>2. stage[v] = "start" => cur[v] \in Lease /\ ~Started(cur[v])
    BY DEF Typed, Busy, Unstarted
  <2>3. stage[v] = "start" => ~Started(cur[v])'
    BY <1>2, <2>2 DEF Started, Lease
  <2> QED
    BY <2>1, <2>3
<1>7. Sending'
  <2> SUFFICES ASSUME NEW v \in Worker, stage[v] = "send"
               PROVE  /\ Limited(sent[cur[v].key])
                      /\ \/ /\ note'[cur[v].key].status = "started"
                            /\ note'[cur[v].key].token = cur[v].token
                         \/ note'[cur[v].key].status = "uncertain"
    BY DEF Sending
  <2>1. cur[v].key \in Key /\ cur[v].token # c.lease.token
    BY DEF Typed, Busy, Lease, Hands
  <2>2. cur[v].key # k
    BY <1>2, <2>1 DEF Sending
  <2> QED
    BY <1>2, <2>1, <2>2 DEF Sending
<1>8. OneSender' /\ NeverResent'
  BY DEF OneSender, NeverResent
<1>9. Truthful'
  <2>1. ASSUME NEW v \in Worker, Finishing(v)', Current(cur[v])'
        PROVE  Truth(cur[v].key, sent[cur[v].key], outcome[v])
    <3>1. Finishing(v) /\ cur[v] \in Lease
      BY <2>1 DEF Finishing, Typed, Busy
    <3>2. Current(cur[v])
      BY <1>2, <2>1, <3>1 DEF Current, Lease
    <3> QED
      BY <3>1, <3>2 DEF Truthful
  <2>2. ASSUME NEW d \in late', d.target # "started", Current(d.lease)'
        PROVE  Truth(d.lease.key, sent[d.lease.key], d.target)
    <3>1. d \in late /\ d.lease \in Lease
      BY <2>2 DEF Typed, OutboxTypeOK, Call
    <3> QED
      BY <1>5, <2>2, <3>1 DEF Truthful
  <2> QED
    BY <1>2, <2>1, <2>2 DEF Truthful
<1> QED
  BY <1>3, <1>4, <1>6, <1>7, <1>8, <1>9

\* The store executes a call that was given up.
LEMMA LateCallStep ==
  ASSUME OutboxInv, NEW c \in late, LateCall(c)
  PROVE  OutboxInv'
<1>1. late' = late \ {c} /\ UNCHANGED <<installed, held, stage, cur, outcome, sent>>
  BY DEF LateCall
<1>2. CASE Accepts(c) /\ Execute(c)
  BY <1>1, <1>2, LateStart, LateResult
<1>3. CASE UNCHANGED note
  <2>1. \A j \in Key : QuietRow(j)
    BY <1>1, <1>3 DEF QuietRow, OutboxInv, Truthful
  <2>2. Typed'
    BY <1>1, <1>3, TypedStep DEF OutboxInv, Typed, OutboxTypeOK
  <2>3. Hands' /\ Unstarted'
    BY <1>1, <2>1, HandsFewer, UnstartedStep DEF OutboxInv
  <2> QED
    BY <1>1, <2>1, <2>2, <2>3, QuietStep DEF OutboxInv
<1> QED
  BY <1>2, <1>3 DEF LateCall

-----------------------------------------------------------------------------
(* The specification.                                                      *)

\* The invariant holds at the start.
LEMMA InitOutbox == Init => OutboxInv
<1> SUFFICES ASSUME Init PROVE OutboxInv
  OBVIOUS
<1> USE DEF Init
<1>1. OutboxTypeOK
  <2>1. note \in [Key -> Row]
    BY DEF Row, Status
  <2>2. sent \in [Key -> Seq(Message)]
    OBVIOUS
  <2> QED
    BY <2>1, <2>2 DEF OutboxTypeOK
<1>2. Typed /\ Hands /\ Unstarted
  BY <1>1 DEF Typed, Busy, Finishing, Hands, Unstarted
<1>3. Sending /\ OneSender /\ NeverResent
  BY DEF Sending, OneSender, NeverResent
<1>4. \A k \in Key : Truth(k, sent[k], note[k].status)
  BY DEF Truth, Limited
<1>5. Truthful
  BY <1>4 DEF Truthful, Finishing
<1> QED
  BY <1>2, <1>3, <1>5 DEF OutboxInv

\* Every step preserves the invariant, one case per action.
LEMMA NextOutbox == OutboxInv /\ [Next]_vars => OutboxInv'
<1> SUFFICES ASSUME OutboxInv, [Next]_vars PROVE OutboxInv'
  OBVIOUS
<1>1. CASE \E k \in Key : create_notification(k) \/ Due(k) \/ Lapse(k)
  BY <1>1, CreateStep, ClockStep
<1>2. ASSUME NEW w \in Worker,
             \E kind \in {"channel", "notice"} : claim_notifications(w, kind)
      PROVE  OutboxInv'
  BY <1>2, SharedClaimStep
<1>3. ASSUME NEW w \in Worker,
             \/ claim_private_notifications(w) \/ Begin(w) \/ Answered(w) \/ GiveUp(w)
             \/ PrecheckFails(w) \/ Send(w) \/ Crash(w)
      PROVE  OutboxInv'
  BY <1>3, PrivateClaimStep, BeginStep, AnsweredStep, GiveUpStep, PrecheckStep, SendStep, CrashStep
<1>4. CASE \E c \in late : LateCall(c)
  BY <1>4, LateCallStep
<1>5. CASE InstallationChanges
  BY <1>5, InstallationStep
<1>6. CASE UNCHANGED vars
  BY <1>6 DEF vars, OutboxInv, Typed, OutboxTypeOK, Hands, Unstarted, Started, Sending, OneSender,
              NeverResent, Truthful, Current, Busy, Finishing
<1> QED
  BY <1>1, <1>2, <1>3, <1>4, <1>5, <1>6 DEF Next

\* The inductive invariant holds in every state of the outbox.
THEOREM OutboxInvariant == Spec => []OutboxInv
  BY InitOutbox, NextOutbox, PTL DEF Spec

\* Rows, leases, calls and messages keep their types through claims, transitions,
\* crashes and late calls.
THEOREM OutboxTypes == Spec => []OutboxTypeOK
<1>1. OutboxInv => OutboxTypeOK
  BY DEF OutboxInv, Typed
<1> QED
  BY <1>1, OutboxInvariant, PTL

\* Whatever crashes, lapses or is lost, only a known rate limit is sent again
\* (claim_notifications, _notification_transition).
THEOREM OutboxNeverResent == Spec => []NeverResent
<1>1. OutboxInv => NeverResent
  BY DEF OutboxInv
<1> QED
  BY <1>1, OutboxInvariant, PTL

\* No two executors are about to send the same notification (the token check of
\* _notification_transition).
THEOREM OutboxOneSender == Spec => []OneSender
<1>1. OutboxInv => OneSender
  BY DEF OutboxInv
<1> QED
  BY <1>1, OutboxInvariant, PTL

\* What a row says about its delivery agrees with what was sent.
THEOREM OutboxStatusIsTrue == Spec => []StatusIsTrue
<1>1. OutboxInv => StatusIsTrue
  <2> SUFFICES ASSUME OutboxInv, NEW k \in Key
               PROVE  /\ note[k].status = "delivered" => sent[k] # << >> /\ Last(k).result = "accepted"
                      /\ (note[k].status = "failed" /\ k \in Shared) =>
                           NothingSent(k) \/ Last(k).result = "rejected"
                      /\ note[k].status \in {"queued", "leased"} => NothingSent(k)
    BY DEF StatusIsTrue
  <2>1. Truth(k, sent[k], note[k].status) /\ sent[k] \in Seq(Message)
    BY DEF OutboxInv, Truthful, Typed, OutboxTypeOK
  <2>2. Limited(sent[k]) => NothingSent(k)
    BY <2>1, LimitedLast DEF NothingSent, Last
  <2> QED
    BY <2>1, <2>2 DEF Truth, NothingSent, Last
<1> QED
  BY <1>1, OutboxInvariant, PTL

\* A transition is accepted from a leased or a started row only.
LEMMA ExecuteKeepsFinal ==
  ASSUME Typed, NEW c \in Call, Accepts(c), Execute(c), NEW k \in Key, note[k].status \in Final
  PROVE  note'[k].status = note[k].status
<1>1. note[c.lease.key].status \in {"leased", "started"}
  BY DEF Accepts
<1>2. k # c.lease.key
  BY <1>1 DEF Final
<1> QED
  BY <1>2 DEF Execute, Typed, OutboxTypeOK

\* Delivered, failed and uncertain rows never change again, not even by a late call.
THEOREM OutboxFinalIsFinal == Spec => FinalIsFinal
<1>1. OutboxInv /\ [Next]_vars =>
        [\A k \in Key : note[k].status \in Final => note'[k].status = note[k].status]_vars
  <2> SUFFICES ASSUME OutboxInv, Next, NEW k \in Key, note[k].status \in Final
               PROVE  note'[k].status = note[k].status
    OBVIOUS
  <2>0. note \in [Key -> Row] /\ note[k] \in Row /\ Typed
    BY DEF OutboxInv, Typed, OutboxTypeOK
  <2>1. ASSUME NEW j \in Key, create_notification(j) \/ Due(j) \/ Lapse(j)
        PROVE  note'[k].status = note[k].status
    BY <2>0, <2>1 DEF create_notification, Due, Lapse, Final
  <2>2. Swept(note[k]) = note[k] /\ note[k].status # "queued"
    BY DEF Swept, Final
  <2>3. ASSUME NEW w \in Worker, NEW kind \in {"channel", "notice"}, claim_notifications(w, kind)
        PROVE  note'[k].status = note[k].status
    BY <2>2, <2>3 DEF claim_notifications
  <2>4. ASSUME NEW w \in Worker, claim_private_notifications(w)
        PROVE  note'[k].status = note[k].status
    BY <2>2, <2>4 DEF claim_private_notifications
  <2>5. ASSUME NEW w \in Worker, Answered(w)
        PROVE  note'[k].status = note[k].status
    <3>1. Pending(w) \in Call
      BY <2>5, PendingFacts DEF Answered
    <3> QED
      BY <2>0, <2>5, <3>1, ExecuteKeepsFinal DEF Answered
  <2>6. ASSUME NEW w \in Worker, Begin(w) \/ GiveUp(w) \/ PrecheckFails(w) \/ Send(w) \/ Crash(w)
        PROVE  note'[k].status = note[k].status
    BY <2>6 DEF Begin, GiveUp, PrecheckFails, Send, Crash
  <2>7. ASSUME NEW c \in late, LateCall(c)
        PROVE  note'[k].status = note[k].status
    <3>1. c \in Call
      BY <2>0 DEF Typed, OutboxTypeOK
    <3> QED
      BY <2>0, <2>7, <3>1, ExecuteKeepsFinal DEF LateCall
  <2>8. ASSUME InstallationChanges PROVE note'[k].status = note[k].status
    BY <2>8 DEF InstallationChanges
  <2> QED
    BY <2>1, <2>3, <2>4, <2>5, <2>6, <2>7, <2>8 DEF Next
<1> QED
  BY <1>1, OutboxInvariant, PTL DEF Spec, FinalIsFinal
=============================================================================
