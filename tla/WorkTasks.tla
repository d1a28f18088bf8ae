------------------------------ MODULE WorkTasks ------------------------------
(***************************************************************************)
(* Durable Work tasks: src/cyrene_navigator/work/store.py (class WorkStore) *)
(* from task admission to the result notification, as reached through the   *)
(* routes of work/api.py.                                                   *)
(*                                                                         *)
(* WorkStore._mutation wraps every operation in BEGIN IMMEDIATE ... COMMIT,  *)
(* so one operation is one action; a rejected request or an exact replay     *)
(* commits nothing and is a stuttering step.                                *)
(*                                                                         *)
(* Abstractions: one organization and Workspace; actor ids are canonical     *)
(* (lower case); a digest is the digested value; of the metadata only the    *)
(* notification route and the conversation marker are kept; the rows older   *)
(* releases wrote (digests without an actor, Teams events without a verified *)
(* origin) are left out; message ids of clients differ from the reserved     *)
(* "task-result-delivery-hold" ids; one native backend.                     *)
(***************************************************************************)
EXTENDS Naturals, FiniteSets, Sequences

CONSTANTS
  Principal,       \* bearer principals with write access to the Workspace
  Actor,
  ActorOf,         \* [Principal -> Actor]
  PrivateScope,    \* principals with actor_private_scope
  HarnessWriters,  \* principals with can_write_harness
  NativeOwners,    \* principals with can_takeover (require_native_session_owner)
  PolicyOwners,    \* owner_subjects of the configured private conversation policy
  Root,            \* task ids chosen by clients
  IdemKey,         \* Idempotency-Key values of continuations
  Session,
  MessageId,
  Connector,
  TeamsV1,         \* _TEAMS_CONNECTOR_ID
  ApprovalId, InputId, Native,
  Metas,           \* the metadata clients send, a subset of Meta
  None,            \* SQL NULL
  MaxLog           \* bound on a task's event log

\* create_task_continuation derives the child's id from source, actor and key.
Child == Root \X Actor \X IdemKey
Task  == Root \cup Child

Route == {"teams", "wecom"}       \* metadata.notification.type
Meta  == [route : Route \cup {None}, chat : BOOLEAN]

Terminal == {"completed", "failed", "aborted"}   \* _TERMINAL_TASK_STATES
Status   == {"queued", "running", "waiting_approval", "waiting_input",
             "awaiting_user_authorization"} \cup Terminal
Decision == {"approved", "rejected"}

ASSUME WorkAssumption ==
  /\ ActorOf \in [Principal -> Actor]
  /\ PrivateScope \subseteq Principal
  /\ HarnessWriters \subseteq Principal
  /\ NativeOwners \subseteq Principal
  /\ PolicyOwners \subseteq Actor
  /\ TeamsV1 \in Connector
  /\ Metas \subseteq Meta
  /\ None \notin Actor \cup Session \cup MessageId \cup Route \cup Task \cup Status
  /\ MaxLog \in Nat

VARIABLES
  task,       \* work_tasks
  owner,      \* work_task_private_owners
  origin,     \* work_task_teams_origins
  log,        \* work_task_events in the order of seq
  approvals,  \* work_approvals
  inputs,     \* work_inputs
  notes,      \* work_notifications about task results and accepted messages
  intake,     \* work_connector_events
  threads,    \* work_connector_actor_threads: session of the thread, per actor
  bound,      \* work_backend_sessions and work_backend_actor_sessions
  installed   \* actors with an active row in work_private_installations

vars == <<task, owner, origin, log, approvals, inputs, notes, intake, threads, bound, installed>>

NoMeta     == [route |-> None, chat |-> FALSE]
NoTask     == [status |-> "absent", session |-> None, creator |-> None, made |-> NoMeta,
               via |-> "none", meta |-> NoMeta, started |-> FALSE, ended |-> FALSE]
NoOrigin   == [actor |-> None, kind |-> "none", connector |-> None, msg |-> None]
NoApproval == [task |-> None, status |-> "absent", mid |-> None]
NoInput    == [task |-> None, status |-> "absent", mid |-> None]

TaskRow == [status : Status \cup {"absent"}, session : Session \cup {None},
            creator : Actor \cup {None}, made : Meta, via : {"none", "api", "intake", "child"},
            meta : Meta, started : BOOLEAN, ended : BOOLEAN]
OriginRow == [actor : Actor \cup {None}, kind : {"none", "channel", "private"},
              connector : Connector \cup {None}, msg : MessageId \cup {None}]
GateRow(answers) == [task : Task \cup {None}, status : {"absent", "pending"} \cup answers,
                     mid : MessageId \cup {None}]
Event   == [type : STRING, from : Status \cup {None}, to : Status \cup {None},
            mid : MessageId \cup Status \cup {None}]
Note    == [kind : {"result", "accepted"}, task : Task, status : Status \cup {None},
            owner : Actor \cup {None}, route : Route, hold : {"none", "policy", "installation"}]
\* creator (of the task the mapping was written for) is not stored by the code
Binding == [scope : Actor \cup {None}, session : Session, native : Native, creator : Actor]
Ingress == [connector : Connector, msg : MessageId, actor : Actor \cup {None},
            task : Root \cup {None}]

Init ==
  /\ task = [t \in Task |-> NoTask]
  /\ owner = [t \in Task |-> None]
  /\ origin = [t \in Task |-> NoOrigin]
  /\ log = [t \in Task |-> << >>]
  /\ approvals = [a \in ApprovalId |-> NoApproval]
  /\ inputs = [i \in InputId |-> NoInput]
  /\ notes = {} /\ intake = {}
  /\ threads = [a \in Actor |-> None]
  /\ bound = {}
  /\ installed = {}

-----------------------------------------------------------------------------
(* Guards and helpers shared by the operations.                            *)

Exists(t) == task[t].status # "absent"

\* The metadata marker or the verified origin makes a conversation task.
IsChat(t) == task[t].meta.chat \/ origin[t].kind = "private"

\* _require_task and _require_teams_task_actor
Accessible(p, t) ==
  /\ Exists(t)
  /\ owner[t] \in {None, ActorOf[p]}
  /\ IsChat(t) => p \in PrivateScope /\ task[t].creator = ActorOf[p]
  /\ p \in PrivateScope => task[t].creator = ActorOf[p]
  /\ origin[t].actor \in {None, ActorOf[p]}

\* The value _require_teams_task_actor returns.
IsTeamsTask(t) == owner[t] # None \/ origin[t].actor # None

Ev(type)         == [type |-> type, from |-> None, to |-> None, mid |-> None]
Changed(old, st) == [type |-> "task.status_changed", from |-> old, to |-> st, mid |-> None]

\* _append_event: seq is the length of the log
Appended(t, es) == [log EXCEPT ![t] = @ \o es]
Room(t, es)     == Len(log[t]) + Len(es) <= MaxLog

\* UPDATE work_tasks SET status=..., started_at=COALESCE(...), ended_at=...
Moved(t, st) ==
  [task EXCEPT ![t] = [status |-> st, session |-> task[t].session, creator |-> task[t].creator,
                       made |-> task[t].made, via |-> task[t].via, meta |-> task[t].meta,
                       started |-> task[t].started \/ st = "running",
                       ended |-> task[t].ended \/ st \in Terminal]]

WithMeta(t, md) ==
  [task EXCEPT ![t] = [status |-> task[t].status, session |-> task[t].session,
                       creator |-> task[t].creator, made |-> task[t].made, via |-> task[t].via,
                       meta |-> md, started |-> task[t].started, ended |-> task[t].ended]]

-----------------------------------------------------------------------------
(* _queue_task_result_notification                                         *)

\* Why a private result cannot be delivered yet.
HoldCode(a) == IF a \notin PolicyOwners THEN "policy"
               ELSE IF a \notin installed THEN "installation" ELSE "none"

\* verified_teams_origin_mismatch
OriginMismatch(t) ==
  \/ task[t].creator # owner[t]
  \/ origin[t].actor # owner[t]
  \/ origin[t].connector # TeamsV1

\* The events the result of t adds to its log: a held private delivery.
ResultEvents(t, st, md) ==
  IF owner[t] # None /\ \/ origin[t].actor = None /\ md.route # None
                        \/ origin[t].actor # None /\ OriginMismatch(t)
  THEN <<[type |-> "task.result_delivery_held.v1", from |-> None, to |-> None, mid |-> st]>>
  ELSE << >>

\* Mutant: the mutable metadata route also answers for a private task.
ResultNotesByMetadata(t, st, md) ==
  IF md.route = None THEN {}
  ELSE {[kind |-> "result", task |-> t, status |-> st, owner |-> None, route |-> md.route,
         hold |-> "none"]}

\* The outbox rows it enqueues: private to the verified owner, or the route the
\* (mutable) metadata names.
ResultNotes(t, st, md) ==
  IF owner[t] # None
  THEN IF origin[t].actor = None \/ OriginMismatch(t) THEN {}
       ELSE {[kind |-> "result", task |-> t, status |-> st, owner |-> owner[t],
              route |-> "teams", hold |-> HoldCode(owner[t])]}
  ELSE IF md.route = None THEN {}
       ELSE {[kind |-> "result", task |-> t, status |-> st, owner |-> None,
              route |-> md.route, hold |-> "none"]}

-----------------------------------------------------------------------------
(* Admission.                                                              *)

\* The creation digest of an existing row equals the request's; create_task also
\* accepts the digest connector intake writes, not the other way round.
SameRequest(p, t, s, md, via) ==
  /\ task[t].session = s
  /\ task[t].made = md
  /\ task[t].creator = ActorOf[p]
  /\ task[t].via \in {via, "intake"}

\* _record_private_task_owner, called under actor_private_scope
RecordOwner(p, t) ==
  \/ /\ p \in PrivateScope
     /\ owner[t] \in {None, ActorOf[p]}
     /\ owner' = [owner EXCEPT ![t] = ActorOf[p]]
  \/ /\ p \notin PrivateScope
     /\ UNCHANGED owner

\* INSERT INTO work_tasks and its task.created event, or a replay
Admit(p, t, s, md, via) ==
  \/ /\ ~Exists(t)
     /\ task' = [task EXCEPT ![t] = [status |-> "queued", session |-> s, creator |-> ActorOf[p],
                                     made |-> md, via |-> via, meta |-> md,
                                     started |-> FALSE, ended |-> FALSE]]
     /\ log' = Appended(t, <<Ev("task.created")>>)
     /\ Room(t, <<Ev("task.created")>>)
  \/ /\ Exists(t)
     /\ SameRequest(p, t, s, md, via)
     /\ UNCHANGED <<task, log>>

create_task(p, t, s, md) ==
  /\ md.chat => p \in PrivateScope /\ p \in HarnessWriters
  /\ Admit(p, t, s, md, "api")
  /\ RecordOwner(p, t)
  /\ UNCHANGED <<origin, approvals, inputs, notes, intake, threads, bound, installed>>

\* The child is private to its actor whatever the principal's scope.
create_task_continuation(p, src, k) ==
  LET c == <<src, ActorOf[p], k>> IN
  /\ Accessible(p, src)
  /\ task[src].creator = ActorOf[p]
  /\ task[src].status = "awaiting_user_authorization"
  /\ ~Exists(c)
  /\ Room(src, <<Ev("task.continuation_started")>>)
  /\ Room(c, <<Ev("task.created"), Ev("task.continuation_started")>>)
  /\ task' = [task EXCEPT ![c] = [status |-> "queued", session |-> task[src].session,
                                  creator |-> ActorOf[p], made |-> NoMeta, via |-> "child",
                                  meta |-> NoMeta, started |-> FALSE, ended |-> FALSE]]
  /\ owner' = [owner EXCEPT ![c] = ActorOf[p]]
  /\ log' = [log EXCEPT ![c] = <<Ev("task.created"), Ev("task.continuation_started")>>,
                        ![src] = Append(@, Ev("task.continuation_started"))]
  /\ UNCHANGED <<origin, approvals, inputs, notes, intake, threads, bound, installed>>

\* _record_teams_task_origin
RecordOrigin(p, t, kind, c, m) ==
  LET o == [actor |-> ActorOf[p], kind |-> kind, connector |-> c, msg |-> m] IN
  /\ origin[t] \in {NoOrigin, o}
  /\ origin' = [origin EXCEPT ![t] = o]

Fresh(c, m, a) == \A e \in intake : <<e.connector, e.msg, e.actor>> # <<c, m, a>>

\* register_connector_event of an unverified connector (no Teams envelope); t may
\* be None: the event carries no task.
RegisterGeneric(p, c, m, t, s, md) ==
  /\ Fresh(c, m, None)
  /\ intake' = intake \cup {[connector |-> c, msg |-> m, actor |-> None, task |-> t]}
  /\ IF t = None THEN UNCHANGED <<task, log, owner>>
     ELSE Admit(p, t, s, md, "intake") /\ RecordOwner(p, t)
  /\ UNCHANGED <<origin, approvals, inputs, notes, threads, bound, installed>>

\* A verified channel message: the server writes the reply route; x is the session
\* of the thread mapping, or None.
RegisterChannel(p, c, m, t, s, md, x) ==
  LET a == ActorOf[p]
      routed == [route |-> "teams", chat |-> md.chat]
  IN
  /\ Fresh(c, m, a)
  /\ intake' = intake \cup {[connector |-> c, msg |-> m, actor |-> a, task |-> t]}
  /\ IF t = None THEN UNCHANGED <<task, log, owner, origin>>
     ELSE /\ Admit(p, t, s, routed, "intake") /\ RecordOwner(p, t)
          /\ RecordOrigin(p, t, "channel", c, m)
          /\ x \in {None, s}
  /\ x # None => threads[a] \in {None, x}
  /\ threads' = [threads EXCEPT ![a] = IF threads[a] = None THEN x ELSE threads[a]]
  /\ UNCHANGED <<approvals, inputs, notes, bound, installed>>

\* A message to the installed personal bot: the task is required, its route is
\* removed from the metadata and an acknowledgement is queued.
RegisterPrivate(p, m, t, s, md) ==
  LET a == ActorOf[p] IN
  /\ p \in PrivateScope /\ a \in PolicyOwners
  /\ Fresh(TeamsV1, m, a)
  /\ a \in installed
  /\ Admit(p, t, s, [route |-> None, chat |-> md.chat], "intake")
  /\ RecordOwner(p, t)
  /\ RecordOrigin(p, t, "private", TeamsV1, m)
  /\ intake' = intake \cup {[connector |-> TeamsV1, msg |-> m, actor |-> a, task |-> t]}
  /\ notes' = notes \cup {[kind |-> "accepted", task |-> t, status |-> None, owner |-> a,
                           route |-> "teams", hold |-> "none"]}
  /\ UNCHANGED <<approvals, inputs, threads, bound, installed>>

\* apply_private_installation (its ordering rules are module PrivateInstallations)
InstallationChanges(a) ==
  /\ installed' \in {installed \cup {a}, installed \ {a}}
  /\ UNCHANGED <<task, owner, origin, log, approvals, inputs, notes, intake, threads, bound>>

-----------------------------------------------------------------------------
(* Execution and its gates.                                                *)

claim_task(p, t) ==
  LET es == <<Changed("queued", "running")>> IN
  /\ Accessible(p, t)
  /\ task[t].status = "queued"
  /\ Room(t, es)
  /\ task' = Moved(t, "running")
  /\ log' = Appended(t, es)
  /\ UNCHANGED <<owner, origin, approvals, inputs, notes, intake, threads, bound, installed>>

\* Mutant: a status patch may answer a gate.
PatchMayMoveGate(old, st) ==
  \/ st \in {"failed", "aborted"} /\ old \notin Terminal
  \/ st \in {"completed", "awaiting_user_authorization"} /\ old = "running"
  \/ st = "running" /\ old \in {"waiting_approval", "waiting_input"}

\* Mutant: terminal states may be patched again.
PatchMayMoveEnded(old, st) ==
  \/ st \in {"failed", "aborted"}
  \/ st \in {"completed", "awaiting_user_authorization"} /\ old = "running"

\* _TASK_TRANSITIONS without the moves patch_task refuses: entering running from
\* the queue, and entering or answering a gate.
PatchMayMove(old, st) ==
  \/ st = "failed" /\ old \in {"queued", "running", "waiting_approval", "waiting_input"}
  \/ st = "aborted" /\ old \notin Terminal
  \/ st \in {"completed", "awaiting_user_authorization"} /\ old = "running"

\* Metadata is replaced before the result notification is derived from it.
patch_task(p, t, st, md) ==
  LET old == task[t].status
      es  == <<Changed(old, st)>> \o (IF st \in Terminal THEN ResultEvents(t, st, md) ELSE << >>)
  IN
  /\ Accessible(p, t)
  /\ \/ /\ st = old
        /\ task' = WithMeta(t, md)
        /\ UNCHANGED <<log, notes>>
     \/ /\ st # old /\ PatchMayMove(old, st)
        /\ Room(t, es)
        /\ task' = [task EXCEPT ![t] = [status |-> st, session |-> task[t].session,
                      creator |-> task[t].creator, made |-> task[t].made, via |-> task[t].via,
                      meta |-> md, started |-> task[t].started,
                      ended |-> task[t].ended \/ st \in Terminal]]
        /\ log' = Appended(t, es)
        /\ notes' = notes \cup (IF st \in Terminal THEN ResultNotes(t, st, md) ELSE {})
  /\ UNCHANGED <<owner, origin, approvals, inputs, intake, threads, bound, installed>>

\* An executor's event; mid None is an event without a message id.
append_task_event(p, t, mid) ==
  LET e == [type |-> "client", from |-> None, to |-> None, mid |-> mid] IN
  /\ Accessible(p, t)
  /\ mid # None => \A i \in DOMAIN log[t] : log[t][i].mid # mid
  /\ Room(t, <<e>>)
  /\ log' = Appended(t, <<e>>)
  /\ UNCHANGED <<task, owner, origin, approvals, inputs, notes, intake, threads, bound, installed>>

Pending(gates, t) == {g \in DOMAIN gates : gates[g].task = t /\ gates[g].status = "pending"}

\* A create_message_id already in use answers with the earlier gate or a conflict.
Unused(gates, mid) == mid # None => \A g \in DOMAIN gates : gates[g].mid # mid

create_approval(p, t, a, mid) ==
  LET old == task[t].status
      es  == <<Changed(old, "waiting_approval"), Ev("approval.created")>>
  IN
  /\ Accessible(p, t)
  /\ Unused(approvals, mid)
  /\ Pending(approvals, t) = {}
  /\ old \in {"queued", "running"}
  /\ approvals[a].status = "absent"      \* uuid4
  /\ Room(t, es)
  /\ approvals' = [approvals EXCEPT ![a] = [task |-> t, status |-> "pending", mid |-> mid]]
  /\ task' = Moved(t, "waiting_approval")
  /\ log' = Appended(t, es)
  /\ UNCHANGED <<owner, origin, inputs, notes, intake, threads, bound, installed>>

resolve_approval(p, a, d) ==
  LET t  == approvals[a].task
      st == IF d = "approved" THEN "running" ELSE "aborted"
      es == <<Ev("approval.resolved"), Changed("waiting_approval", st)>> \o
              (IF st = "aborted" THEN ResultEvents(t, st, task[t].meta) ELSE << >>)
  IN
  /\ approvals[a].status = "pending"
  /\ Accessible(p, t)
  /\ task[t].status = "waiting_approval"
  /\ Room(t, es)
  /\ approvals' = [approvals EXCEPT ![a] = [task |-> t, status |-> d, mid |-> approvals[a].mid]]
  /\ task' = Moved(t, st)
  /\ log' = Appended(t, es)
  /\ notes' = notes \cup (IF st = "aborted" THEN ResultNotes(t, st, task[t].meta) ELSE {})
  /\ UNCHANGED <<owner, origin, inputs, intake, threads, bound, installed>>

create_input_request(p, t, i, mid) ==
  LET es == <<Ev("input.requested"), Changed("running", "waiting_input")>> IN
  /\ Accessible(p, t)
  /\ Unused(inputs, mid)
  /\ task[t].status = "running"
  /\ Pending(inputs, t) = {}
  /\ inputs[i].status = "absent"
  /\ Room(t, es)
  /\ inputs' = [inputs EXCEPT ![i] = [task |-> t, status |-> "pending", mid |-> mid]]
  /\ task' = Moved(t, "waiting_input")
  /\ log' = Appended(t, es)
  /\ UNCHANGED <<owner, origin, approvals, notes, intake, threads, bound, installed>>

resolve_input_request(p, i) ==
  LET t  == inputs[i].task
      es == <<Ev("input.answered"), Changed("waiting_input", "running")>>
  IN
  /\ inputs[i].status = "pending"
  /\ Accessible(p, t)
  /\ task[t].status = "waiting_input"
  /\ Room(t, es)
  /\ inputs' = [inputs EXCEPT ![i] = [task |-> t, status |-> "answered", mid |-> inputs[i].mid]]
  /\ task' = Moved(t, "running")
  /\ log' = Appended(t, es)
  /\ UNCHANGED <<owner, origin, approvals, notes, intake, threads, bound, installed>>

\* _require_no_foreign_teams_session
NoForeignSession(p, s) ==
  /\ \A a \in Actor \ {ActorOf[p]} : threads[a] # s
  /\ \A t \in Task : task[t].session = s => owner[t] \in {None, ActorOf[p]}

\* Which mapping table the task uses.
BindingScope(p, t) == IF IsTeamsTask(t) \/ p \in PrivateScope THEN ActorOf[p] ELSE None

bind_backend_session(p, t, n) ==
  LET s == task[t].session
      scope == BindingScope(p, t)
  IN
  /\ p \in NativeOwners
  /\ Accessible(p, t)
  /\ task[t].status = "running"
  /\ scope = None => NoForeignSession(p, s)
  /\ \A b \in bound : <<b.scope, b.session>> # <<scope, s>>
  /\ bound' = bound \cup {[scope |-> scope, session |-> s, native |-> n,
                              creator |-> task[t].creator]}
  /\ UNCHANGED <<task, owner, origin, log, approvals, inputs, notes, intake, threads, installed>>

\* Mutant: a private principal may always fall back on the shared mapping.
get_backend_session_unchecked(p, t) ==
  LET s == task[t].session
      rows(scope) == {b \in bound : b.session = s /\ b.scope = scope}
  IN
  IF ~(p \in NativeOwners /\ Accessible(p, t) /\ task[t].status = "running") THEN {}
  ELSE IF BindingScope(p, t) # None /\ rows(ActorOf[p]) # {} THEN rows(ActorOf[p])
  ELSE rows(None)

\* The rows get_backend_session may return: the own or the shared mapping, and for
\* a private principal the shared one only while nobody else works in the session.
get_backend_session(p, t) ==
  LET s == task[t].session
      rows(scope) == {b \in bound : b.session = s /\ b.scope = scope}
  IN
  IF ~(p \in NativeOwners /\ Accessible(p, t) /\ task[t].status = "running") THEN {}
  ELSE IF BindingScope(p, t) # None
       THEN IF rows(ActorOf[p]) # {} THEN rows(ActorOf[p])
            ELSE IF /\ ~IsTeamsTask(t)
                    /\ \A u \in Task : task[u].session = s => task[u].creator = ActorOf[p]
                    /\ \A a \in Actor \ {ActorOf[p]} : threads[a] # s
                 THEN rows(None) ELSE {}
  ELSE IF NoForeignSession(p, s) THEN rows(None) ELSE {}

-----------------------------------------------------------------------------
Admission(p) ==
  \/ \E t \in Root, s \in Session, md \in Metas :
       \/ create_task(p, t, s, md)
       \/ \E m \in MessageId : RegisterPrivate(p, m, t, s, md)
  \/ \E c \in Connector, m \in MessageId, t \in Root \cup {None}, s \in Session, md \in Metas :
       \/ RegisterGeneric(p, c, m, t, s, md)
       \/ \E x \in Session \cup {None} : RegisterChannel(p, c, m, t, s, md, x)
  \/ \E src \in Root, k \in IdemKey : create_task_continuation(p, src, k)

Execution(p) ==
  \E t \in Task :
    \/ claim_task(p, t)
    \/ \E st \in Status, md \in Metas : patch_task(p, t, st, md)
    \/ \E mid \in MessageId \cup {None} :
         \/ append_task_event(p, t, mid)
         \/ \E a \in ApprovalId : create_approval(p, t, a, mid)
         \/ \E i \in InputId : create_input_request(p, t, i, mid)
    \/ \E n \in Native : bind_backend_session(p, t, n)

Answers(p) ==
  \/ \E a \in ApprovalId, d \in Decision : resolve_approval(p, a, d)
  \/ \E i \in InputId : resolve_input_request(p, i)

Next ==
  \/ \E p \in Principal : Admission(p) \/ Execution(p) \/ Answers(p)
  \/ \E a \in Actor : InstallationChanges(a)

Spec == Init /\ [][Next]_vars

-----------------------------------------------------------------------------
(* Properties.                                                             *)

\* The tables hold what their columns allow.
WorkTypeOK ==
  /\ task \in [Task -> TaskRow]
  /\ owner \in [Task -> Actor \cup {None}]
  /\ origin \in [Task -> OriginRow]
  /\ \A t \in Task : \A i \in DOMAIN log[t] : log[t][i].from \in Status \cup {None}
  /\ approvals \in [ApprovalId -> GateRow(Decision)]
  /\ inputs \in [InputId -> GateRow({"answered"})]
  /\ notes \subseteq Note
  /\ intake \subseteq Ingress
  /\ threads \in [Actor -> Session \cup {None}]
  /\ bound \subseteq Binding
  /\ installed \subseteq Actor

\* A task waits at a gate exactly while that gate is pending and no other is, so
\* it can neither hang at a gate nobody can answer nor run past an open one; an
\* ended task may leave its gate pending (patch_task against the gate routes).
GatesAgree ==
  \A t \in Task :
    /\ Cardinality(Pending(approvals, t)) + Cardinality(Pending(inputs, t)) <= 1
    /\ task[t].status \notin Terminal =>
         /\ (task[t].status = "waiting_approval") <=> (Pending(approvals, t) # {})
         /\ (task[t].status = "waiting_input") <=> (Pending(inputs, t) # {})

StatusEvents(t) == {i \in DOMAIN log[t] : log[t][i].type = "task.status_changed"}

\* The event history replays to the stored status without a break: every change
\* starts where the previous one ended, the first at queued (the executor and the
\* browser rebuild a task from these events after a restart).
HistoryExplainsStatus ==
  \A t \in Task : Exists(t) =>
    LET S == StatusEvents(t) IN
    /\ S = {} => task[t].status = "queued"
    /\ \A i \in S :
         /\ (\A j \in S : i <= j) => log[t][i].from = "queued"
         /\ (\A j \in S : j <= i) => log[t][i].to = task[t].status
         /\ \A j \in S : i < j /\ (\A k \in S : k <= i \/ j <= k)
              => log[t][i].to = log[t][j].from

\* An ended task stays as it ended: neither its status nor a gate it left open is
\* decided afterwards, whoever still holds the gate's id.
EndedStaysEnded ==
  [][\A t \in Task : task[t].status \in Terminal =>
       /\ task'[t].status = task[t].status
       /\ \A a \in ApprovalId : approvals[a].task = t => approvals'[a] = approvals[a]
       /\ \A i \in InputId : inputs[i].task = t => inputs'[i] = inputs[i]]_vars

\* A task has at most one result notification, and it reports the status the task
\* ended with, even if two executors and a reviewer race to end it.
OneResultPerTask ==
  \A n \in notes : n.kind = "result" =>
    /\ task[n.task].status = n.status /\ n.status \in Terminal
    /\ \A m \in notes : m.kind = "result" /\ m.task = n.task => m = n

\* Provenance agrees across the tables: the immutable private owner and the
\* verified Teams actor are the actor that created the task, so the result of a
\* private task has one possible reader ("verified_teams_origin_mismatch" can
\* only be about the connector).
ProvenanceAgrees ==
  \A t \in Task :
    /\ owner[t] \in {None, task[t].creator}
    /\ origin[t].actor \in {None, task[t].creator}

\* Result text of a task whose owner was private when it ended never enters the
\* outbox under a shared route, whatever its metadata says by then
\* (_queue_task_result_notification: "mutable notification metadata cannot
\* redirect output to a shared channel").
PrivateResultStaysPrivate ==
  [][\A t \in Task : owner[t] # None =>
       \A n \in notes' \ notes : n.task = t => n.owner = owner[t]]_vars

\* A private or Teams task resumes only a native conversation that was started for
\* a task of the same actor, though get_backend_session may fall back on a mapping
\* shared by the session.
NativeSessionNotForeign ==
  \A p \in Principal, t \in Task : \A b \in get_backend_session(p, t) :
    BindingScope(p, t) # None => b.creator = ActorOf[p]

\* Queued work starts only through the claim route (the message of
\* WORK_TASK_CLAIM_REQUIRED in patch_task): whoever finds a task running can
\* rely on exactly one winner of claim_task.
RunningWasClaimed ==
  \A t \in Task : task[t].status = "running" =>
    \E i \in StatusEvents(t) : log[t][i].from = "queued" /\ log[t][i].to = "running"

=============================================================================
