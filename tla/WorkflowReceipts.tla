--------------------------- MODULE WorkflowReceipts ---------------------------
(***************************************************************************)
(* The Work side of workflows (work/store.py): definitions, the schedule    *)
(* receipts of their occurrences, the source observations that a poll       *)
(* stores, the decision that consumes each observation, and the digest and  *)
(* responsibility notices derived from receipts.  The scheduler of the      *)
(* harness is the client: it starts the task of an occurrence, records      *)
(* receipts and asks for notices, in the order its awaits allow, and        *)
(* repeats what it does not know to have happened.                          *)
(*                                                                         *)
(* An occurrence is [flow, trigger, slot]; its identity and that of its     *)
(* task are digests of those, so two requests with the same three are about *)
(* the same occurrence.  The digest of a flow is the trigger Digest.  A     *)
(* slot is a scheduled time.  An observation has a resource whose state it  *)
(* reports and a rank: the order of (occurredAt, sourceEventId).            *)
(***************************************************************************)
EXTENDS Naturals, Sequences, FiniteSets, FiniteSetsExt

CONSTANTS
  Flow, Definition,   \* workflow ids and the documents put under them
  NoDefinition,
  Target, Digest,
  Occ,                \* the occurrences the scheduler fires
  Seen, SeenInfo,     \* observations: [resource, target, type, class, print, rank]
  Resource,
  MaxPages            \* the page budget of one occurrence

VARIABLES
  flows,      \* work_workflows
  routed,     \* actors with an active private installation
  threaded,   \* owner tasks whose Teams thread is the one the connector has stored
  occTasks,   \* the task of each occurrence and the authorization it was created with
  sched,      \* work_schedule_events
  observed,   \* work_automation_events
  pages,      \* page and source-error receipts among the events of a task
  intents,    \* work_automation_event_intents
  resState,   \* work_automation_event_states
  decided,    \* for each resource, the decisions that moved its state, in order
  notices,    \* notices put in the outbox
  digests     \* digest notices put in the outbox, with the receipts they list, and
              \* (history) the receipts recorded when they were written

flowVars == <<flows, routed, threaded, occTasks, sched, observed, pages, intents, resState, decided, notices,
              digests>>

Status == {"queued", "running", "succeeded", "failed"}
Actor  == {d.owner : d \in Definition}
OwnerTask == {d.auth : d \in Definition}
Attention == {"none", "user_decision"}
NoState == [class |-> "none", print |-> 0, rank |-> 0]

ASSUME FlowAssumption ==
  /\ NoDefinition \notin Definition
  /\ \A d \in Definition : d.flow \in Flow /\ d.version \in {2, 3} /\ Digest \notin DOMAIN d.polls
  /\ \A o \in Occ : o.flow \in Flow /\ o.slot \in Nat
  /\ \A e \in Seen : SeenInfo[e].rank \in Nat \ {0} /\ SeenInfo[e].resource \in Resource

\* The semantic fingerprint of an observation is a digest of facts that fix its
\* state class; a source failure is an incident.
ASSUME FingerprintAssumption ==
  /\ \A e \in Seen : SeenInfo[e].class \in {"healthy", "incident", "neutral"}
  /\ \A e \in Seen : SeenInfo[e].type = "failure" => SeenInfo[e].class = "incident"
  /\ \A d, e \in Seen : SeenInfo[d].resource = SeenInfo[e].resource
                        /\ SeenInfo[d].print = SeenInfo[e].print => SeenInfo[d].class = SeenInfo[e].class

Stored(f) == flows[f] # NoDefinition

(***************************************************************************)
(* Definitions                                                              *)
(***************************************************************************)
\* _validate_workflow_v3: host-bound targets, polls of configured targets.
ValidTargets(d) == d.targets # {} /\ d.targets \subseteq Target
ValidPolls(d) ==
  /\ DOMAIN d.polls # {}
  /\ \A p \in DOMAIN d.polls : d.polls[p] # {} /\ d.polls[p] \subseteq d.targets
ValidAuthorization(d) == d.kind = "owner_private" /\ d.destination = "owner_private"

\* _validate_workflow_v2: a responsibility may be stored without targets while
\* it is disabled, and answers in the Teams thread of its owner.
ValidResponsibilityTargets(d) == d.enabled => d.targets # {}
ValidResponsibilityPolls(d) ==
  DOMAIN d.polls # {} /\ \A p \in DOMAIN d.polls : d.polls[p] \subseteq d.targets
ValidResponsibilityRoute(d) == d.kind = "teams_thread" /\ d.destination = "responsibility_thread"

ValidDefinition(d) ==
  IF d.version = 3 THEN ValidTargets(d) /\ ValidPolls(d) /\ ValidAuthorization(d)
  ELSE ValidResponsibilityTargets(d) /\ ValidResponsibilityPolls(d) /\ ValidResponsibilityRoute(d)

\* A private definition stays private and with its owner; a shared one is
\* never made private.
Replaceable(d) ==
  LET prior == flows[d.flow] IN
  Stored(d.flow) => prior.version = d.version /\ (d.version = 3 => prior.owner = d.owner)

\* The branch of put_workflow for a Teams authorization of a v3 definition is never
\* taken: ValidAuthorization refuses every kind but owner_private before it.
PutWorkflow(d) ==
  /\ ValidDefinition(d) /\ Replaceable(d)
  /\ d.version = 3 => d.owner \in routed
  /\ flows' = [flows EXCEPT ![d.flow] = d]
  /\ UNCHANGED <<routed, threaded, occTasks, sched, observed, pages, intents, resState, decided, notices, digests>>

\* The owner installs or removes the personal app.
RouteChanges(a) ==
  /\ routed' = IF a \in routed THEN routed \ {a} ELSE routed \cup {a}
  /\ UNCHANGED <<flows, threaded, occTasks, sched, observed, pages, intents, resState, decided, notices,
                 digests>>

\* The connector stores another service address for the thread of an owner task,
\* binds the thread a second time, or stores the matching address again.
ThreadChanges(task) ==
  /\ threaded' = IF task \in threaded THEN threaded \ {task} ELSE threaded \cup {task}
  /\ UNCHANGED <<flows, routed, occTasks, sched, observed, pages, intents, resState, decided, notices,
                 digests>>

(***************************************************************************)
(* Occurrences and their receipts                                           *)
(***************************************************************************)
\* The scheduler creates and starts the task of an occurrence.
StartOccurrence(o) ==
  /\ Stored(o.flow) /\ occTasks[o].status = "none"
  /\ occTasks' = [occTasks EXCEPT ![o] = [status |-> "running", auth |-> flows[o.flow].auth]]
  /\ UNCHANGED <<flows, routed, threaded, sched, observed, pages, intents, resState, decided, notices, digests>>

EndOccurrence(o, status) ==
  /\ occTasks[o].status = "running"
  /\ occTasks' = [occTasks EXCEPT ![o].status = status]
  /\ UNCHANGED <<flows, routed, threaded, sched, observed, pages, intents, resState, decided, notices, digests>>

Recorded(o, status) == {r \in sched : r.occ = o /\ r.status = status}

\* The task of a v3 receipt exists and was created for this occurrence under
\* the authorization the definition has now.
TaskOfOccurrence(o) ==
  occTasks[o].status # "none" /\ occTasks[o].auth = flows[o.flow].auth

RunningIsReal(r) == r.status = "running" => occTasks[r.occ].status = "running"

\* A digest succeeds only with changes, and carries no cursors.
DigestReceiptOK(r) ==
  /\ flows[r.occ.flow].digest
  /\ r.checkpoint = "none"
  /\ r.status = "succeeded" => r.changed

\* A checkpoint covers every configured target once within the page budget;
\* only a complete one is a success, and a baseline reports no change.
CheckpointOK(r) ==
  IF r.checkpoint = "none" THEN r.status # "succeeded"
  ELSE /\ r.checkpoint = "source_poll" /\ r.cover = flows[r.occ.flow].polls[r.occ.trigger]
       /\ r.pages <= MaxPages
       /\ r.status = "succeeded" => r.complete
       /\ ~(r.baseline /\ r.changed)

\* A checkpoint is complete exactly when no source or repository has a page left;
\* a source poll has the cursor of a source at least.
CursorsOK(r) ==
  /\ r.checkpoint = "source_poll" <=> r.cover # {}
  /\ r.checkpoint = "source_poll" => r.left \subseteq r.cover
  /\ r.checkpoint = "none" => r.left = {}
  /\ r.complete <=> r.checkpoint # "none" /\ r.left = {}

\* _validate_v3_schedule_event.
PrivateReceiptOK(r) ==
  /\ TaskOfOccurrence(r.occ) /\ RunningIsReal(r)
  /\ IF r.occ.trigger = Digest THEN DigestReceiptOK(r)
     ELSE r.occ.trigger \in DOMAIN flows[r.occ.flow].polls /\ CheckpointOK(r)

\* The receipt of an occurrence and status is written once; a repeat of the
\* same content is a replay and other content is refused.
AppendScheduleEvent(r) ==
  /\ Stored(r.occ.flow) /\ CursorsOK(r)
  /\ IF flows[r.occ.flow].version = 3 THEN PrivateReceiptOK(r) ELSE r.checkpoint # "source_poll"
  /\ Recorded(r.occ, r.status) = {}
  /\ sched' = sched \cup {r}
  /\ UNCHANGED <<flows, routed, threaded, occTasks, observed, pages, intents, resState, decided, notices, digests>>

(***************************************************************************)
(* Observations and the decisions that consume them                         *)
(***************************************************************************)
AppendAutomationEvent(e) ==
  /\ e \notin observed
  /\ observed' = observed \cup {e}
  /\ UNCHANGED <<flows, routed, threaded, occTasks, sched, pages, intents, resState, decided, notices, digests>>

\* The running task records the page, or the source error, that shows e.
RecordPage(o, e) ==
  /\ occTasks[o].status = "running" /\ e \in observed
  /\ \A p \in pages : p.occ = o => p.observed # e
  /\ SeenInfo[e].type = "failure" => \A p \in pages : p.occ = o => SeenInfo[p.observed].type # "failure"
  /\ pages' = pages \cup {[occ |-> o, observed |-> e]}
  /\ UNCHANGED <<flows, routed, threaded, occTasks, sched, observed, intents, resState, decided, notices, digests>>

\* The private flow that may consume source events, for the poll that runs.
MayConsume(o, e) ==
  LET d == flows[o.flow] IN
  /\ Stored(o.flow) /\ d.version = 3 /\ d.enabled
  /\ o.trigger \in DOMAIN d.polls
  /\ <<e, o.flow, o.trigger>> \notin DOMAIN intents
  /\ d.owner \in routed

OccurrenceRuns(o) == Recorded(o, "running") # {} /\ occTasks[o].status = "running"

\* A page of this task on a configured target proves the observation.
ProvenByPage(o, e) ==
  /\ [occ |-> o, observed |-> e] \in pages
  /\ SeenInfo[e].target \in flows[o.flow].polls[o.trigger]

NeverStale(e) == FALSE

\* Not newer than what the state of the resource already reflects.
Stale(e) == SeenInfo[e].rank <= resState[SeenInfo[e].resource].rank

SameState(e) ==
  LET s == resState[SeenInfo[e].resource] IN s.class = SeenInfo[e].class /\ s.print = SeenInfo[e].print

\* A mutant of FailureDecision: every failure of a source is news.
FailureAlways(e) == "failure"

FailureDecision(e) == IF SameState(e) THEN "unchanged" ELSE "failure"

\* An observation of a resource, neither a source failure nor a recovery.
ResourceDecision(d, e, baseline) ==
  LET s == resState[SeenInfo[e].resource] IN
  CASE baseline \/ s = NoState -> "initial_baseline"
    [] ~(baseline \/ s = NoState) /\ SameState(e) -> "unchanged"
    [] OTHER ->
         IF SeenInfo[e].type \in d.immediate THEN "blocker"
         ELSE IF s.class = "incident" /\ SeenInfo[e].class = "healthy" THEN "recovery"
         ELSE IF s.class # "incident" /\ SeenInfo[e].class = "incident" THEN "failure"
         ELSE "change"

Decision(d, e, baseline) ==
  IF Stale(e) THEN "stale"
  ELSE CASE SeenInfo[e].type = "failure"  -> FailureDecision(e)
         [] SeenInfo[e].type = "recovery" -> "recovery"
         [] OTHER -> ResourceDecision(d, e, baseline)

\* A source recovery that is not stale needs a recorded incident.
RecoveryHasIncident(e) ==
  SeenInfo[e].type = "recovery" /\ ~Stale(e) => resState[SeenInfo[e].resource].class = "incident"

\* The decisions a definition wants announced.
Announced(d, decision) ==
  \/ decision = "failure" /\ d.onFailure
  \/ decision = "recovery" /\ d.onRecovery
  \/ decision = "blocker"

EnqueueAutomationEventNotice(o, e) ==
  LET baseline == \E r \in Recorded(o, "running") : r.baseline
      decision == Decision(flows[o.flow], e, baseline)
      res      == SeenInfo[e].resource
  IN
  /\ e \in observed /\ MayConsume(o, e) /\ OccurrenceRuns(o) /\ ProvenByPage(o, e)
  /\ RecoveryHasIncident(e)
  /\ intents' = [k \in DOMAIN intents \cup {<<e, o.flow, o.trigger>>} |->
                   IF k \in DOMAIN intents THEN intents[k] ELSE decision]
  /\ IF decision = "stale" THEN UNCHANGED <<resState, decided>>
     ELSE /\ resState' = [resState EXCEPT ![res] = [class |-> SeenInfo[e].class,
                            print |-> SeenInfo[e].print, rank |-> SeenInfo[e].rank]]
          /\ decided' = [decided EXCEPT ![res] = Append(@, [decision |-> decision, observed |-> e])]
  /\ notices' = IF Announced(flows[o.flow], decision)
                THEN notices \cup {[flow |-> o.flow, about |-> e, kind |-> decision]} ELSE notices
  /\ UNCHANGED <<flows, routed, threaded, occTasks, sched, observed, pages, digests>>

(***************************************************************************)
(* Notices derived from receipts                                            *)
(***************************************************************************)
DigestSlots(f) == {r.occ.slot : r \in {x \in sched : x.occ.flow = f /\ x.occ.trigger = Digest
                                                     /\ x.status = "succeeded"}}

\* The receipts after the previous digest and before this one.
Changes(o) ==
  LET before == {s \in DigestSlots(o.flow) : s < o.slot}
      since  == IF before = {} THEN 0 ELSE Max(before)
  IN {r \in sched : /\ r.occ.flow = o.flow /\ r.occ.trigger \in DOMAIN flows[o.flow].polls
                    /\ r.status = "succeeded" /\ r.changed /\ ~r.baseline /\ r.complete
                    /\ r.occ.slot < o.slot /\ (before # {} => r.occ.slot > since)}

EnqueueDigestNotice(o) ==
  LET d == flows[o.flow] IN
  /\ o.trigger = Digest /\ Stored(o.flow)
  /\ d.version = 3 /\ d.enabled /\ d.digest /\ d.owner \in routed
  /\ occTasks[o].status = "completed" /\ TaskOfOccurrence(o)
  /\ \E r \in Recorded(o, "succeeded") : r.changed
  /\ Changes(o) # {}
  /\ ~ \E n \in digests : n.occ = o
  /\ digests' = digests \cup {[occ |-> o, lists |-> Changes(o), recorded |-> sched]}
  /\ UNCHANGED <<flows, routed, threaded, occTasks, sched, observed, pages, intents, resState, decided, notices>>

\* The terminal receipt of a shared occurrence: a success hides a failure.
TerminalReceipt(o) ==
  IF Recorded(o, "succeeded") # {} THEN Recorded(o, "succeeded") ELSE Recorded(o, "failed")

Incomplete(r) == r.checkpoint # "none" /\ ~r.complete

NoticeFits(o, r, kind, attention) ==
  CASE kind = "change"  -> r.status = "succeeded" /\ r.changed /\ ~r.baseline /\ ~Incomplete(r)
    [] kind = "failure" -> r.status = "failed"
    [] kind = "digest"  -> o.trigger = Digest /\ r.status = "succeeded" /\ r.changed
    [] kind = "blocker" -> r.attention = attention
    [] OTHER -> TRUE

\* The owner task is a Teams task, its thread is the authorized one, exactly one
\* connector has stored that thread, and tenant, route, session and reply
\* descriptor of the two agree.
OwnerThreadMatches(d) == d.auth \in threaded

EnqueueWorkflowNotice(o, kind, attention) ==
  /\ Stored(o.flow) /\ flows[o.flow].version = 2
  /\ \E r \in TerminalReceipt(o) : NoticeFits(o, r, kind, attention)
  /\ OwnerThreadMatches(flows[o.flow])
  /\ notices' = notices \cup {[flow |-> o.flow, about |-> o, kind |-> kind]}
  /\ UNCHANGED <<flows, routed, threaded, occTasks, sched, observed, pages, intents, resState, decided, digests>>

(***************************************************************************)
(* Specification                                                            *)
(***************************************************************************)
FlowInit ==
  /\ flows = [f \in Flow |-> NoDefinition]
  /\ routed = Actor /\ threaded = OwnerTask
  /\ occTasks = [o \in Occ |-> [status |-> "none", auth |-> NoDefinition]]
  /\ sched = {} /\ observed = {} /\ pages = {}
  /\ intents = << >>
  /\ resState = [r \in Resource |-> NoState]
  /\ decided = [r \in Resource |-> << >>]
  /\ notices = {} /\ digests = {}

DefinitionNext ==
  \/ \E d \in Definition : PutWorkflow(d)
  \/ \E a \in Actor : RouteChanges(a)
  \/ \E task \in OwnerTask : ThreadChanges(task)

OccurrenceNext ==
  \/ \E o \in Occ : StartOccurrence(o)
  \/ \E o \in Occ, status \in {"completed", "failed"} : EndOccurrence(o, status)

ObservationNext ==
  \/ \E e \in Seen : AppendAutomationEvent(e)
  \/ \E o \in Occ, e \in Seen : RecordPage(o, e)
  \/ \E o \in Occ, e \in Seen : EnqueueAutomationEventNotice(o, e)

NoticeNext ==
  \/ \E o \in Occ : EnqueueDigestNotice(o)
  \/ \E o \in Occ, kind \in {"change", "failure", "digest", "recovery", "blocker"}, attention \in Attention :
       EnqueueWorkflowNotice(o, kind, attention)

\* _validate_schedule_event: what a receipt may say.
ScheduleReceipt ==
  [occ : Occ, status : Status, baseline : BOOLEAN, changed : BOOLEAN, attention : Attention,
   checkpoint : {"none", "source_poll", "issues"}, cover : SUBSET Target, left : SUBSET Target,
   complete : BOOLEAN, pages : 0 .. MaxPages]

FlowNext ==
  \/ DefinitionNext \/ OccurrenceNext \/ ObservationNext \/ NoticeNext
  \/ \E r \in ScheduleReceipt : AppendScheduleEvent(r)

FlowSpec == FlowInit /\ [][FlowNext]_flowVars

(***************************************************************************)
(* Properties                                                               *)
(***************************************************************************)
\* However polls of several workflows overlap and in whatever order their
\* observations are consumed, the state of a resource is the newest one that
\* was consumed (the order of occurredAt, not of arrival).
NewestStateWins ==
  \A k \in DOMAIN intents : SeenInfo[k[1]].rank <= resState[SeenInfo[k[1]].resource].rank

\* The owner does not hear of the same outage twice: between two failures of
\* one resource with the same fingerprint the recorded state was different.
OutageAnnouncedOnce ==
  \A r \in Resource : \A i, j \in 1 .. Len(decided[r]) :
    /\ i < j /\ decided[r][i].decision = "failure" /\ decided[r][j].decision = "failure"
    /\ SeenInfo[decided[r][i].observed].print = SeenInfo[decided[r][j].observed].print
    => \E k \in i + 1 .. j - 1 :
         SeenInfo[decided[r][k].observed].print # SeenInfo[decided[r][i].observed].print

\* What the API documentation says of the digest: its text comes from the
\* complete changed receipts since the previous digest.  So once the digests of
\* all earlier slots are written, a change that was recorded before the digest
\* of a later slot was written is in it or in one of those.
DigestCovers ==
  \A n \in digests :
    (\A r \in n.recorded : r.occ.flow = n.occ.flow /\ r.occ.trigger = Digest
                              => \E m \in digests : m.occ = r.occ)
    => \A r \in n.recorded :
         /\ r.occ.flow = n.occ.flow /\ r.occ.trigger # Digest /\ r.occ.slot < n.occ.slot
         /\ r.status = "succeeded" /\ r.changed /\ ~r.baseline
         => \E m \in digests : r \in m.lists
=============================================================================
