--------------------------- MODULE WorkOperations ---------------------------
(***************************************************************************)
(* Operation receipts of the Work store (work_operations in work/store.py)  *)
(* and the routes that dispatch an external effect under one: the Bilibili  *)
(* routes of conversation_peripheral/routes.py.  The intent is durable      *)
(* before the effect, the route awaits the Exchange, and the outcome is     *)
(* written afterwards: the process may stop, the task may end and other     *)
(* requests may come at every await.                                        *)
(*                                                                         *)
(* A receipt is named by its idempotency key; a key stands for one request  *)
(* (another digest under the same key is refused), so the operation type,   *)
(* task, target and locks are functions of the key.  A task-bound key is    *)
(* written by the trusted producer exchange-connector-dispatch; the others  *)
(* are generic and any client of the workspace may patch them.  The target  *)
(* and the scope lock of a key are its locks: both refuse a new intent      *)
(* while an unresolved receipt holds the same one.                          *)
(*                                                                         *)
(* The fixed finalizer create_completed_operation writes the receipts of    *)
(* completed skill tasks, which are immutable.                              *)
(***************************************************************************)
EXTENDS Naturals, FiniteSets

CONSTANTS
  OpKey,       \* idempotency keys of dispatched operations
  OpInfo,      \* [OpKey -> [task, locks, effect]], effect "read" or "write"
  OpTask,      \* Work tasks
  NoOpTask,    \* the task of an ordinary request
  Action,      \* skill actions: [Action -> [task, readback]] names the tasks
  ActionInfo,  \* of the action and of its independent readback
  WebKey,      \* [OpTask -> web.open receipts of the task]
  Request      \* concurrent requests of the dispatch routes

VARIABLES
  ops,         \* work_operations rows
  opTasks,     \* the status of each Work task
  dispatches,  \* route calls in flight
  effects,     \* external: how often the effect of a key took place
  skillReceipts  \* completed receipts of skill tasks

opVars == <<ops, opTasks, dispatches, effects, skillReceipts>>

OpStatus   == {"none", "started", "uncertain", "verified"}
Unresolved == {"started", "uncertain"}
Outcome    == {"none", "SUCCEEDED", "REJECTED", "READ_FAILED", "UNKNOWN_RESULT", "PATCHED"}
Answer     == {"none", "success", "rejection", "clientError", "notSent", "unknown"}
OpTaskSet  == OpTask \cup {NoOpTask}

ASSUME OperationAssumption ==
  /\ NoOpTask \notin OpTask
  /\ DOMAIN OpInfo = OpKey
  /\ \A k \in OpKey : OpInfo[k].task \in OpTaskSet /\ OpInfo[k].effect \in {"read", "write"}
  /\ ActionInfo \in [Action -> [task : OpTask, readback : OpTask]]
  /\ WebKey \in [OpTask -> SUBSET OpKey]

Trusted(k) == OpInfo[k].task # NoOpTask

OperationInit ==
  /\ ops = [k \in OpKey |-> [status |-> "none", outcome |-> "none"]]
  /\ opTasks = [t \in OpTask |-> "running"]
  /\ dispatches = {}
  /\ effects = [k \in OpKey |-> 0]
  /\ skillReceipts = {}

OperationTypeOK ==
  /\ ops \in [OpKey -> [status : OpStatus, outcome : Outcome]]
  /\ opTasks \in [OpTask -> {"running", "completed", "failed"}]
  /\ dispatches \subseteq [key : OpKey, request : Request, stage : {"checked", "sent"},
                           answer : Answer]
  /\ effects \in [OpKey -> Nat]
  /\ skillReceipts \subseteq [phase : {"verify", "readback"}, task : OpTask, action : Action,
                              effect : OpKey]

(***************************************************************************)
(* Dispatch                                                                 *)
(***************************************************************************)
\* A task-bound request needs the exact running task; the connection of the
\* request must be enabled in the Exchange.  A read without a task keeps no
\* receipt, so the reads here are task-bound.
TaskRuns(k) == Trusted(k) => opTasks[OpInfo[k].task] = "running"

BeginDispatch(k, r) ==
  /\ OpInfo[k].effect = "read" => Trusted(k)
  /\ TaskRuns(k)
  /\ \A d \in dispatches : d.request # r
  /\ dispatches' = dispatches \cup {[key |-> k, request |-> r, stage |-> "checked",
                                     answer |-> "none"]}
  /\ UNCHANGED <<ops, opTasks, effects, skillReceipts>>

\* Receipts that hold a lock of k and still need reconciliation.
Blockers(k) ==
  {other \in OpKey \ {k} : ops[other].status \in Unresolved
                           /\ OpInfo[other].locks \cap OpInfo[k].locks # {}}

\* A mutant of Admissible: a receipt that is only started does not block.
AdmissibleWhileStarted(k) ==
  ops[k].status = "none" /\ \A other \in Blockers(k) : ops[other].status = "started"

\* A new intent: the key is unused and no unresolved receipt holds its locks.
Admissible(k) == ops[k].status = "none" /\ Blockers(k) = {}

\* A mutant of NewIntent: a retry of an unresolved receipt is sent again.
NewIntentOrRetry(k) == Admissible(k) \/ ops[k].status \in Unresolved

\* An existing receipt is returned as a duplicate and is not sent again.
NewIntent(k) == Admissible(k)

CreateOperation(d) ==
  /\ d.stage = "checked"
  /\ TaskRuns(d.key) /\ NewIntent(d.key)
  /\ ops' = [ops EXCEPT ![d.key].status = "started"]
  /\ dispatches' = (dispatches \ {d}) \cup {[d EXCEPT !.stage = "sent"]}
  /\ UNCHANGED <<opTasks, effects, skillReceipts>>

\* The Exchange performs the request, and then answers or not.  An answer
\* that excludes a side effect (a 4xx status, a rejection, a request that
\* never left) comes only without one.
ExchangePerforms(d) ==
  /\ d.stage = "sent" /\ d.answer = "none"
  /\ effects' = [effects EXCEPT ![d.key] = @ + 1]
  /\ \E answer \in {"success", "unknown"} :
        dispatches' = (dispatches \ {d}) \cup {[d EXCEPT !.answer = answer]}
  /\ UNCHANGED <<ops, opTasks, skillReceipts>>

ExchangeDeclines(d) ==
  /\ d.stage = "sent" /\ d.answer = "none"
  /\ \E answer \in {"rejection", "clientError", "notSent", "unknown"} :
        dispatches' = (dispatches \ {d}) \cup {[d EXCEPT !.answer = answer]}
  /\ UNCHANGED <<ops, opTasks, effects, skillReceipts>>

\* A mutant of WriteEvidence: a lost answer is taken for a refusal.
WriteEvidenceHopeful(answer) ==
  IF answer = "success" THEN [status |-> "verified", outcome |-> "SUCCEEDED"]
  ELSE [status |-> "verified", outcome |-> "REJECTED"]

\* _bilibili_write_evidence and the handlers of bilibili_write: what the
\* answer to a write proves.
WriteEvidence(answer) ==
  CASE answer = "success" -> [status |-> "verified", outcome |-> "SUCCEEDED"]
    [] answer \in {"rejection", "clientError", "notSent"}
         -> [status |-> "verified", outcome |-> "REJECTED"]
    [] OTHER -> [status |-> "uncertain", outcome |-> "UNKNOWN_RESULT"]

\* bilibili_read: what is recorded of a read.  An answered read is verified
\* with its stored result, uncertain when the result cannot be stored, and
\* "failed" when its envelope does not project, although the Exchange
\* performed it; a refusal is "failed" unless the error says that a side
\* effect is possible, which a 4xx status does not settle here.
ReadEvidence(answer) ==
  LET failed    == [status |-> "verified", outcome |-> "READ_FAILED"]
      uncertain == [status |-> "uncertain", outcome |-> "UNKNOWN_RESULT"]
  IN CASE answer = "success" -> {WriteEvidence(answer), failed, uncertain}
       [] answer = "clientError" -> {failed, uncertain}
       [] answer \in {"rejection", "notSent"} -> {failed}
       [] OTHER -> {uncertain}

Evidence(k, answer) ==
  IF OpInfo[k].effect = "write" THEN {WriteEvidence(answer)} ELSE ReadEvidence(answer)

\* update_operation: receipts only move forward.
Forward(from, to) ==
  \/ from = "started" /\ to \in {"uncertain", "verified"}
  \/ from = "uncertain" /\ to = "verified"

\* The route records the outcome; the trusted producer only while its task runs.
RecordOutcome(d) ==
  /\ d.answer # "none"
  /\ TaskRuns(d.key)
  /\ \E evidence \in Evidence(d.key, d.answer) :
        /\ Forward(ops[d.key].status, evidence.status)
        /\ ops' = [ops EXCEPT ![d.key] = evidence]
  /\ dispatches' = dispatches \ {d}
  /\ UNCHANGED <<opTasks, effects, skillReceipts>>

\* A duplicate, a refusal (of the request or of its outcome), or the loss of
\* the process: the receipt stays as it is.
EndDispatch(d) ==
  /\ dispatches' = dispatches \ {d}
  /\ UNCHANGED <<ops, opTasks, effects, skillReceipts>>

\* PATCH operations/{id}: any client of the scope, generic receipts only.
PatchOperation(k, status) ==
  /\ ~Trusted(k)
  /\ Forward(ops[k].status, status)
  /\ ops' = [ops EXCEPT ![k] = [status |-> status, outcome |-> "PATCHED"]]
  /\ UNCHANGED <<opTasks, dispatches, effects, skillReceipts>>

\* The executor ends a task.
EndOpTask(t, status) ==
  /\ opTasks[t] = "running"
  /\ opTasks' = [opTasks EXCEPT ![t] = status]
  /\ UNCHANGED <<ops, dispatches, effects, skillReceipts>>

DispatchNext ==
  \/ \E k \in OpKey, r \in Request : BeginDispatch(k, r)
  \/ \E d \in dispatches : CreateOperation(d)
  \/ \E d \in dispatches : ExchangePerforms(d)
  \/ \E d \in dispatches : ExchangeDeclines(d)
  \/ \E d \in dispatches : RecordOutcome(d)
  \/ \E d \in dispatches : EndDispatch(d)
  \/ \E k \in OpKey, status \in OpStatus : PatchOperation(k, status)
  \/ \E t \in OpTask, status \in {"completed", "failed"} : EndOpTask(t, status)

(***************************************************************************)
(* Completed receipts of skill tasks                                        *)
(***************************************************************************)
\* The generic web.open receipt of a running task, patched when it is read.
RecordWebOpen(t, k) ==
  /\ k \in WebKey[t] /\ opTasks[t] = "running" /\ Admissible(k)
  /\ ops' = [ops EXCEPT ![k].status = "started"]
  /\ UNCHANGED <<opTasks, dispatches, effects, skillReceipts>>

\* _require_skill_effect_operation.
SkillEffect(t, k) == k \in WebKey[t] /\ ops[k].status = "verified"

\* One receipt for each task and type; an equal one is a replay.
NewReceipt(phase, t) == ~ \E r \in skillReceipts : r.phase = phase /\ r.task = t

\* conversation.skill.readback: the completed readback task opened the page
\* itself, under an operation that is not the action's.
ReadbackVerified(a, effect, readback) ==
  /\ opTasks[ActionInfo[a].readback] = "completed"
  /\ SkillEffect(ActionInfo[a].readback, readback)
  /\ readback # effect

CreateReadbackReceipt(a, effect, readback) ==
  /\ ReadbackVerified(a, effect, readback)
  /\ NewReceipt("readback", ActionInfo[a].readback)
  /\ skillReceipts' = skillReceipts \cup {[phase |-> "readback", task |-> ActionInfo[a].readback,
                                           action |-> a, effect |-> effect]}
  /\ UNCHANGED <<ops, opTasks, dispatches, effects>>

\* A verified readback receipt of another task, bound to the same effect.
IndependentReadback(a, effect) ==
  \E r \in skillReceipts :
    r.phase = "readback" /\ r.action = a /\ r.effect = effect /\ r.task # ActionInfo[a].task

\* conversation.skill.verify.
CreateVerifyReceipt(a, effect) ==
  /\ opTasks[ActionInfo[a].task] = "completed"
  /\ SkillEffect(ActionInfo[a].task, effect)
  /\ IndependentReadback(a, effect)
  /\ NewReceipt("verify", ActionInfo[a].task)
  /\ skillReceipts' = skillReceipts \cup {[phase |-> "verify", task |-> ActionInfo[a].task,
                                           action |-> a, effect |-> effect]}
  /\ UNCHANGED <<ops, opTasks, dispatches, effects>>

SkillNext ==
  \/ \E t \in OpTask, k \in OpKey : RecordWebOpen(t, k)
  \/ \E k \in OpKey, status \in OpStatus : PatchOperation(k, status)
  \/ \E t \in OpTask, status \in {"completed", "failed"} : EndOpTask(t, status)
  \/ \E a \in Action, effect, readback \in OpKey : CreateReadbackReceipt(a, effect, readback)
  \/ \E a \in Action, effect \in OpKey : CreateVerifyReceipt(a, effect)

OperationSpec == OperationInit /\ [][DispatchNext \/ SkillNext]_opVars

(***************************************************************************)
(* Properties                                                               *)
(***************************************************************************)
\* However often a request is repeated, however many dispatches race and
\* wherever one of them stops, the Exchange performs a key at most once.
EffectOncePerKey == \A k \in OpKey : effects[k] <= 1

\* A receipt that the route closed as REJECTED had no effect, and one that it
\* closed as SUCCEEDED had it: only a proven outcome is final.  A receipt
\* closed as READ_FAILED is a read's, never a write's: it proves neither, the
\* read may have been performed, and there is nothing to undo or to repeat.
OutcomeIsProven ==
  \A k \in OpKey :
    /\ ops[k].outcome = "REJECTED" => effects[k] = 0
    /\ ops[k].outcome = "SUCCEEDED" => effects[k] = 1
    /\ ops[k].outcome = "READ_FAILED" => OpInfo[k].effect = "read"

\* Two task-bound dispatches that share a target or a branch are never both on
\* the wire: the durable receipt is the lock, and it outlives the task and the
\* process that took it.
TrustedDispatchAlone ==
  \A d, e \in dispatches :
    d.stage = "sent" /\ e.stage = "sent" /\ Trusted(d.key) /\ Trusted(e.key) /\ d.key # e.key
      => OpInfo[d.key].locks \cap OpInfo[e.key].locks = {}

\* A skill is verified only after a different completed task opened the page
\* under an operation of its own.
SkillVerifiedIndependently ==
  \A r \in skillReceipts :
    r.phase = "verify" =>
      \E k \in OpKey \ {r.effect} :
         /\ ActionInfo[r.action].readback # r.task
         /\ opTasks[ActionInfo[r.action].readback] = "completed"
         /\ SkillEffect(ActionInfo[r.action].readback, k)

\* What list_unresolved_operations says its rows are for: whoever finds an
\* unresolved receipt on a target can still reconcile it.
UnresolvedIsReconcilable ==
  \A k \in OpKey :
    ops[k].status \in Unresolved =>
      ~Trusted(k) \/ (TaskRuns(k) /\ \E d \in dispatches : d.key = k /\ d.stage = "sent")
=============================================================================
