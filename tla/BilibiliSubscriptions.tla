------------------------ MODULE BilibiliSubscriptions ------------------------
(***************************************************************************)
(* A standing read of a Bilibili resource: the delegation the owner gave,  *)
(* the subscription row and its compare-and-set transitions (the store in  *)
(* bilibili_domains.py), what the routes verify before each of them        *)
(* (bilibili_domain_api.py), and the harness worker that claims a due      *)
(* check, reads, notifies and records (features/bilibili-delegation.ts).   *)
(*                                                                         *)
(* Every transition of a row writes the new version and, with it, the run  *)
(* key of that version, so comparing a run key and comparing a version are *)
(* one comparison here. A notification is named by the output it is about: *)
(* its deduplication key is a digest of the subscription and that output.  *)
(***************************************************************************)
EXTENDS Integers, FiniteSets

CONSTANTS
  Output,      \* digests a read can produce
  NoOutput,    \* the null digest or receipt
  MaxCheckVersion   \* bound on the versions of the row

ASSUME OutputAssumption == NoOutput \notin Output /\ MaxCheckVersion \in Nat \ {0}

VARIABLES
  clock,         \* 0 early; 1 the last reconcile interval; 2 the row has expired; 3 the delegation too
  authorized,    \* the sources are current and the profile is the owner's
  delegation,    \* stored state of the delegation
  subscription,  \* the row
  readResult,    \* version of a claimed run -> output of its verified operation, or "unverified"
  outbox,        \* output -> status of its notification
  sendVersion,   \* output -> version named in the metadata of its send Task, 0 for none
  sendStatus,    \* output -> status of its send Task
  worker         \* the harness run: where it stands and what it holds

biliVars == <<clock, authorized, delegation, subscription, readResult, outbox, sendVersion, sendStatus, worker>>

Pending == {"queued", "accepted", "uncertain"}
Version == 1..MaxCheckVersion
NoSubscription ==
  [state |-> "none", version |-> 0, run |-> "completed", output |-> NoOutput,
   outcome |-> "none", receipt |-> NoOutput, checked |-> 0]
Resting == [at |-> "idle", version |-> 0, output |-> NoOutput, outcome |-> "none", next |-> "none"]

BiliInit ==
  /\ clock = 0
  /\ authorized = TRUE
  /\ delegation = "none"
  /\ subscription = NoSubscription
  /\ readResult = [v \in Version |-> NoOutput]
  /\ outbox = [d \in Output |-> "none"]
  /\ sendVersion = [d \in Output |-> 0]
  /\ sendStatus = [d \in Output |-> "none"]
  /\ worker = Resting

-----------------------------------------------------------------------------
(* What the routes and the store compute.                                  *)

DelegationView == IF delegation = "active" /\ clock >= 3 THEN "expired" ELSE delegation
SubscriptionView ==
  IF subscription.state = "active" /\ clock >= 2 THEN "expired" ELSE subscription.state

\* The run state that goes with a next state: only an active row has a next check.
RunFor(state) == IF state = "active" THEN "scheduled" ELSE "completed"
Bumped(s) == [s EXCEPT !.version = @ + 1]

\* validate_sources and resolve_owned_profile, which the routes ask first.
RouteAuthorized == authorized

\* authorize_delegation: the intent is current and covers the operation.
DelegationAllows == DelegationView = "active"

\* Rows a claim at a version may answer with: the replayed claim, or the new one.
ClaimRow(s, expected) ==
  IF s.run = "claimed" /\ s.version \in {expected, expected + 1} THEN {s}
  ELSE {r \in {[Bumped(s) EXCEPT !.run = "claimed"]} :
          s.version = expected /\ s.state = "active" /\ s.run = "scheduled" /\ clock < 2}

\* authorize_subscription_notification: the answer to a send of an output by a run.
SendAnswer(s, version, d) ==
  CASE s.version # version \/ s.run # "claimed" -> "conflict"
    [] s.state # "active" \/ clock >= 2 -> "subscription_inactive"
    [] s.outcome \in Pending -> "outbox_reconciliation_required"
    [] s.outcome = "delivered" /\ s.output = d -> "unchanged_result"
    [] OTHER -> "allowed"

\* Outbox statuses each recorded outcome may stand for.
StatusFor(outcome) ==
  CASE outcome = "queued"    -> {"queued"}
    [] outcome = "accepted"  -> {"leased", "started"}
    [] outcome = "uncertain" -> {"uncertain", "started"}
    [] outcome = "held"      -> {"failed"}
    [] outcome = "delivered" -> {"delivered"}

\* The outbox record and its completed send Task are those of this check.
SendBound(version, d) ==
  outbox[d] # "none" /\ sendVersion[d] = version /\ sendStatus[d] = "completed"

\* The readback Task as the worker creates it, and the operation that can come of
\* it: the store creates none for the producer notification-outbox.
StatusReadback == [parentTaskId |-> "ownerTaskId", trustedProducer |-> "none"]

\* The readback that verify_notification_checkpoint wants of a delivery.
RequiredReadback == [parentTaskId |-> "sendTaskId", trustedProducer |-> "notification-outbox"]

ReadbackVerified(outcome) == outcome = "delivered" => StatusReadback = RequiredReadback

NotificationVerified(version, d, outcome, receipt) ==
  \/ outcome = "none" /\ receipt = NoOutput
  \/ /\ outcome # "none" /\ receipt = d
     /\ SendBound(version, d)
     /\ outbox[d] \in StatusFor(outcome)
     /\ ReadbackVerified(outcome)

\* The verified read operation of the run, under a delegation that is still active.
ReadVerified(version, d) == DelegationAllows /\ readResult[version] = d

\* verify_subscription_check
CheckVerified(s, version, d, outcome, receipt) ==
  /\ s.version = version /\ s.run = "claimed" /\ SubscriptionView = "active"
  /\ ReadVerified(version, d)
  /\ NotificationVerified(version, d, outcome, receipt)

\* The store's own conditions on recording a check.
RecordableRow(s, version, d, receipt) ==
  /\ s.version = version /\ s.state \in {"active", "uncertain"} /\ s.run = "claimed"
  /\ s.outcome \in Pending => receipt = s.receipt
  /\ (s.outcome = "delivered" /\ d = s.output) => receipt = s.receipt

RecordedRow(s, d, outcome, receipt, next) ==
  [Bumped(s) EXCEPT !.output = d, !.outcome = outcome, !.receipt = receipt,
                    !.state = next, !.run = RunFor(next), !.checked = s.version]

\* Outcomes that may follow a pending one.
FollowUps ==
  [queued    |-> {"queued", "accepted", "delivered", "held", "uncertain"},
   accepted  |-> {"accepted", "delivered", "held", "uncertain"},
   uncertain |-> {"uncertain", "accepted", "delivered", "held"}]

\* verify_subscription_notification_reconciliation: the prior check, verified again.
ReconcileVerified(s, version, outcome) ==
  /\ s.version = version /\ s.run = "scheduled" /\ s.checked > 0
  /\ ReadVerified(s.checked, s.output)
  /\ NotificationVerified(s.checked, s.output, outcome, s.receipt)

\* The worker asks for min(expiresAt, now + interval); the store wants it before expiry.
ReconcilableRow(s, version, outcome, next) ==
  /\ s.version = version /\ s.state \in {"active", "uncertain"} /\ s.run = "scheduled"
  /\ s.receipt # NoOutput
  /\ s.outcome \in Pending /\ outcome \in FollowUps[s.outcome]
  /\ next = "active" => clock < 1

ReconciledRow(s, outcome, next) ==
  [Bumped(s) EXCEPT !.outcome = outcome, !.state = next, !.run = RunFor(next)]

-----------------------------------------------------------------------------
(* The owner.                                                              *)

CreateDelegation ==
  /\ delegation = "none" /\ RouteAuthorized
  /\ delegation' = "active"
  /\ UNCHANGED <<clock, authorized, subscription, readResult, outbox, sendVersion, sendStatus, worker>>

RevokedRow(s) ==
  IF s.state \in {"active", "paused", "uncertain"}
  THEN [Bumped(s) EXCEPT !.state = "revoked", !.run = "completed"] ELSE s

RevokeDelegation ==
  /\ delegation = "active"
  /\ subscription.version < MaxCheckVersion
  /\ delegation' = "revoked"
  /\ subscription' = RevokedRow(subscription)
  /\ UNCHANGED <<clock, authorized, readResult, outbox, sendVersion, sendStatus, worker>>

CreateSubscription ==
  /\ subscription.state = "none" /\ RouteAuthorized
  /\ DelegationAllows /\ clock < 2
  /\ subscription' = [NoSubscription EXCEPT !.state = "active", !.version = 1, !.run = "scheduled"]
  /\ UNCHANGED <<clock, authorized, delegation, readResult, outbox, sendVersion, sendStatus, worker>>

\* The store's conditions on pausing, resuming or cancelling.
MayTransition(s, next) ==
  /\ \/ s.state \in {"active", "paused"}
     \/ s.state = "uncertain" /\ next = "cancelled"
  /\ next = "active" => DelegationAllows /\ clock < 2

TransitionedRow(s, next) == [Bumped(s) EXCEPT !.state = next, !.run = RunFor(next)]

TransitionSubscription(next) ==
  /\ subscription.version < MaxCheckVersion
  /\ next = "active" => RouteAuthorized
  /\ MayTransition(subscription, next)
  /\ subscription' = TransitionedRow(subscription, next)
  /\ UNCHANGED <<clock, authorized, delegation, readResult, outbox, sendVersion, sendStatus, worker>>

\* A source is revoked or restored, or the profile changes hands.
Reauthorize ==
  /\ authorized' = ~authorized
  /\ UNCHANGED <<clock, delegation, subscription, readResult, outbox, sendVersion, sendStatus, worker>>

Tick ==
  /\ clock < 3
  /\ clock' = clock + 1
  /\ UNCHANGED <<authorized, delegation, subscription, readResult, outbox, sendVersion, sendStatus, worker>>

\* The delivery side of the outbox, on its own.
OutboxMoves ==
  [none |-> {}, queued |-> {"leased"}, leased |-> {"queued", "started"},
   started |-> {"delivered", "failed", "uncertain"},
   delivered |-> {}, failed |-> {}, uncertain |-> {}]

OutboxMove(d) ==
  /\ \E status \in OutboxMoves[outbox[d]] : outbox' = [outbox EXCEPT ![d] = status]
  /\ UNCHANGED <<clock, authorized, delegation, subscription, readResult, sendVersion, sendStatus, worker>>

-----------------------------------------------------------------------------
(* The worker.                                                             *)

Move(at) == worker' = [worker EXCEPT !.at = at]
WorkerOnly ==
  UNCHANGED <<clock, authorized, delegation, subscription, readResult, outbox, sendVersion, sendStatus>>

\* A worker that reads before it reconciles.
ReadFirst(s) == "claim"

\* A pending notification is looked at before anything new is read.
FirstDuty(s) == IF s.outcome \in {"queued", "accepted"} THEN "reconcile" ELSE "claim"

WorkerStart ==
  /\ worker.at = "idle"
  /\ SubscriptionView = "active" /\ RouteAuthorized /\ DelegationAllows
  /\ LET s == subscription duty == FirstDuty(s) IN
     worker' = [Resting EXCEPT !.at = duty,
                  !.version = IF duty = "claim" /\ s.run = "claimed" THEN s.version - 1 ELSE s.version]
  /\ WorkerOnly

\* The worker gives up a run, by an error answer or with its process.
WorkerStops ==
  /\ worker.at # "idle"
  /\ worker' = Resting
  /\ WorkerOnly

ClaimRoute ==
  /\ worker.at = "claim"
  /\ RouteAuthorized /\ DelegationAllows
  /\ Move("claiming")
  /\ WorkerOnly

ClaimSubscriptionCheck ==
  /\ worker.at = "claiming"
  /\ \E s \in ClaimRow(subscription, worker.version) :
       /\ s.version <= MaxCheckVersion
       /\ subscription' = s
       /\ worker' = [worker EXCEPT !.at = "claimed", !.version = s.version]
  /\ UNCHANGED <<clock, authorized, delegation, readResult, outbox, sendVersion, sendStatus>>

\* The claim is answered only if the delegation did not change meanwhile.
ClaimAnswered ==
  /\ worker.at = "claimed"
  /\ DelegationAllows
  /\ Move("granted")
  /\ WorkerOnly

\* The Task and the operation key of a run are functions of its run key: a run that
\* is replayed meets the result it already has.
SameRun(version, d) == readResult[version] \in {NoOutput, d}

ReadOperation ==
  /\ worker.at = "granted"
  /\ RouteAuthorized /\ DelegationAllows
  /\ \E d \in Output :
       /\ SameRun(worker.version, d)
       /\ readResult' = [readResult EXCEPT ![worker.version] = d]
       /\ worker' = [worker EXCEPT !.at = "observed", !.output = d]
  /\ UNCHANGED <<clock, authorized, delegation, subscription, outbox, sendVersion, sendStatus>>

\* The read is uncertain or failed, or its Task did not complete. The worker asks
\* for an uncertain or a paused row, without the digest that recordSubscriptionCheck
\* of the adapter demands: nothing is recorded and the run ends.
ReadUnverified ==
  /\ worker.at = "granted"
  /\ RouteAuthorized /\ DelegationAllows
  /\ SameRun(worker.version, "unverified")
  /\ readResult' = [readResult EXCEPT ![worker.version] = "unverified"]
  /\ worker' = Resting
  /\ UNCHANGED <<clock, authorized, delegation, subscription, outbox, sendVersion, sendStatus>>

Unchanged ==
  /\ worker.at = "observed"
  /\ worker.output = subscription.output
  /\ Move("record")
  /\ WorkerOnly

\* The first authorization. The send Task keeps the metadata it was created with,
\* and one that has ended is not run again.
Ended(status) == status \in {"completed", "failed"}

AuthorizeNotification ==
  LET d == worker.output IN
  /\ worker.at = "observed"
  /\ d # subscription.output /\ RouteAuthorized
  /\ SendAnswer(subscription, worker.version, d) = "allowed"
  /\ sendVersion' = [sendVersion EXCEPT ![d] = IF @ = 0 THEN worker.version ELSE @]
  /\ sendStatus' = [sendStatus EXCEPT ![d] = IF Ended(@) THEN @ ELSE "running"]
  /\ Move(IF Ended(sendStatus[d]) THEN "sent" ELSE "send")
  /\ UNCHANGED <<clock, authorized, delegation, subscription, readResult, outbox>>

\* The send Task ends and the worker looks for its notification.
SendTaskEnds(status) ==
  /\ sendStatus' = [sendStatus EXCEPT ![worker.output] = status]
  /\ Move("sent")

\* In the send Task: an earlier notification of the output is found, or the
\* delivery is held, or it is authorized once more.
FindPrior ==
  /\ worker.at = "send" /\ outbox[worker.output] # "none"
  /\ SendTaskEnds("completed")
  /\ UNCHANGED <<clock, authorized, delegation, subscription, readResult, outbox, sendVersion>>

HoldNotification ==
  /\ worker.at = "send" /\ outbox[worker.output] = "none"
  /\ RouteAuthorized /\ DelegationAllows
  /\ outbox' = [outbox EXCEPT ![worker.output] = "failed"]
  /\ SendTaskEnds("completed")
  /\ UNCHANGED <<clock, authorized, delegation, subscription, readResult, sendVersion>>

FinalAuthorization ==
  /\ worker.at = "send" /\ outbox[worker.output] = "none"
  /\ RouteAuthorized /\ DelegationAllows
  /\ SendAnswer(subscription, worker.version, worker.output) = "allowed"
  /\ Move("deliver")
  /\ WorkerOnly

\* The notification is enqueued; its answer may be lost, and the Task then fails.
Deliver ==
  /\ worker.at = "deliver"
  /\ outbox' = [outbox EXCEPT ![worker.output] = "queued"]
  /\ \E status \in {"completed", "failed"} : SendTaskEnds(status)
  /\ UNCHANGED <<clock, authorized, delegation, subscription, readResult, sendVersion>>

\* A refusal or an error inside the Task, before anything was enqueued.
SendTaskFails ==
  /\ worker.at \in {"send", "deliver"}
  /\ SendTaskEnds("failed")
  /\ UNCHANGED <<clock, authorized, delegation, subscription, readResult, outbox, sendVersion>>

\* BILI_NOTIFICATION_OUTCOME_UNKNOWN: an open notification is in the way, or the
\* Task left no notification, one that does not match, or a delivery whose status
\* readback does not finish.
OutcomeUnknown(w) ==
  \/ /\ w.at = "observed" /\ w.output # subscription.output
     /\ SendAnswer(subscription, w.version, w.output) = "outbox_reconciliation_required"
  \/ w.at = "sent"

DeliveryUnknown ==
  /\ OutcomeUnknown(worker)
  /\ Move("unknown")
  /\ WorkerOnly

\* The outcome the outbox shows; a delivery is read back by a Task of its own.
OutcomeOf(status) ==
  CASE status = "queued" -> "queued" [] status \in {"leased", "started"} -> "accepted"
    [] status = "uncertain" -> "uncertain" [] status = "failed" -> "held"
    [] status = "delivered" -> "delivered"

ReadReceipt ==
  /\ worker.at = "sent" /\ outbox[worker.output] # "none"
  /\ worker' = [worker EXCEPT !.at = "record", !.outcome = OutcomeOf(outbox[worker.output])]
  /\ WorkerOnly

ReadPending ==
  /\ worker.at = "reconcile"
  /\ subscription.receipt # NoOutput
  /\ worker' = [worker EXCEPT !.at = "reconciling", !.outcome = OutcomeOf(outbox[subscription.receipt])]
  /\ WorkerOnly

NextState(outcome) ==
  CASE outcome = "held" -> "paused" [] outcome = "uncertain" -> "uncertain" [] OTHER -> "active"

\* A send that cannot be found, recorded as a check like any other.
StateCarriesOn(at, outcome) == NextState(outcome)

\* The state the worker asks for: what cannot be found is uncertain.
StateAfter(at, outcome) == IF at = "unknown" THEN "uncertain" ELSE NextState(outcome)

\* The receipt that goes with an outcome.
ReceiptOf(d, outcome) == IF outcome = "none" THEN NoOutput ELSE d

\* The route verifies a check before the store writes it in a transaction of its own.
VerifyCheck ==
  /\ worker.at \in {"record", "unknown"}
  /\ RouteAuthorized
  /\ CheckVerified(subscription, worker.version, worker.output, worker.outcome,
                   ReceiptOf(worker.output, worker.outcome))
  /\ worker' = [worker EXCEPT !.at = "recording", !.next = StateAfter(worker.at, worker.outcome)]
  /\ WorkerOnly

RecordSubscriptionCheck ==
  LET receipt == ReceiptOf(worker.output, worker.outcome) IN
  /\ worker.at = "recording" /\ subscription.version < MaxCheckVersion
  /\ RecordableRow(subscription, worker.version, worker.output, receipt)
  /\ subscription' = RecordedRow(subscription, worker.output, worker.outcome, receipt, worker.next)
  /\ worker' = Resting
  /\ UNCHANGED <<clock, authorized, delegation, readResult, outbox, sendVersion, sendStatus>>

VerifyReconciliation ==
  /\ worker.at = "reconciling"
  /\ RouteAuthorized
  /\ ReconcileVerified(subscription, worker.version, worker.outcome)
  /\ worker' = [worker EXCEPT !.at = "settling", !.next = NextState(worker.outcome)]
  /\ WorkerOnly

ReconcileSubscriptionNotification ==
  /\ worker.at = "settling" /\ subscription.version < MaxCheckVersion
  /\ ReconcilableRow(subscription, worker.version, worker.outcome, worker.next)
  /\ subscription' = ReconciledRow(subscription, worker.outcome, worker.next)
  /\ worker' = Resting
  /\ UNCHANGED <<clock, authorized, delegation, readResult, outbox, sendVersion, sendStatus>>

WorkerNext ==
  \/ WorkerStart \/ WorkerStops
  \/ ClaimRoute \/ ClaimSubscriptionCheck \/ ClaimAnswered \/ ReadOperation \/ ReadUnverified
  \/ Unchanged \/ AuthorizeNotification
  \/ FindPrior \/ HoldNotification \/ FinalAuthorization \/ Deliver \/ SendTaskFails
  \/ DeliveryUnknown
  \/ ReadReceipt \/ ReadPending
  \/ VerifyCheck \/ RecordSubscriptionCheck
  \/ VerifyReconciliation \/ ReconcileSubscriptionNotification

OwnerNext ==
  \/ CreateDelegation \/ RevokeDelegation \/ CreateSubscription
  \/ \E next \in {"active", "paused", "cancelled"} : TransitionSubscription(next)
  \/ Reauthorize \/ Tick
  \/ \E d \in Output : OutboxMove(d)

BiliNext == WorkerNext \/ OwnerNext
BiliSpec == BiliInit /\ [][BiliNext]_biliVars

-----------------------------------------------------------------------------
(* Properties.                                                             *)

\* A claim never covers a notification that is still open. Such a row could be
\* neither recorded nor reconciled: reconcile_subscription_notification wants a
\* scheduled run, and record_subscription_check wants the earlier receipt, which
\* verify_notification_checkpoint binds to the earlier check.  The store's claim
\* does not look at the outcome; the property rests on the worker, which settles
\* an open notification first, and on the version both of them compare.
OpenNoticeIsScheduled ==
  subscription.run = "claimed" => subscription.outcome \notin Pending

\* A row that will be checked again, now or once it is resumed, has put every
\* output it moved past into the outbox: authorization denials, held sends, lost
\* answers, crashes and pauses between the send and its record included.
ChangeWasAnnounced ==
  (subscription.state \in {"active", "paused"} /\ subscription.output # NoOutput)
    => outbox[subscription.output] # "none"

\* What the row says of its notification is what the outbox says: the receipt is of
\* the last output, sent by the very check the row recorded, and a settled outcome
\* is the settled status.
ReceiptOfLastCheck ==
  subscription.receipt # NoOutput =>
    /\ subscription.receipt = subscription.output
    /\ sendVersion[subscription.receipt] = subscription.checked
    /\ subscription.outcome = "delivered" => outbox[subscription.receipt] = "delivered"
    /\ subscription.outcome = "held" => outbox[subscription.receipt] = "failed"

\* What the worker waits for before it reads anything new, and what the tests of the
\* feature show with a store of their own: an open notification that the outbox has
\* delivered can be recorded as delivered, on a row that is active, authorized and
\* early enough, when its send Task completed.
DeliveredNoticeReconciles ==
  LET s == subscription IN
  (/\ s.state = "active" /\ s.run = "scheduled" /\ s.outcome \in {"queued", "accepted"}
   /\ outbox[s.receipt] = "delivered"
   /\ RouteAuthorized /\ DelegationAllows /\ clock < 1)
    => /\ ReconcileVerified(s, s.version, "delivered")
       /\ ReconcilableRow(s, s.version, "delivered", "active")

\* authorize_subscription_notification keeps a second notification from being sent
\* while an earlier one of the subscription is open in the outbox.
OneOpenNotice ==
  Cardinality({d \in Output : outbox[d] \in {"queued", "leased", "started"}}) <= 1
=============================================================================
