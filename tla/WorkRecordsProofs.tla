-------------------------- MODULE WorkRecordsProofs --------------------------
(***************************************************************************)
(* Proofs about the receipts the Work store keeps beside its tasks, for any *)
(* keys, tasks and requests: operations, artifact calls, inventories and    *)
(* workflow receipts.  The components share no state, so each has an        *)
(* inductive invariant of its own.                                          *)
(***************************************************************************)
EXTENDS WorkOperations, ArtifactCalls, SourceInventories, WorkflowReceipts, FiniteSetTheorems, TLAPS

(***************************************************************************)
(* Operations                                                               *)
(*                                                                         *)
(* A dispatch on the wire is the only one of its key, because the receipt   *)
(* was new when it was sent; and what it knows agrees with what happened.   *)
(***************************************************************************)
Dispatch == [key : OpKey, request : Request, stage : {"checked", "sent"}, answer : Answer]

Sent(k) == {d \in dispatches : d.key = k /\ d.stage = "sent"}

\* At most one dispatch of a key is on the wire, and a receipt precedes it.
OneSent ==
  /\ \A d, e \in dispatches : d.stage = "sent" /\ e.stage = "sent" /\ d.key = e.key => d = e
  /\ \A d \in dispatches : d.stage = "checked" => d.answer = "none"
  /\ \A d \in dispatches : d.stage = "sent" => ops[d.key].status # "none"
  /\ \A d \in dispatches :
       d.stage = "sent" /\ Trusted(d.key) => ops[d.key].status \in Unresolved

\* What an answer proves about the effect.
AnswerIsTrue ==
  \A d \in dispatches : d.stage = "sent" =>
    /\ d.answer = "none" => effects[d.key] = 0
    /\ d.answer = "success" => effects[d.key] = 1
    /\ d.answer \in {"rejection", "clientError", "notSent"} => effects[d.key] = 0

\* A receipt that was never started, or that the route closed, has nothing on the wire.
Quiet ==
  \A k \in OpKey :
    /\ ops[k].status = "none" => effects[k] = 0 /\ ops[k].outcome = "none"
    /\ ops[k].outcome \in {"SUCCEEDED", "REJECTED"} =>
         \A d \in dispatches : d.key = k => d.stage # "sent"

OpInv ==
  /\ OperationTypeOK /\ OneSent /\ AnswerIsTrue /\ Quiet
  /\ EffectOncePerKey /\ OutcomeIsProven /\ TrustedDispatchAlone

\* Nothing has been requested yet.
LEMMA OpInitially == OperationInit => OpInv
  BY DEF OperationInit, OpInv, OperationTypeOK, OneSent, AnswerIsTrue, Quiet, EffectOncePerKey,
         OutcomeIsProven, TrustedDispatchAlone, OpStatus, Outcome

\* A request passes its first checks; nothing is sent.
LEMMA BeginStep ==
  ASSUME OpInv, NEW k \in OpKey, NEW r \in Request, BeginDispatch(k, r)
  PROVE  OpInv'
  BY DEF OpInv, BeginDispatch, OperationTypeOK, OneSent, AnswerIsTrue, Quiet, EffectOncePerKey,
         OutcomeIsProven, TrustedDispatchAlone, Answer, Trusted

\* A dispatch leaves: its receipt is new and nothing unresolved holds its locks.
LEMMA CreateStep ==
  ASSUME OpInv, NEW d \in dispatches, CreateOperation(d)
  PROVE  OpInv'
<1> USE DEF OpInv
<1>1. d \in Dispatch /\ d.key \in OpKey /\ d.stage = "checked" /\ d.answer = "none"
  BY DEF OperationTypeOK, Dispatch, OneSent, CreateOperation
<1>2. PICK sent \in Dispatch :
        /\ sent.key = d.key /\ sent.stage = "sent" /\ sent.answer = "none"
        /\ dispatches' = (dispatches \ {d}) \cup {sent}
  BY <1>1 DEF CreateOperation, Dispatch, Answer
<1>3. ops[d.key].status = "none" /\ Blockers(d.key) = {}
  BY DEF CreateOperation, NewIntent, Admissible
<1>4. /\ ops' = [ops EXCEPT ![d.key].status = "started"]
      /\ UNCHANGED <<opTasks, effects, skillReceipts>>
  BY DEF CreateOperation
<1>5. OperationTypeOK'
  BY <1>1, <1>2, <1>4 DEF OperationTypeOK, OpStatus, Dispatch
<1>6. \A k \in OpKey : ops'[k].status = IF k = d.key THEN "started" ELSE ops[k].status
  BY <1>1, <1>4 DEF OperationTypeOK
<1>7. \A k \in OpKey : ops'[k].outcome = ops[k].outcome
  BY <1>1, <1>4 DEF OperationTypeOK
<1>8. \A e \in dispatches : e.key \in OpKey
  BY DEF OperationTypeOK
<1>9. OneSent'
  BY <1>1, <1>2, <1>3, <1>4, <1>6, <1>8 DEF OneSent, Unresolved, Trusted
<1>10. AnswerIsTrue'
  BY <1>1, <1>2, <1>3, <1>4 DEF AnswerIsTrue, Quiet
<1>11. Quiet'
  BY <1>1, <1>2, <1>3, <1>4, <1>6, <1>7 DEF Quiet
<1>12. EffectOncePerKey' /\ OutcomeIsProven'
  BY <1>4, <1>7 DEF EffectOncePerKey, OutcomeIsProven
<1>13. TrustedDispatchAlone'
  <2>1. ASSUME NEW e \in dispatches, e.stage = "sent", Trusted(e.key), e.key # d.key
        PROVE  OpInfo[d.key].locks \cap OpInfo[e.key].locks = {}
    BY <1>3, <1>8, <2>1 DEF OneSent, Blockers
  <2> QED
    BY <1>2, <1>4, <2>1 DEF TrustedDispatchAlone, Trusted
<1> QED
  BY <1>5, <1>9, <1>10, <1>11, <1>12, <1>13

\* The Exchange performs or declines what is on the wire, once, and answers or not.
LEMMA ExchangeStep ==
  ASSUME OpInv, NEW d \in dispatches, ExchangePerforms(d) \/ ExchangeDeclines(d)
  PROVE  OpInv'
<1> USE DEF OpInv
<1>1. /\ d \in Dispatch /\ d.key \in OpKey /\ d.stage = "sent" /\ d.answer = "none"
      /\ effects[d.key] = 0 /\ effects \in [OpKey -> Nat]
  BY DEF OperationTypeOK, Dispatch, AnswerIsTrue, ExchangePerforms, ExchangeDeclines
<1>2. UNCHANGED <<ops, opTasks, skillReceipts>>
  BY DEF ExchangePerforms, ExchangeDeclines
<1>3. PICK heard \in Dispatch :
        /\ heard.key = d.key /\ heard.stage = "sent"
        /\ dispatches' = (dispatches \ {d}) \cup {heard}
        /\ \/ heard.answer \in {"success", "unknown"} /\ effects' = [effects EXCEPT ![d.key] = @ + 1]
           \/ /\ heard.answer \in {"rejection", "clientError", "notSent", "unknown"}
              /\ effects' = effects
  <2>1. PICK answer \in Answer \ {"none"} :
          /\ dispatches' = (dispatches \ {d}) \cup {[d EXCEPT !.answer = answer]}
          /\ \/ answer \in {"success", "unknown"} /\ effects' = [effects EXCEPT ![d.key] = @ + 1]
             \/ /\ answer \in {"rejection", "clientError", "notSent", "unknown"}
                /\ effects' = effects
    BY DEF ExchangePerforms, ExchangeDeclines, Answer
  <2> DEFINE heard == [d EXCEPT !.answer = answer]
  <2>2. heard \in Dispatch /\ heard.key = d.key /\ heard.stage = "sent" /\ heard.answer = answer
    BY <1>1 DEF Dispatch
  <2> QED
    BY <2>1, <2>2
<1>4. /\ effects' \in [OpKey -> Nat] /\ \A k \in OpKey \ {d.key} : effects'[k] = effects[k]
      /\ effects'[d.key] <= 1
      /\ heard.answer = "success" => effects'[d.key] = 1
      /\ heard.answer \in {"rejection", "clientError", "notSent"} => effects'[d.key] = 0
  BY <1>1, <1>3
<1>5. OperationTypeOK'
  BY <1>2, <1>3, <1>4 DEF OperationTypeOK, Dispatch
<1>6. OneSent'
  BY <1>1, <1>2, <1>3 DEF OneSent
<1>7. \A e \in dispatches \ {d} : e.stage = "sent" => e.key \in OpKey \ {d.key}
  BY <1>1 DEF OneSent, OperationTypeOK
<1>8. AnswerIsTrue'
  BY <1>3, <1>4, <1>7 DEF AnswerIsTrue
<1>9. ops[d.key].status # "none" /\ ops[d.key].outcome \notin {"SUCCEEDED", "REJECTED"}
  BY <1>1 DEF OneSent, Quiet
<1>10. Quiet'
  BY <1>2, <1>3, <1>4, <1>9 DEF Quiet
<1>11. EffectOncePerKey' /\ OutcomeIsProven'
  BY <1>2, <1>4, <1>9 DEF EffectOncePerKey, OutcomeIsProven
<1>12. TrustedDispatchAlone'
  BY <1>1, <1>3 DEF TrustedDispatchAlone, Trusted
<1> QED
  BY <1>5, <1>6, <1>8, <1>10, <1>11, <1>12

\* A dispatch that ends without writing takes nothing with it.
LEMMA EndStep ==
  ASSUME OpInv, NEW d \in dispatches, EndDispatch(d)
  PROVE  OpInv'
  BY DEF OpInv, EndDispatch, OperationTypeOK, OneSent, AnswerIsTrue, Quiet, EffectOncePerKey,
         OutcomeIsProven, TrustedDispatchAlone, Trusted

\* The route writes what the answer proves, and is gone.
LEMMA OutcomeStep ==
  ASSUME OpInv, NEW d \in dispatches, RecordOutcome(d)
  PROVE  OpInv'
<1> USE DEF OpInv
<1>1. d \in Dispatch /\ d.key \in OpKey /\ d.stage = "sent" /\ d.answer # "none"
  BY DEF OperationTypeOK, Dispatch, OneSent, RecordOutcome
<1>2. PICK evidence \in Evidence(d.key, d.answer) : ops' = [ops EXCEPT ![d.key] = evidence]
  BY DEF RecordOutcome
<1>3. dispatches' = dispatches \ {d} /\ UNCHANGED <<opTasks, effects, skillReceipts>>
  BY DEF RecordOutcome
<1>11. /\ evidence \in [status : OpStatus, outcome : Outcome]
       /\ evidence.status \in {"verified", "uncertain"}
       /\ evidence.outcome = "SUCCEEDED" => d.answer = "success"
       /\ evidence.outcome = "REJECTED" => d.answer \in {"rejection", "clientError", "notSent"}
       /\ evidence.outcome = "READ_FAILED" => OpInfo[d.key].effect = "read"
  <2>1. CASE OpInfo[d.key].effect = "write"
    BY <1>1, <1>2, <2>1 DEF Evidence, WriteEvidence, OpStatus, Outcome
  <2>2. CASE OpInfo[d.key].effect = "read"
    BY <1>1, <1>2, <2>2 DEF Evidence, ReadEvidence, WriteEvidence, OpStatus, Outcome
  <2> QED
    BY <1>1, <2>1, <2>2, OperationAssumption
<1>4. OperationTypeOK'
  BY <1>1, <1>2, <1>3, <1>11 DEF OperationTypeOK
<1>5. ops'[d.key] = evidence /\ \A k \in OpKey \ {d.key} : ops'[k] = ops[k]
  BY <1>1, <1>2, <1>3 DEF OperationTypeOK
<1>6. \A e \in dispatches' : e.stage = "sent" => e.key \in OpKey \ {d.key}
  BY <1>1, <1>3 DEF OneSent, OperationTypeOK
<1>7. OneSent'
  BY <1>3, <1>5, <1>6 DEF OneSent, Trusted
<1>8. AnswerIsTrue' /\ EffectOncePerKey' /\ TrustedDispatchAlone'
  BY <1>3 DEF AnswerIsTrue, EffectOncePerKey, TrustedDispatchAlone, Trusted
<1>9. Quiet'
  BY <1>11, <1>3, <1>5, <1>6 DEF Quiet
<1>10. OutcomeIsProven'
  BY <1>1, <1>11, <1>3, <1>5 DEF OutcomeIsProven, AnswerIsTrue
<1> QED
  BY <1>4, <1>7, <1>8, <1>9, <1>10

\* A client patches a generic receipt: the dispatches of the key go on, and so do their
\* effects.
LEMMA PatchStep ==
  ASSUME OpInv, NEW k \in OpKey, NEW status \in OpStatus, PatchOperation(k, status)
  PROVE  OpInv'
<1> USE DEF OpInv
<1>1. /\ ~Trusted(k) /\ ops[k].status # "none" /\ status \in {"uncertain", "verified"}
      /\ ops' = [ops EXCEPT ![k] = [status |-> status, outcome |-> "PATCHED"]]
      /\ UNCHANGED <<opTasks, dispatches, effects, skillReceipts>>
  BY DEF PatchOperation, Forward
<1>2. ops'[k].outcome = "PATCHED" /\ ops'[k].status = status
  BY <1>1 DEF OperationTypeOK
<1>3. \A j \in OpKey \ {k} : ops'[j] = ops[j]
  BY <1>1 DEF OperationTypeOK
<1>4. OperationTypeOK'
  BY <1>1 DEF OperationTypeOK, Outcome
<1>5. \A d \in dispatches : d.key \in OpKey
  BY DEF OperationTypeOK
<1>6. OneSent'
  BY <1>1, <1>2, <1>3, <1>5 DEF OneSent, Trusted
<1>7. Quiet' /\ OutcomeIsProven'
  BY <1>1, <1>2, <1>3 DEF Quiet, OutcomeIsProven
<1>8. AnswerIsTrue' /\ EffectOncePerKey' /\ TrustedDispatchAlone'
  BY <1>1 DEF AnswerIsTrue, EffectOncePerKey, TrustedDispatchAlone, Trusted
<1> QED
  BY <1>4, <1>6, <1>7, <1>8

\* A web.open receipt starts where there was none; it is sent by no dispatch.
LEMMA WebOpenStep ==
  ASSUME OpInv, NEW t \in OpTask, NEW k \in OpKey, RecordWebOpen(t, k)
  PROVE  OpInv'
<1> USE DEF OpInv
<1>1. /\ ops[k].status = "none" /\ ops' = [ops EXCEPT ![k].status = "started"]
      /\ UNCHANGED <<opTasks, dispatches, effects, skillReceipts>>
  BY DEF RecordWebOpen, Admissible
<1>2. \A j \in OpKey : /\ ops'[j].status = IF j = k THEN "started" ELSE ops[j].status
                       /\ ops'[j].outcome = ops[j].outcome
  BY <1>1 DEF OperationTypeOK
<1>3. OperationTypeOK'
  BY <1>1 DEF OperationTypeOK, OpStatus
<1>4. \A d \in dispatches : d.key \in OpKey
  BY DEF OperationTypeOK
<1>5. OneSent'
  BY <1>1, <1>2, <1>4 DEF OneSent, Trusted, Unresolved
<1>6. Quiet' /\ OutcomeIsProven'
  BY <1>1, <1>2 DEF Quiet, OutcomeIsProven
<1>7. AnswerIsTrue' /\ EffectOncePerKey' /\ TrustedDispatchAlone'
  BY <1>1 DEF AnswerIsTrue, EffectOncePerKey, TrustedDispatchAlone, Trusted
<1> QED
  BY <1>3, <1>5, <1>6, <1>7

\* The end of a task and the receipts of skill tasks touch neither receipts nor dispatches.
LEMMA BesideStep ==
  ASSUME OpInv, OperationTypeOK', UNCHANGED <<ops, dispatches, effects>>
  PROVE  OpInv'
  BY DEF OpInv, OneSent, AnswerIsTrue, Quiet, EffectOncePerKey, OutcomeIsProven,
         TrustedDispatchAlone, Trusted

\* The steps beside the dispatches keep the types.
LEMMA BesideTypes ==
  ASSUME OperationTypeOK,
         \/ \E t \in OpTask, status \in {"completed", "failed"} : EndOpTask(t, status)
         \/ \E a \in Action, effect, readback \in OpKey : CreateReadbackReceipt(a, effect, readback)
         \/ \E a \in Action, effect \in OpKey : CreateVerifyReceipt(a, effect)
  PROVE  OperationTypeOK' /\ UNCHANGED <<ops, dispatches, effects>>
<1>1. ASSUME NEW t \in OpTask, NEW status \in {"completed", "failed"}, EndOpTask(t, status)
      PROVE  OperationTypeOK' /\ UNCHANGED <<ops, dispatches, effects>>
  BY <1>1 DEF EndOpTask, OperationTypeOK
<1>2. ASSUME NEW a \in Action, NEW effect \in OpKey, NEW readback \in OpKey,
             CreateReadbackReceipt(a, effect, readback)
      PROVE  OperationTypeOK' /\ UNCHANGED <<ops, dispatches, effects>>
  BY <1>2, OperationAssumption DEF CreateReadbackReceipt, OperationTypeOK
<1>3. ASSUME NEW a \in Action, NEW effect \in OpKey, CreateVerifyReceipt(a, effect)
      PROVE  OperationTypeOK' /\ UNCHANGED <<ops, dispatches, effects>>
  BY <1>3, OperationAssumption DEF CreateVerifyReceipt, OperationTypeOK
<1> QED
  BY <1>1, <1>2, <1>3

\* The invariant of the receipts and their dispatches.
THEOREM OperationInvariant == OperationSpec => []OpInv
<1>1. ASSUME OpInv, [DispatchNext \/ SkillNext]_opVars PROVE OpInv'
  <2>1. CASE DispatchNext
    BY <1>1, <2>1, BeginStep, CreateStep, ExchangeStep, OutcomeStep, EndStep, PatchStep, BesideStep,
       BesideTypes DEF DispatchNext, OpInv
  <2>2. CASE SkillNext
    BY <1>1, <2>2, WebOpenStep, PatchStep, BesideStep, BesideTypes DEF SkillNext, OpInv
  <2>3. CASE UNCHANGED opVars
    BY <1>1, <2>3, BesideStep DEF opVars, OpInv, OperationTypeOK
  <2> QED
    BY <1>1, <2>1, <2>2, <2>3
<1> QED
  BY OpInitially, <1>1, PTL DEF OperationSpec

\* Receipts, dispatches and skill receipts stay well formed.
THEOREM OperationTypes == OperationSpec => []OperationTypeOK
  BY OperationInvariant, PTL DEF OpInv

\* The Exchange performs a key at most once, whatever is repeated, raced or lost.
THEOREM OperationEffectOnce == OperationSpec => []EffectOncePerKey
  BY OperationInvariant, PTL DEF OpInv

\* A receipt closed as SUCCEEDED had its effect, one closed as REJECTED had none.
THEOREM OperationOutcomeProven == OperationSpec => []OutcomeIsProven
  BY OperationInvariant, PTL DEF OpInv

\* Task-bound dispatches that share a lock are never both on the wire.
THEOREM OperationTrustedAlone == OperationSpec => []TrustedDispatchAlone
  BY OperationInvariant, PTL DEF OpInv

-----------------------------------------------------------------------------
(* Receipts of skill tasks rest on facts that no later step takes back: a   *)
(* completed task stays completed and a verified receipt stays verified.    *)

\* What a readback receipt and a verify receipt rest on.
SkillRests ==
  \A r \in skillReceipts :
    /\ r.phase = "readback" =>
         /\ r.task = ActionInfo[r.action].readback
         /\ opTasks[r.task] = "completed"
         /\ \E k \in OpKey \ {r.effect} : SkillEffect(r.task, k)
    /\ r.phase = "verify" =>
         /\ r.task = ActionInfo[r.action].task
         /\ \E b \in skillReceipts : /\ b.phase = "readback" /\ b.action = r.action
                                     /\ b.effect = r.effect /\ b.task # r.task

\* A verified receipt and the end of a task are final.
LEMMA FinalStays ==
  ASSUME OpInv, [DispatchNext \/ SkillNext]_opVars
  PROVE  /\ \A k \in OpKey : ops[k].status = "verified" => ops'[k] = ops[k]
         /\ \A t \in OpTask : opTasks[t] = "completed" => opTasks'[t] = "completed"
<1> USE DEF OpInv, OperationTypeOK
<1>1. ASSUME NEW k \in OpKey, NEW r \in Request, BeginDispatch(k, r)
      PROVE  UNCHANGED <<ops, opTasks>>
  BY <1>1 DEF BeginDispatch
<1>2. ASSUME NEW d \in dispatches,
             ExchangePerforms(d) \/ ExchangeDeclines(d) \/ EndDispatch(d)
      PROVE  UNCHANGED <<ops, opTasks>>
  BY <1>2 DEF ExchangePerforms, ExchangeDeclines, EndDispatch
<1>3. ASSUME NEW d \in dispatches, CreateOperation(d)
      PROVE  opTasks' = opTasks /\ \A k \in OpKey : ops[k].status = "verified" => ops'[k] = ops[k]
  BY <1>3 DEF CreateOperation, NewIntent, Admissible
<1>4. ASSUME NEW d \in dispatches, RecordOutcome(d)
      PROVE  opTasks' = opTasks /\ \A k \in OpKey : ops[k].status = "verified" => ops'[k] = ops[k]
  BY <1>4 DEF RecordOutcome, Forward
<1>5. ASSUME NEW k \in OpKey, NEW status \in OpStatus, PatchOperation(k, status)
      PROVE  opTasks' = opTasks /\ \A j \in OpKey : ops[j].status = "verified" => ops'[j] = ops[j]
  BY <1>5 DEF PatchOperation, Forward
<1>6. ASSUME NEW t \in OpTask, NEW status \in {"completed", "failed"}, EndOpTask(t, status)
      PROVE  ops' = ops /\ \A u \in OpTask : opTasks[u] = "completed" => opTasks'[u] = "completed"
  BY <1>6 DEF EndOpTask
<1>7. ASSUME NEW t \in OpTask, NEW k \in OpKey, RecordWebOpen(t, k)
      PROVE  opTasks' = opTasks /\ \A j \in OpKey : ops[j].status = "verified" => ops'[j] = ops[j]
  BY <1>7 DEF RecordWebOpen, Admissible
<1>8. ASSUME NEW a \in Action, NEW effect \in OpKey, NEW readback \in OpKey,
             CreateReadbackReceipt(a, effect, readback) \/ CreateVerifyReceipt(a, effect)
      PROVE  UNCHANGED <<ops, opTasks>>
  BY <1>8 DEF CreateReadbackReceipt, CreateVerifyReceipt
<1>9. CASE UNCHANGED opVars
  BY <1>9 DEF opVars
<1> QED
  BY <1>1, <1>2, <1>3, <1>4, <1>5, <1>6, <1>7, <1>8, <1>9 DEF DispatchNext, SkillNext

\* A verified action rests on an effect and a readback, and no step takes them away.
LEMMA SkillStep ==
  ASSUME OpInv, SkillRests, [DispatchNext \/ SkillNext]_opVars
  PROVE  SkillRests'
<1> USE DEF OpInv
<1>1. \A t \in OpTask, k \in OpKey : SkillEffect(t, k) => SkillEffect(t, k)'
  BY FinalStays, OperationAssumption DEF SkillEffect
<1>2. \A r \in skillReceipts : r.task \in OpTask /\ r.effect \in OpKey /\ r.action \in Action
  BY DEF OperationTypeOK
<1>3. CASE skillReceipts' = skillReceipts
  BY <1>1, <1>2, <1>3, FinalStays DEF SkillRests
<1>4. ASSUME NEW a \in Action, NEW effect \in OpKey, NEW readback \in OpKey,
             CreateReadbackReceipt(a, effect, readback)
      PROVE  SkillRests'
  <2> DEFINE new == [phase |-> "readback", task |-> ActionInfo[a].readback, action |-> a,
                     effect |-> effect]
  <2>1. skillReceipts' = skillReceipts \cup {new}
    BY <1>4 DEF CreateReadbackReceipt
  <2>2. /\ ActionInfo[a].readback \in OpTask /\ opTasks[ActionInfo[a].readback] = "completed"
        /\ SkillEffect(ActionInfo[a].readback, readback) /\ readback # effect
    BY <1>4, OperationAssumption DEF CreateReadbackReceipt, ReadbackVerified
  <2>3. /\ new.task = ActionInfo[new.action].readback /\ new.phase = "readback"
        /\ opTasks'[new.task] = "completed"
        /\ \E k \in OpKey \ {new.effect} : SkillEffect(new.task, k)'
    BY <1>1, <2>2, FinalStays
  <2> HIDE DEF new
  <2> QED
    BY <1>1, <1>2, <2>1, <2>3, FinalStays DEF SkillRests
<1>5. ASSUME NEW a \in Action, NEW effect \in OpKey, CreateVerifyReceipt(a, effect)
      PROVE  SkillRests'
  <2> DEFINE new == [phase |-> "verify", task |-> ActionInfo[a].task, action |-> a,
                     effect |-> effect]
  <2>1. skillReceipts' = skillReceipts \cup {new}
    BY <1>5 DEF CreateVerifyReceipt
  <2>2. /\ new.task = ActionInfo[new.action].task /\ new.phase = "verify"
        /\ \E b \in skillReceipts : /\ b.phase = "readback" /\ b.action = new.action
                                     /\ b.effect = new.effect /\ b.task # new.task
    BY <1>5 DEF CreateVerifyReceipt, IndependentReadback
  <2> HIDE DEF new
  <2> QED
    BY <1>1, <1>2, <2>1, <2>2, FinalStays DEF SkillRests
<1>6. \/ skillReceipts' = skillReceipts
      \/ \E a \in Action, effect, readback \in OpKey : CreateReadbackReceipt(a, effect, readback)
      \/ \E a \in Action, effect \in OpKey : CreateVerifyReceipt(a, effect)
  BY DEF DispatchNext, SkillNext, opVars, BeginDispatch, CreateOperation, ExchangePerforms,
         ExchangeDeclines, RecordOutcome, EndDispatch, PatchOperation, EndOpTask, RecordWebOpen
<1> QED
  BY <1>3, <1>4, <1>5, <1>6

\* A skill is verified only where another task, completed before, opened the page under
\* an operation of its own.
THEOREM OperationSkillVerified == OperationSpec => []SkillVerifiedIndependently
<1>1. OperationInit => SkillRests
  BY DEF OperationInit, SkillRests
<1>2. OpInv /\ SkillRests => SkillVerifiedIndependently
  BY DEF SkillRests, SkillVerifiedIndependently, OpInv, OperationTypeOK
<1>3. OpInv /\ SkillRests /\ [DispatchNext \/ SkillNext]_opVars => SkillRests'
  BY SkillStep
<1> QED
  BY OperationInvariant, <1>1, <1>2, <1>3, PTL DEF OperationSpec

\* Whatever is repeated or patched, a verified receipt and a completed task stay as they
\* are (update_operation moves receipts forward only).
THEOREM OperationFinal ==
  OperationSpec => [][/\ \A k \in OpKey : ops[k].status = "verified" => ops'[k] = ops[k]
                      /\ \A t \in OpTask : opTasks[t] = "completed" => opTasks'[t] = "completed"]_opVars
<1>1. OpInv /\ [DispatchNext \/ SkillNext]_opVars =>
        [/\ \A k \in OpKey : ops[k].status = "verified" => ops'[k] = ops[k]
         /\ \A t \in OpTask : opTasks[t] = "completed" => opTasks'[t] = "completed"]_opVars
  BY FinalStays
<1> QED
  BY OperationInvariant, <1>1, PTL DEF OperationSpec

(***************************************************************************)
(* Artifact calls                                                           *)
(*                                                                         *)
(* Outputs only grow and are only what a write of the call stored, so the   *)
(* assertion the host makes stays true while it publishes; and the registry *)
(* loses an entry only to its own host, its own task or its own expiry.     *)
(***************************************************************************)
HostStage == {"new", "opened", "registered", "rejected", "returned", "asserted", "confirmed",
              "published", "unknown", "closed", "failed"}
HostRecord == [at : HostStage, request : RequestId \cup {NoCall}, kind : {"none", "operation", "task"},
               mode : {"none", "read", "write"}, digest : ArtifactDigest \cup {NoDigest}]
EntryRecord == [revoked : BOOLEAN, outputs : SUBSET ArtifactDigest, pending : SUBSET Writing]
WriteStage == {"idle", "reading", "read", "failed", "authorized", "reserved", "checked", "stored",
               "recorded"}
WriteRecord == [at : WriteStage, call : Call \cup {NoCall}, digest : ArtifactDigest \cup {NoDigest}]

ArtifactTypeOK ==
  /\ host \in [Call -> HostRecord]
  /\ anchor \in [Call -> {"none", "live", "ended"}]
  /\ entry \in [Call -> EntryRecord]
  /\ calls \in [RequestId -> Call \cup {NoCall}]
  /\ lapsed \subseteq Call
  /\ sources \in BOOLEAN
  /\ writing \in [Writing -> WriteRecord]
  /\ shelf \subseteq ArtifactDigest
  /\ \A c \in Call : IF host[c].at = "new" THEN host[c].kind = "none" ELSE host[c].request \in RequestId
  /\ \A w \in Writing : writing[w].at # "idle" =>
       writing[w].call \in Call /\ writing[w].digest \in ArtifactDigest

\* The registry starts well typed.
LEMMA ArtifactInitTypes == ArtifactInit => ArtifactTypeOK
  BY DEF ArtifactInit, ArtifactTypeOK, NewHost, NewEntry, NewWriting, HostStage, HostRecord, EntryRecord,
         WriteStage, WriteRecord

\* The registry without its revoked and lapsed entries.
LEMMA PurgedTypes ==
  ASSUME ArtifactTypeOK
  PROVE  /\ Purged(calls) \in [RequestId -> Call \cup {NoCall}]
         /\ \A r \in RequestId : Purged(calls)[r] = calls[r] \/ Purged(calls)[r] = NoCall
         /\ \A r \in RequestId : calls[r] \in Call /\ calls[r] \notin lapsed /\ ~entry[calls[r]].revoked
              => Purged(calls)[r] = calls[r]
  BY ArtifactAssumption DEF ArtifactTypeOK, Purged, Dropped

\* A host moves on: its call keeps its request, anchor kind, mode and digest.
LEMMA HostMoves ==
  ASSUME ArtifactTypeOK, NEW c \in Call, NEW at \in HostStage, HostAt(c, at)
  PROVE  /\ host' \in [Call -> HostRecord]
         /\ \A b \in Call \ {c} : host'[b] = host[b]
         /\ host'[c].at = at
         /\ \A b \in Call : /\ host'[b].request = host[b].request /\ host'[b].kind = host[b].kind
                            /\ host'[b].mode = host[b].mode /\ host'[b].digest = host[b].digest
  BY DEF ArtifactTypeOK, HostAt, HostRecord

\* A write request moves on with its call and its digest.
LEMMA WriteMoves ==
  ASSUME ArtifactTypeOK, NEW w \in Writing, NEW at \in WriteStage, Moves(w, at)
  PROVE  /\ writing' \in [Writing -> WriteRecord]
         /\ \A v \in Writing \ {w} : writing'[v] = writing[v]
         /\ writing'[w] = [at |-> at, call |-> writing[w].call, digest |-> writing[w].digest]
         /\ writing'[w].at = at
         /\ \A v \in Writing : writing'[v].call = writing[v].call /\ writing'[v].digest = writing[v].digest
  BY DEF ArtifactTypeOK, Moves, WriteRecord

\* A write that moves on stays a write.
LEMMA WriteStaysTyped ==
  ASSUME ArtifactTypeOK, NEW w \in Writing, writing[w].at # "idle",
         NEW at \in WriteStage, Moves(w, at)
  PROVE  /\ writing' \in [Writing -> WriteRecord]
         /\ \A v \in Writing : writing'[v].at # "idle" =>
              writing'[v].call \in Call /\ writing'[v].digest \in ArtifactDigest
<1>1. \A v \in Writing : writing'[v].at # "idle" => writing[v].at # "idle"
  BY WriteMoves, ZenonT(60)
<1>2. \A v \in Writing : writing[v].at # "idle" =>
        writing[v].call \in Call /\ writing[v].digest \in ArtifactDigest
  BY DEF ArtifactTypeOK
<1> QED
  BY <1>1, <1>2, WriteMoves

\* The entry of one call changes.
LEMMA EntryChanges ==
  ASSUME ArtifactTypeOK, NEW c \in Call, NEW e \in EntryRecord, entry' = [entry EXCEPT ![c] = e]
  PROVE  entry' \in [Call -> EntryRecord] /\ entry'[c] = e /\ \A b \in Call \ {c} : entry'[b] = entry[b]
  BY DEF ArtifactTypeOK

\* The ways an entry changes.
LEMMA EntryForms ==
  ASSUME NEW e \in EntryRecord, NEW w \in Writing, NEW d \in ArtifactDigest
  PROVE  /\ [e EXCEPT !.revoked = TRUE] \in EntryRecord
         /\ [e EXCEPT !.pending = @ \union {w}] \in EntryRecord
         /\ [e EXCEPT !.pending = @ \ {w}] \in EntryRecord
         /\ OutputRecorded(e, w, d) \in EntryRecord
  BY DEF EntryRecord, OutputRecorded

\* Every step of host, plugin and registry keeps the types.
LEMMA ArtifactTypeStep ==
  ASSUME ArtifactTypeOK, [ArtifactNext]_artifactVars
  PROVE  ArtifactTypeOK'
<1> USE DEF ArtifactTypeOK
<1>1. ASSUME NEW c \in Call, NEW r \in RequestId, NEW mode \in {"read", "write"},
             OpenOperation(c, r, mode) \/ OpenTaskCall(c, r)
      PROVE  ArtifactTypeOK'
  <2>1. PICK new \in HostRecord : new.at # "new" /\ new.request = r /\ host' = [host EXCEPT ![c] = new]
    <3>1. CASE OpenOperation(c, r, mode)
      BY <3>1, ZenonT(60) DEF OpenOperation, HostRecord, HostStage
    <3>2. CASE OpenTaskCall(c, r)
      BY <3>2, ZenonT(60) DEF OpenTaskCall, HostRecord, HostStage
    <3> QED
      BY <1>1, <3>1, <3>2
  <2> QED
    BY <1>1, <2>1 DEF OpenOperation, OpenTaskCall, HostOnly
<1>2. ASSUME NEW c \in Call, Register(c) PROVE ArtifactTypeOK'
  BY <1>2, PurgedTypes, HostMoves DEF Register, HostOnly, HostStage
<1>3. ASSUME NEW c \in Call, RegisterRefused(c) PROVE ArtifactTypeOK'
  BY <1>3, PurgedTypes, HostMoves DEF RegisterRefused, Settled, HostOnly, HostStage
<1>4. ASSUME NEW c \in Call, NEW d \in ArtifactDigest, ProviderReturns(c, d) PROVE ArtifactTypeOK'
  BY <1>4, ZenonT(60) DEF ProviderReturns, HostOnly, HostRecord, HostStage
<1>5. ASSUME NEW c \in Call, AssertOutput(c) \/ AssertCallCurrent(c) PROVE ArtifactTypeOK'
  BY <1>5, HostMoves DEF AssertOutput, AssertCallCurrent, HostOnly, HostStage
<1>6. ASSUME NEW c \in Call, Publish(c) \/ CallFails(c) PROVE ArtifactTypeOK'
  BY <1>6, HostMoves, SMTT(40) DEF Publish, CallFails, Settled, HostOnly, HostStage
<1>7. ASSUME NEW c \in Call, Close(c) PROVE ArtifactTypeOK'
  <2>1. host[c].request \in RequestId
    BY <1>7 DEF Close
  <2>2. entry' \in [Call -> EntryRecord] /\ calls' \in [RequestId -> Call \cup {NoCall}]
    BY <1>7, <2>1, ZenonT(60) DEF Close, Revokes, EntryRecord
  <2> QED
    BY <1>7, <2>2, HostMoves DEF Close, HostOnly, HostStage
<1>8. ASSUME NEW c \in Call, TaskEnds(c) \/ RevokeTaskCalls(c) \/ Lapse(c) PROVE ArtifactTypeOK'
  <2>1. CASE RevokeTaskCalls(c)
    BY <2>1 DEF RevokeTaskCalls, HostOnly, EntryRecord
  <2> QED
    BY <1>8, <2>1 DEF TaskEnds, Lapse, HostOnly
<1>9. ASSUME NEW w \in Writing, NEW c \in Call, NEW d \in ArtifactDigest,
             AuthorizeRead(w, c, d) \/ AuthorizeWrite(w, c, d)
      PROVE  ArtifactTypeOK'
  <2>1. PICK new \in WriteRecord :
          new.call = c /\ new.digest = d /\ writing' = [writing EXCEPT ![w] = new]
    BY <1>9 DEF AuthorizeRead, AuthorizeWrite, WriteRecord, WriteStage
  <2> QED
    BY <1>9, <2>1, PurgedTypes DEF AuthorizeRead, AuthorizeWrite, BridgeOnly
<1>10. ASSUME NEW w \in Writing, ReadArtifact(w) \/ WriteArtifact(w) \/ PutAttachment(w)
       PROVE  ArtifactTypeOK'
  <2>1. writing[w].at # "idle" /\ \E at \in WriteStage : Moves(w, at)
    BY <1>10 DEF ReadArtifact, WriteArtifact, PutAttachment, WriteStage
  <2>2. /\ writing' \in [Writing -> WriteRecord]
        /\ \A v \in Writing : writing'[v].at # "idle" =>
             writing'[v].call \in Call /\ writing'[v].digest \in ArtifactDigest
    BY <2>1, WriteStaysTyped
  <2> QED
    BY <1>10, <2>2 DEF ReadArtifact, WriteArtifact, PutAttachment, BridgeOnly
<1>11. ASSUME NEW w \in Writing, Reserve(w) \/ ReleaseOutput(w) PROVE ArtifactTypeOK'
  <2>1. writing[w].call \in Call
    BY <1>11 DEF Reserve, ReleaseOutput
  <2>2. entry' \in [Call -> EntryRecord]
    <3>1. CASE Reserve(w)
      BY <2>1, <3>1 DEF Reserve, EntryRecord
    <3>2. CASE ReleaseOutput(w)
      BY <2>1, <3>2 DEF ReleaseOutput, EntryRecord
    <3> QED
      BY <1>11, <3>1, <3>2
  <2>3. writing[w].at # "idle" /\ \E at \in WriteStage : Moves(w, at)
    BY <1>11 DEF Reserve, ReleaseOutput, WriteStage
  <2>4. /\ writing' \in [Writing -> WriteRecord]
        /\ \A v \in Writing : writing'[v].at # "idle" =>
             writing'[v].call \in Call /\ writing'[v].digest \in ArtifactDigest
    BY <2>3, WriteStaysTyped
  <2> QED
    BY <1>11, <2>2, <2>4 DEF Reserve, ReleaseOutput, BridgeOnly
<1>12. ASSUME NEW w \in Writing, RecordOutput(w) PROVE ArtifactTypeOK'
  <2>1. writing[w].call \in Call /\ writing[w].digest \in ArtifactDigest
    BY <1>12 DEF RecordOutput
  <2>2. entry' \in [Call -> EntryRecord]
    BY <1>12, <2>1, EntryForms DEF RecordOutput
  <2>3. writing[w].at # "idle" /\ \E at \in WriteStage : Moves(w, at)
    BY <1>12 DEF RecordOutput, WriteStage
  <2>4. /\ writing' \in [Writing -> WriteRecord]
        /\ \A v \in Writing : writing'[v].at # "idle" =>
             writing'[v].call \in Call /\ writing'[v].digest \in ArtifactDigest
    BY <2>3, WriteStaysTyped
  <2> QED
    BY <1>12, <2>2, <2>4 DEF RecordOutput, BridgeOnly
<1>13. ASSUME NEW d \in ArtifactDigest, SourcesChange \/ StoreElsewhere(d) PROVE ArtifactTypeOK'
  BY <1>13 DEF SourcesChange, StoreElsewhere, BridgeOnly
<1>14. CASE UNCHANGED artifactVars
  BY <1>14 DEF artifactVars
<1>15. CASE SourcesChange
  BY <1>15 DEF SourcesChange
<1> QED
  BY <1>1, <1>2, <1>3, <1>4, <1>5, <1>6, <1>7, <1>8, <1>9, <1>10, <1>11, <1>12, <1>13, <1>14, <1>15
  DEF ArtifactNext, HostNext, BridgeNext

-----------------------------------------------------------------------------
(* Outputs.                                                                *)

\* An output is what a finished write of the call stored; a stored digest is on the shelf.
OutputsStored ==
  /\ \A c \in Call : \A d \in entry[c].outputs :
       \E w \in Writing : writing[w] = [at |-> "recorded", call |-> c, digest |-> d]
  /\ \A w \in Writing : writing[w].at \in {"stored", "recorded"} => writing[w].digest \in shelf

\* What the host asserted of a write stays so until it publishes.
AssertedIsOutput ==
  \A c \in Call :
    host[c].mode = "write" /\ host[c].at \in {"asserted", "confirmed", "published", "closed"}
      => host[c].digest \in entry[c].outputs

\* A host changes no output, no reservation, no write and nothing on the shelf.
LEMMA HostFrame ==
  ASSUME ArtifactTypeOK, HostNext
  PROVE  /\ UNCHANGED <<sources, writing, shelf>>
         /\ \A c \in Call : entry'[c].outputs = entry[c].outputs /\ entry'[c].pending = entry[c].pending
<1> USE DEF ArtifactTypeOK, HostOnly
<1>1. ASSUME NEW c \in Call, NEW r \in RequestId, NEW mode \in {"read", "write"},
             OpenOperation(c, r, mode) \/ OpenTaskCall(c, r)
      PROVE  UNCHANGED <<entry, sources, writing, shelf>>
  BY <1>1 DEF OpenOperation, OpenTaskCall
<1>2. ASSUME NEW c \in Call, NEW d \in ArtifactDigest, ProviderReturns(c, d)
      PROVE  UNCHANGED <<entry, sources, writing, shelf>>
  BY <1>2 DEF ProviderReturns
<1>3. ASSUME NEW c \in Call,
             \/ Register(c) \/ RegisterRefused(c) \/ AssertOutput(c)
             \/ AssertCallCurrent(c) \/ Publish(c) \/ CallFails(c) \/ TaskEnds(c) \/ Lapse(c)
      PROVE  UNCHANGED <<entry, sources, writing, shelf>>
  BY <1>3 DEF Register, RegisterRefused, AssertOutput, AssertCallCurrent, Publish, CallFails, TaskEnds,
              Lapse
<1>4. ASSUME NEW c \in Call, Close(c) \/ RevokeTaskCalls(c)
      PROVE  /\ UNCHANGED <<sources, writing, shelf>>
             /\ \A b \in Call : entry'[b].outputs = entry[b].outputs /\ entry'[b].pending = entry[b].pending
  <2>1. CASE Close(c)
    BY <2>1 DEF Close, Revokes, EntryRecord
  <2>2. CASE RevokeTaskCalls(c)
    BY <2>2 DEF RevokeTaskCalls, EntryRecord
  <2> QED
    BY <1>4, <2>1, <2>2
<1> QED
  BY <1>1, <1>2, <1>3, <1>4 DEF HostNext

\* What the host asserts and publishes was recorded in the entry and stored.
LEMMA HostOutputs ==
  ASSUME ArtifactTypeOK, ArtifactTypeOK', OutputsStored, AssertedIsOutput, HostNext
  PROVE  OutputsStored' /\ AssertedIsOutput'
<1>1. OutputsStored'
  BY HostFrame DEF OutputsStored
<1> USE DEF AssertedIsOutput
<1>2. ASSUME NEW c \in Call, NEW r \in RequestId, NEW mode \in {"read", "write"},
             OpenOperation(c, r, mode) \/ OpenTaskCall(c, r)
      PROVE  AssertedIsOutput'
  <2>1. host'[c].at = "opened" /\ \A b \in Call \ {c} : host'[b] = host[b]
    <3>1. CASE OpenOperation(c, r, mode)
      BY <3>1 DEF OpenOperation, ArtifactTypeOK, HostRecord
    <3>2. CASE OpenTaskCall(c, r)
      BY <3>2 DEF OpenTaskCall, ArtifactTypeOK, HostRecord
    <3> QED
      BY <1>2, <3>1, <3>2
  <2> QED
    BY <2>1, HostFrame
<1>3. ASSUME NEW c \in Call, NEW at \in HostStage, HostAt(c, at),
             at \in {"confirmed", "published", "closed"} => host[c].mode # "write"
                \/ host[c].at \in {"asserted", "confirmed", "published", "closed"},
             at = "asserted" => OwnOutput(c)
      PROVE  AssertedIsOutput'
  BY <1>3, HostMoves, HostFrame DEF OwnOutput
<1>4. ASSUME NEW c \in Call,
             \/ Register(c) \/ RegisterRefused(c) \/ AssertOutput(c)
             \/ AssertCallCurrent(c) \/ Publish(c) \/ CallFails(c) \/ Close(c)
      PROVE  AssertedIsOutput'
  <2>1. \E at \in HostStage :
          /\ HostAt(c, at)
          /\ at \in {"confirmed", "published", "closed"} => host[c].mode # "write"
                \/ host[c].at \in {"asserted", "confirmed", "published", "closed"}
          /\ at = "asserted" => OwnOutput(c)
    BY <1>4 DEF Register, RegisterRefused, AssertOutput, AssertCallCurrent, Publish, CallFails, Close,
                HostStage
  <2> QED
    BY <1>3, <2>1
<1>5. ASSUME NEW c \in Call, NEW d \in ArtifactDigest, ProviderReturns(c, d) PROVE AssertedIsOutput'
  <2>1. host'[c].at = "returned" /\ \A b \in Call \ {c} : host'[b] = host[b]
    BY <1>5 DEF ProviderReturns, ArtifactTypeOK, HostRecord
  <2> QED
    BY <2>1, HostFrame
<1>6. ASSUME NEW c \in Call, TaskEnds(c) \/ RevokeTaskCalls(c) \/ Lapse(c) PROVE AssertedIsOutput'
  <2>1. host' = host
    BY <1>6 DEF TaskEnds, RevokeTaskCalls, Lapse
  <2> QED
    BY <2>1, HostFrame
<1> QED
  BY <1>1, <1>2, <1>4, <1>5, <1>6 DEF HostNext

\* A finished write is never touched again, and what it stored stays on the shelf.
LEMMA BridgeOutputs ==
  ASSUME ArtifactTypeOK, OutputsStored, AssertedIsOutput, BridgeNext
  PROVE  OutputsStored' /\ AssertedIsOutput'
<1> USE DEF OutputsStored
<1>1. ASSUME NEW w \in Writing, writing[w].at # "recorded",
             \A v \in Writing \ {w} : writing'[v] = writing[v],
             \A c \in Call : entry'[c].outputs = entry[c].outputs, shelf \subseteq shelf', host' = host,
             writing'[w].at \in {"stored", "recorded"} => writing'[w].digest \in shelf'
      PROVE  OutputsStored' /\ AssertedIsOutput'
  <2>1. ASSUME NEW c \in Call, NEW d \in entry'[c].outputs
        PROVE  \E v \in Writing : writing'[v] = [at |-> "recorded", call |-> c, digest |-> d]
    <3>1. PICK v \in Writing : writing[v] = [at |-> "recorded", call |-> c, digest |-> d]
      BY <1>1
    <3> QED
      BY <1>1, <3>1
  <2> QED
    BY <1>1, <2>1 DEF AssertedIsOutput
<1>2. ASSUME NEW w \in Writing, NEW c \in Call, NEW d \in ArtifactDigest,
             AuthorizeRead(w, c, d) \/ AuthorizeWrite(w, c, d)
      PROVE  OutputsStored' /\ AssertedIsOutput'
  BY <1>1, <1>2 DEF AuthorizeRead, AuthorizeWrite, BridgeOnly, ArtifactTypeOK
<1>3. ASSUME NEW w \in Writing, ReadArtifact(w) \/ WriteArtifact(w) PROVE OutputsStored' /\ AssertedIsOutput'
  <2>1. \E at \in WriteStage \ {"stored", "recorded"} : Moves(w, at)
    BY <1>3 DEF ReadArtifact, WriteArtifact, WriteStage
  <2> QED
    BY <1>1, <1>3, <2>1, WriteMoves, ZenonT(60) DEF ReadArtifact, WriteArtifact, BridgeOnly
<1>4. ASSUME NEW w \in Writing, PutAttachment(w) PROVE OutputsStored' /\ AssertedIsOutput'
  <2>1. "stored" \in WriteStage /\ Moves(w, "stored")
    BY <1>4 DEF PutAttachment, WriteStage
  <2> QED
    BY <1>1, <1>4, <2>1, WriteMoves DEF PutAttachment, BridgeOnly
<1>5. ASSUME NEW w \in Writing, Reserve(w) \/ ReleaseOutput(w) PROVE OutputsStored' /\ AssertedIsOutput'
  <2>1. \E at \in WriteStage \ {"stored", "recorded"} : Moves(w, at)
    BY <1>5 DEF Reserve, ReleaseOutput, WriteStage
  <2>2. \A c \in Call : entry'[c].outputs = entry[c].outputs
    <3>1. CASE Reserve(w)
      BY <3>1 DEF Reserve, ArtifactTypeOK, EntryRecord
    <3>2. CASE ReleaseOutput(w)
      BY <3>2 DEF ReleaseOutput, ArtifactTypeOK, EntryRecord
    <3> QED
      BY <1>5, <3>1, <3>2
  <2> QED
    BY <1>1, <1>5, <2>1, <2>2, WriteMoves, ZenonT(60) DEF Reserve, ReleaseOutput, BridgeOnly
<1>6. ASSUME NEW w \in Writing, RecordOutput(w) PROVE OutputsStored' /\ AssertedIsOutput'
  <2> DEFINE c == writing[w].call
             d == writing[w].digest
  <2>1. c \in Call /\ d \in ArtifactDigest /\ writing[w].at = "stored" /\ d \in shelf
    BY <1>6 DEF RecordOutput, ArtifactTypeOK
  <2>2. /\ entry[c].outputs \subseteq entry'[c].outputs /\ entry'[c].outputs \subseteq entry[c].outputs \cup {d}
        /\ \A b \in Call \ {c} : entry'[b] = entry[b]
    BY <1>6, <2>1 DEF RecordOutput, OutputRecorded, ArtifactTypeOK, EntryRecord
  <2>3. PICK at \in WriteStage :
          Moves(w, at) /\ (d \in entry'[c].outputs => at = "recorded")
    BY <1>6 DEF RecordOutput, WriteStage
  <2>4. shelf' = shelf /\ host' = host
    BY <1>6 DEF RecordOutput, BridgeOnly
  <2>5. /\ writing'[w] = [at |-> at, call |-> c, digest |-> d] /\ writing'[w].digest = d
        /\ \A v \in Writing \ {w} : writing'[v] = writing[v]
    BY <2>3, WriteMoves
  <2> HIDE DEF c, d
  <2>6. ASSUME NEW b \in Call, NEW e \in entry'[b].outputs
        PROVE  \E v \in Writing : writing'[v] = [at |-> "recorded", call |-> b, digest |-> e]
    <3>1. CASE b = c /\ e = d
      BY <2>3, <2>5, <3>1
    <3>2. CASE ~(b = c /\ e = d)
      <4>1. e \in entry[b].outputs
        BY <2>1, <2>2, <3>2
      <4>2. PICK v \in Writing : writing[v] = [at |-> "recorded", call |-> b, digest |-> e]
        BY <4>1
      <4> QED
        BY <2>1, <2>5, <4>2
    <3> QED
      BY <3>1, <3>2
  <2> QED
    BY <2>1, <2>2, <2>4, <2>5, <2>6 DEF AssertedIsOutput
<1>7. ASSUME SourcesChange \/ \E d \in ArtifactDigest : StoreElsewhere(d)
      PROVE  OutputsStored' /\ AssertedIsOutput'
  BY <1>7 DEF SourcesChange, StoreElsewhere, BridgeOnly, AssertedIsOutput
<1> QED
  BY <1>2, <1>3, <1>4, <1>5, <1>6, <1>7 DEF BridgeNext

-----------------------------------------------------------------------------
(* The registry.                                                           *)

\* Only an admitted call is in the registry, and none is revoked before it is admitted.
RegistryAdmits ==
  /\ \A r \in RequestId : calls[r] \in Call =>
       host[calls[r]].at \notin {"new", "opened"} /\ host[calls[r]].request = r
  /\ \A c \in Call : host[c].at \in {"new", "opened"} => ~entry[c].revoked

Open(c) ==
  host[c].at \in {"registered", "returned", "asserted", "confirmed"} /\ AnchorHolds(c) /\ c \notin lapsed

\* A host moves without opening a call: an open call was open before.
LEMMA HostRegistry ==
  ASSUME ArtifactTypeOK, RegistryAdmits, OpenCallStays, HostNext
  PROVE  RegistryAdmits' /\ OpenCallStays'
<1> USE DEF RegistryAdmits, OpenCallStays, Registered, AnchorHolds
<1>1. ASSUME NEW c \in Call, NEW r \in RequestId, NEW mode \in {"read", "write"},
             OpenOperation(c, r, mode) \/ OpenTaskCall(c, r)
      PROVE  RegistryAdmits' /\ OpenCallStays'
  <2>1. /\ host[c].at = "new" /\ host'[c].at = "opened" /\ \A b \in Call \ {c} : host'[b] = host[b]
        /\ \A b \in Call \ {c} : anchor'[b] = anchor[b]
    <3>1. CASE OpenOperation(c, r, mode)
      BY <3>1 DEF OpenOperation, ArtifactTypeOK, HostRecord
    <3>2. CASE OpenTaskCall(c, r)
      BY <3>2 DEF OpenTaskCall, ArtifactTypeOK, HostRecord
    <3> QED
      BY <1>1, <3>1, <3>2
  <2>2. UNCHANGED <<entry, calls, lapsed>>
    BY <1>1 DEF OpenOperation, OpenTaskCall
  <2> QED
    BY <2>1, <2>2
<1>2. ASSUME NEW c \in Call, Register(c) PROVE RegistryAdmits' /\ OpenCallStays'
  <2>1. /\ host[c].at = "opened" /\ host[c].request \in RequestId /\ ~entry[c].revoked
        /\ UNCHANGED <<anchor, entry, lapsed>>
    BY <1>2 DEF Register, ArtifactTypeOK
  <2>2. /\ host'[c].at = "registered" /\ \A b \in Call \ {c} : host'[b] = host[b]
        /\ \A b \in Call : host'[b].request = host[b].request
    BY <1>2, HostMoves DEF Register, HostStage
  <2>3. /\ Purged(calls)[host[c].request] = NoCall
        /\ calls' = [Purged(calls) EXCEPT ![host[c].request] = c]
    BY <1>2 DEF Register, MayRegister
  <2>4. calls'[host[c].request] = c
    BY <2>1, <2>3, PurgedTypes
  <2>5. \A r \in RequestId \ {host[c].request} : calls'[r] = Purged(calls)[r]
    BY <2>1, <2>3, PurgedTypes
  <2>6. RegistryAdmits'
    BY <2>1, <2>2, <2>4, <2>5, PurgedTypes, ArtifactAssumption
  <2>7. ASSUME NEW b \in Call, b # c, Open(b)
        PROVE  Registered(b)'
    <3>1. Registered(b)
      BY <2>1, <2>2, <2>3, <2>7, PurgedTypes DEF Open
    <3>2. Purged(calls)[host[b].request] = b
      BY <2>7, <3>1, PurgedTypes DEF Open
    <3>3. host[b].request # host[c].request
      BY <2>3, <3>2, ArtifactAssumption
    <3> QED
      BY <2>1, <2>2, <2>5, <2>7, <3>1, <3>2, <3>3
  <2> QED
    BY <2>1, <2>2, <2>4, <2>6, <2>7 DEF Open
<1>3. ASSUME NEW c \in Call, RegisterRefused(c) PROVE RegistryAdmits' /\ OpenCallStays'
  <2>1. UNCHANGED <<entry, lapsed>> /\ calls' = Purged(calls) /\ host[c].at = "opened"
    BY <1>3 DEF RegisterRefused
  <2>2. /\ host'[c].at = "rejected" /\ \A b \in Call \ {c} : host'[b] = host[b]
        /\ \A b \in Call : host'[b].request = host[b].request
    BY <1>3, HostMoves DEF RegisterRefused, HostStage
  <2>3. \A b \in Call \ {c} : anchor'[b] = anchor[b]
    BY <1>3 DEF RegisterRefused, Settled, ArtifactTypeOK
  <2>4. RegistryAdmits'
    BY <2>1, <2>2, PurgedTypes, ArtifactAssumption
  <2> QED
    BY <2>1, <2>2, <2>3, <2>4, PurgedTypes
<1>4. ASSUME NEW c \in Call, host[c].at \notin {"new", "opened"}, host'[c].at \notin {"new", "opened"},
             \A b \in Call \ {c} : host'[b] = host[b], host'[c].request = host[c].request,
             host'[c].at \in {"registered", "returned", "asserted", "confirmed"} =>
               host[c].at \in {"registered", "returned", "asserted", "confirmed"},
             \A b \in Call : anchor'[b] = "live" => anchor[b] = "live",
             UNCHANGED <<entry, calls, lapsed>>
      PROVE  RegistryAdmits' /\ OpenCallStays'
  BY <1>4
<1>5. ASSUME NEW c \in Call, AssertOutput(c) \/ AssertCallCurrent(c) \/ Publish(c) \/ CallFails(c)
      PROVE  RegistryAdmits' /\ OpenCallStays'
  <2>1. PICK at \in {"asserted", "confirmed", "published", "unknown"} : HostAt(c, at)
    BY <1>5 DEF AssertOutput, AssertCallCurrent, Publish, CallFails
  <2>2. at \in {"asserted", "confirmed"} =>
          host[c].at \in {"registered", "returned", "asserted", "confirmed"}
    BY <1>5, <2>1, HostMoves DEF AssertOutput, AssertCallCurrent, Publish, CallFails, HostStage
  <2>3. /\ host[c].at \notin {"new", "opened"}
        /\ \A b \in Call : anchor'[b] = "live" => anchor[b] = "live"
        /\ UNCHANGED <<entry, calls, lapsed>>
    BY <1>5 DEF AssertOutput, AssertCallCurrent, Publish, CallFails, Settled, ArtifactTypeOK
  <2> QED
    BY <1>4, <2>1, <2>2, <2>3, HostMoves DEF HostStage
<1>6. ASSUME NEW c \in Call, NEW d \in ArtifactDigest, ProviderReturns(c, d)
      PROVE  RegistryAdmits' /\ OpenCallStays'
  <2>1. /\ host[c].at = "registered" /\ host'[c].at = "returned" /\ host'[c].request = host[c].request
        /\ \A b \in Call \ {c} : host'[b] = host[b]
    BY <1>6 DEF ProviderReturns, ArtifactTypeOK, HostRecord
  <2> QED
    BY <1>4, <1>6, <2>1 DEF ProviderReturns
<1>7. ASSUME NEW c \in Call, NEW b \in Call, entry' = [entry EXCEPT ![c].revoked = TRUE],
             host[c].request \in RequestId, calls[host[c].request] = c,
             calls' = [calls EXCEPT ![host[c].request] = NoCall], ~Open(c),
             Open(b), lapsed' = lapsed
      PROVE  calls'[host[b].request] = b /\ ~entry'[b].revoked /\ host[b].request \in RequestId
  BY <1>7 DEF Open, ArtifactTypeOK, EntryRecord
<1>8. ASSUME NEW c \in Call, Close(c) PROVE RegistryAdmits' /\ OpenCallStays'
  <2>1. /\ host[c].at \in {"published", "unknown"} /\ host[c].request \in RequestId
        /\ UNCHANGED <<anchor, lapsed>>
    BY <1>8 DEF Close, ArtifactTypeOK
  <2>2. /\ host'[c].at \in {"closed", "failed"} /\ \A b \in Call \ {c} : host'[b] = host[b]
        /\ \A b \in Call : host'[b].request = host[b].request
    BY <1>8, HostMoves DEF Close, HostStage
  <2>3. CASE calls[host[c].request] = c
    <3>1. /\ entry' = [entry EXCEPT ![c].revoked = TRUE]
          /\ calls' = [calls EXCEPT ![host[c].request] = NoCall]
      BY <1>8, <2>3 DEF Close, Revokes
    <3>2. \A b \in Call \ {c} : entry'[b] = entry[b]
      BY <3>1 DEF ArtifactTypeOK
    <3>3. \A r \in RequestId : calls'[r] = calls[r] \/ calls'[r] = NoCall
      BY <3>1 DEF ArtifactTypeOK
    <3>4. RegistryAdmits'
      BY <2>1, <2>2, <3>2, <3>3, ArtifactAssumption
    <3>5. \A b \in Call : Open(b)' => Open(b) /\ b # c
      BY <2>1, <2>2 DEF Open
    <3>6. OpenCallStays'
      BY <1>7, <2>1, <2>2, <2>3, <3>1, <3>5 DEF Open
    <3> QED
      BY <3>4, <3>6
  <2>4. CASE calls[host[c].request] # c
    BY <1>8, <2>1, <2>2, <2>4 DEF Close, Revokes
  <2> QED
    BY <2>3, <2>4
<1>9. ASSUME NEW c \in Call, RevokeTaskCalls(c) PROVE RegistryAdmits' /\ OpenCallStays'
  <2>1. /\ calls[host[c].request] = c /\ anchor[c] = "ended" /\ host[c].kind = "task"
        /\ entry' = [entry EXCEPT ![c].revoked = TRUE]
        /\ calls' = [calls EXCEPT ![host[c].request] = NoCall]
        /\ UNCHANGED <<host, anchor, lapsed>>
    BY <1>9 DEF RevokeTaskCalls
  <2>2. host[c].request \in RequestId /\ host[c].at \notin {"new", "opened"}
    BY <2>1 DEF ArtifactTypeOK
  <2>3. \A b \in Call \ {c} : entry'[b] = entry[b]
    BY <2>1 DEF ArtifactTypeOK
  <2>4. \A r \in RequestId : calls'[r] = calls[r] \/ calls'[r] = NoCall
    BY <2>1 DEF ArtifactTypeOK
  <2>5. RegistryAdmits'
    BY <2>1, <2>2, <2>3, <2>4, ArtifactAssumption
  <2>6. \A b \in Call : Open(b)' => Open(b) /\ b # c
    BY <2>1 DEF Open
  <2>7. OpenCallStays'
    BY <1>7, <2>1, <2>2, <2>6 DEF Open
  <2> QED
    BY <2>5, <2>7
<1>10. ASSUME NEW c \in Call, TaskEnds(c) \/ Lapse(c) PROVE RegistryAdmits' /\ OpenCallStays'
  BY <1>10 DEF TaskEnds, Lapse, ArtifactTypeOK
<1> QED
  BY <1>1, <1>2, <1>3, <1>5, <1>6, <1>8, <1>9, <1>10 DEF HostNext

\* The bridge only purges the registry, which drops no open call.
LEMMA BridgeRegistry ==
  ASSUME ArtifactTypeOK, RegistryAdmits, OpenCallStays, BridgeNext
  PROVE  RegistryAdmits' /\ OpenCallStays'
<1>1. UNCHANGED <<host, anchor, lapsed>> /\ (calls' = calls \/ calls' = Purged(calls))
  BY DEF BridgeNext, BridgeOnly, AuthorizeRead, AuthorizeWrite, ReadArtifact, Reserve, WriteArtifact,
         PutAttachment, RecordOutput, ReleaseOutput, SourcesChange, StoreElsewhere
<1>2. \A c \in Call : entry'[c].revoked = entry[c].revoked
  <2>1. CASE entry' = entry
    BY <2>1
  <2>2. ASSUME NEW w \in Writing, Reserve(w) PROVE \A c \in Call : entry'[c].revoked = entry[c].revoked
    BY <2>2 DEF Reserve, ArtifactTypeOK, EntryRecord
  <2>3. ASSUME NEW w \in Writing, ReleaseOutput(w)
        PROVE  \A c \in Call : entry'[c].revoked = entry[c].revoked
    BY <2>3 DEF ReleaseOutput, ArtifactTypeOK, EntryRecord
  <2>4. ASSUME NEW w \in Writing, RecordOutput(w)
        PROVE  \A c \in Call : entry'[c].revoked = entry[c].revoked
    BY <2>4 DEF RecordOutput, OutputRecorded, ArtifactTypeOK, EntryRecord
  <2>5. \/ entry' = entry \/ \E w \in Writing : Reserve(w) \/ ReleaseOutput(w) \/ RecordOutput(w)
    BY DEF BridgeNext, AuthorizeRead, AuthorizeWrite, ReadArtifact, WriteArtifact,
           PutAttachment, SourcesChange, StoreElsewhere
  <2> QED
    BY <2>1, <2>2, <2>3, <2>4, <2>5
<1>3. RegistryAdmits'
  BY <1>1, <1>2, PurgedTypes, ArtifactAssumption DEF RegistryAdmits
<1> QED
  BY <1>1, <1>2, <1>3, PurgedTypes DEF OpenCallStays, Registered, AnchorHolds

-----------------------------------------------------------------------------
(* Output slots.                                                           *)

\* Recorded and reserved outputs are finitely many.
SlotsFinite == \A c \in Call : IsFiniteSet(entry[c].outputs) /\ IsFiniteSet(entry[c].pending)

\* A slot is taken by a reservation and passes to the output it was reserved for.
LEMMA SlotCount ==
  ASSUME NEW S, NEW T, NEW x, NEW y, IsFiniteSet(S), IsFiniteSet(T),
         Cardinality(S) + Cardinality(T) <= MaxOutputs
  PROVE  /\ IsFiniteSet(S \cup {x}) /\ IsFiniteSet(T \cup {y}) /\ IsFiniteSet(T \ {y})
         /\ Cardinality(S) \in Nat /\ Cardinality(T) \in Nat
         /\ Cardinality(S) + Cardinality(T \ {y}) <= MaxOutputs
         /\ y \in T => Cardinality(S \cup {x}) + Cardinality(T \ {y}) <= MaxOutputs
         /\ Cardinality(S) + Cardinality(T) < MaxOutputs
              => Cardinality(S) + Cardinality(T \cup {y}) <= MaxOutputs
<1>1. Cardinality(S) \in Nat /\ Cardinality(T) \in Nat
  BY FS_CardinalityType
<1>2. IsFiniteSet(S \cup {x}) /\ Cardinality(S \cup {x}) \in {Cardinality(S), Cardinality(S) + 1}
  BY FS_AddElement
<1>3. IsFiniteSet(T \cup {y}) /\ Cardinality(T \cup {y}) \in {Cardinality(T), Cardinality(T) + 1}
  BY FS_AddElement
<1>4. /\ IsFiniteSet(T \ {y})
      /\ Cardinality(T \ {y}) = IF y \in T THEN Cardinality(T) - 1 ELSE Cardinality(T)
  BY FS_RemoveElement
<1> QED
  BY <1>1, <1>2, <1>3, <1>4, ArtifactAssumption

\* Every step keeps the slots of an entry counted.
LEMMA SlotsStep ==
  ASSUME ArtifactTypeOK, SlotsFinite, SlotsHold, ArtifactNext
  PROVE  SlotsFinite' /\ SlotsHold'
<1> USE DEF SlotsFinite, SlotsHold
<1>1. CASE \A c \in Call : entry'[c].outputs = entry[c].outputs /\ entry'[c].pending = entry[c].pending
  BY <1>1
<1>2. ASSUME NEW w \in Writing, NEW c \in Call, \A b \in Call \ {c} : entry'[b] = entry[b],
             NEW d \in ArtifactDigest,
             \/ /\ entry'[c].outputs = entry[c].outputs /\ HasRoom(entry[c])
                /\ entry'[c].pending = entry[c].pending \cup {w}
             \/ /\ entry'[c].outputs = entry[c].outputs
                /\ entry'[c].pending = entry[c].pending \ {w}
             \/ /\ entry'[c].outputs = entry[c].outputs \cup {d} /\ w \in entry[c].pending
                /\ entry'[c].pending = entry[c].pending \ {w}
      PROVE  SlotsFinite' /\ SlotsHold'
  <2>1. /\ IsFiniteSet(entry'[c].outputs) /\ IsFiniteSet(entry'[c].pending)
        /\ Cardinality(entry'[c].outputs) + Cardinality(entry'[c].pending) <= MaxOutputs
    <3> DEFINE S == entry[c].outputs
               T == entry[c].pending
    <3>1. /\ IsFiniteSet(S \cup {d}) /\ IsFiniteSet(T \cup {w}) /\ IsFiniteSet(T \ {w})
          /\ Cardinality(S) + Cardinality(T \ {w}) <= MaxOutputs
          /\ w \in T => Cardinality(S \cup {d}) + Cardinality(T \ {w}) <= MaxOutputs
          /\ HasRoom(entry[c]) => Cardinality(S) + Cardinality(T \cup {w}) <= MaxOutputs
      <4>1. IsFiniteSet(S) /\ IsFiniteSet(T) /\ Cardinality(S) + Cardinality(T) <= MaxOutputs
        OBVIOUS
      <4> HIDE DEF S, T
      <4>2. /\ IsFiniteSet(S \cup {d}) /\ IsFiniteSet(T \cup {w}) /\ IsFiniteSet(T \ {w})
            /\ Cardinality(S) + Cardinality(T \ {w}) <= MaxOutputs
            /\ w \in T => Cardinality(S \cup {d}) + Cardinality(T \ {w}) <= MaxOutputs
            /\ Cardinality(S) + Cardinality(T) < MaxOutputs
                 => Cardinality(S) + Cardinality(T \cup {w}) <= MaxOutputs
        BY <4>1, SlotCount
      <4> QED
        BY <4>2 DEF HasRoom, S, T
    <3> QED
      BY <1>2, <3>1
  <2> QED
    BY <1>2, <2>1
<1>3. ASSUME NEW w \in Writing, Reserve(w) \/ ReleaseOutput(w) \/ RecordOutput(w)
      PROVE  SlotsFinite' /\ SlotsHold'
  <2> DEFINE c == writing[w].call
             d == writing[w].digest
  <2>1. c \in Call /\ d \in ArtifactDigest
    BY <1>3 DEF Reserve, ReleaseOutput, RecordOutput, ArtifactTypeOK
  <2>2. CASE Reserve(w)
    <3>1. /\ entry'[c].outputs = entry[c].outputs /\ HasRoom(entry[c])
          /\ entry'[c].pending = entry[c].pending \cup {w} /\ \A b \in Call \ {c} : entry'[b] = entry[b]
      BY <2>1, <2>2 DEF Reserve, ArtifactTypeOK, EntryRecord
    <3> QED
      BY <1>2, <2>1, <3>1
  <2>3. CASE ReleaseOutput(w)
    <3>1. /\ entry'[c].outputs = entry[c].outputs /\ \A b \in Call \ {c} : entry'[b] = entry[b]
          /\ entry'[c].pending = entry[c].pending \ {w}
      BY <2>1, <2>3 DEF ReleaseOutput, ArtifactTypeOK, EntryRecord
    <3> QED
      BY <1>2, <2>1, <3>1
  <2>4. CASE RecordOutput(w)
    <3>1. /\ entry'[c].outputs = entry[c].outputs \/ entry'[c].outputs = entry[c].outputs \cup {d}
          /\ w \in entry[c].pending
          /\ entry'[c].pending = entry[c].pending \ {w} /\ \A b \in Call \ {c} : entry'[b] = entry[b]
      BY <2>1, <2>4 DEF RecordOutput, OutputRecorded, ArtifactTypeOK, EntryRecord
    <3> QED
      BY <1>2, <2>1, <3>1
  <2> QED
    BY <1>3, <2>2, <2>3, <2>4
<1>4. \/ HostNext \/ entry' = entry \/ \E w \in Writing : Reserve(w) \/ ReleaseOutput(w) \/ RecordOutput(w)
  BY DEF ArtifactNext, BridgeNext, AuthorizeRead, AuthorizeWrite, ReadArtifact, WriteArtifact,
         PutAttachment, SourcesChange, StoreElsewhere
<1> QED
  BY <1>1, <1>3, <1>4, HostFrame

-----------------------------------------------------------------------------
ArtifactInv ==
  /\ ArtifactTypeOK /\ OutputsStored /\ AssertedIsOutput /\ RegistryAdmits /\ OpenCallStays
  /\ SlotsFinite /\ SlotsHold

\* The invariant of the registry and the bridge.
THEOREM ArtifactInvariant == ArtifactSpec => []ArtifactInv
<1>1. ArtifactInit => ArtifactInv
  <2> SUFFICES ASSUME ArtifactInit PROVE ArtifactInv
    OBVIOUS
  <2>1. OutputsStored /\ AssertedIsOutput /\ RegistryAdmits /\ OpenCallStays
    BY ArtifactAssumption
    DEF ArtifactInit, NewHost, NewEntry, NewWriting, OutputsStored, AssertedIsOutput, RegistryAdmits,
        OpenCallStays
  <2>2. \A c \in Call : entry[c].outputs = {} /\ entry[c].pending = {}
    BY DEF ArtifactInit, NewEntry
  <2>3. SlotsFinite /\ SlotsHold
    <3>1. IsFiniteSet({}) /\ Cardinality({}) = 0 /\ MaxOutputs \in Nat
      BY FS_EmptySet, ArtifactAssumption
    <3>2. \A c \in Call : /\ IsFiniteSet(entry[c].outputs) /\ Cardinality(entry[c].outputs) = 0
                          /\ IsFiniteSet(entry[c].pending) /\ Cardinality(entry[c].pending) = 0
      BY <2>2, <3>1, Zenon
    <3> QED
      BY <3>1, <3>2 DEF SlotsFinite, SlotsHold
  <2> QED
    BY <2>1, <2>3, ArtifactInitTypes DEF ArtifactInv
<1>2. ArtifactInv /\ [ArtifactNext]_artifactVars => ArtifactInv'
  <2> SUFFICES ASSUME ArtifactInv, [ArtifactNext]_artifactVars PROVE ArtifactInv'
    OBVIOUS
  <2> USE DEF ArtifactInv
  <2>1. ArtifactTypeOK'
    BY ArtifactTypeStep
  <2>2. CASE HostNext
    BY <2>1, <2>2, HostOutputs, HostRegistry, SlotsStep DEF ArtifactNext
  <2>3. CASE BridgeNext
    BY <2>1, <2>3, BridgeOutputs, BridgeRegistry, SlotsStep DEF ArtifactNext
  <2>4. CASE UNCHANGED artifactVars
    <3>1. OutputsStored' /\ AssertedIsOutput'
      BY <2>4 DEF artifactVars, OutputsStored, AssertedIsOutput
    <3>2. RegistryAdmits' /\ OpenCallStays'
      BY <2>4 DEF artifactVars, RegistryAdmits, OpenCallStays, Registered, AnchorHolds
    <3>3. SlotsFinite' /\ SlotsHold'
      BY <2>4 DEF artifactVars, SlotsFinite, SlotsHold
    <3> QED
      BY <2>1, <3>1, <3>2, <3>3
  <2> QED
    BY <2>2, <2>3, <2>4 DEF ArtifactNext
<1> QED
  BY <1>1, <1>2, PTL DEF ArtifactSpec

\* The registry, the hosts and the bridge stay well formed.
THEOREM ArtifactTypes == ArtifactSpec => []ArtifactTypeOK
  BY ArtifactInvariant, PTL DEF ArtifactInv

\* A published media result names bytes that a write of the same call stored.
THEOREM ArtifactPublishedIsOwn == ArtifactSpec => []PublishedIsOwn
<1>1. ArtifactInv => PublishedIsOwn
  BY DEF ArtifactInv, ArtifactTypeOK, OutputsStored, AssertedIsOutput, PublishedIsOwn
<1> QED
  BY ArtifactInvariant, <1>1, PTL

\* Only its own host, task or expiry takes an open call from the registry.
THEOREM ArtifactOpenCallStays == ArtifactSpec => []OpenCallStays
  BY ArtifactInvariant, PTL DEF ArtifactInv

\* Concurrent writes of a call never take more than its output slots.
THEOREM ArtifactSlotsHold == ArtifactSpec => []SlotsHold
  BY ArtifactInvariant, PTL DEF ArtifactInv

(***************************************************************************)
(* Source inventories                                                       *)
(*                                                                         *)
(* An inventory under way has staged exactly the items of its pages, which  *)
(* lead without a gap to the token it expects; it is the only one, and the  *)
(* source says so.  A completed inventory takes no further page.            *)
(***************************************************************************)
FactRecord == [known : BOOLEAN, items : SUBSET Item, inventory : Inventory \cup {NoInventory},
               missing : BOOLEAN]

InventoryTypeOK ==
  /\ inventories \in [Inventory -> [status : {"none", "in_progress", "completed", "failed"},
                                    expected : PageToken \cup {First, End}]]
  /\ accepted \in [Inventory -> SUBSET Page]
  /\ staging \in [Inventory -> SUBSET Item]
  /\ sourceFacts \in [FactKey -> FactRecord]
  /\ source \in [status : {"absent", "failed", "incomplete", "fresh"}, completed : BOOLEAN,
                 aged : BOOLEAN]
  /\ memory \in [Shelf -> [FactKey -> {"none", "sourced", "unsourced", "expired"}]]
  /\ newest \in Inventory \cup {NoInventory}

Underway(i) == inventories[i].status = "in_progress"

\* The pages accepted so far lead from the first to the one that is expected.
Leads(i) ==
  /\ \E p \in accepted[i] : p.token = First
  /\ \A p \in accepted[i] : p.next = inventories[i].expected \/ \E q \in accepted[i] : q.token = p.next

Staged ==
  \A i \in Inventory :
    /\ inventories[i].status = "none" => accepted[i] = {} /\ staging[i] = {}
    /\ Underway(i) => staging[i] = ItemsOf(i) /\ Leads(i)

\* One inventory is under way, and the source is incomplete while it is.
OneUnderway ==
  /\ \A i, j \in Inventory : Underway(i) /\ Underway(j) => i = j
  /\ \A i \in Inventory : Underway(i) => source.status = "incomplete"

\* A fact that was listed has items under its own key; the newest inventory is complete.
Kept ==
  /\ \A k \in FactKey :
       IF sourceFacts[k].known THEN sourceFacts[k].items # {} ELSE sourceFacts[k].items = {}
  /\ \A k \in FactKey : \A x \in sourceFacts[k].items : x[1] = k
  /\ newest # NoInventory => inventories[newest].status = "completed"
  /\ source.completed => newest # NoInventory

InventoryInv == InventoryTypeOK /\ Staged /\ OneUnderway /\ Kept /\ SnapshotIsLastComplete

\* The items of an inventory are those of its accepted pages.
LEMMA ItemsOfPages ==
  ASSUME NEW i \in Inventory
  PROVE  \A x : x \in ItemsOf(i) <=> \E p \in accepted[i] : x \in p.items
  BY DEF ItemsOf

\* What the source shows, and what a set of items names.
Shown == UNION {sourceFacts[k].items : k \in {j \in FactKey : ~sourceFacts[j].missing}}

\* What is shown is what is not marked missing.
LEMMA ShownItems ==
  \A x : x \in Shown <=> \E k \in FactKey : ~sourceFacts[k].missing /\ x \in sourceFacts[k].items
  BY DEF Shown

\* A source without inventories shows nothing.
LEMMA InventoryInitially == InventoryInit => InventoryInv
<1> SUFFICES ASSUME InventoryInit PROVE InventoryInv
  OBVIOUS
<1>1. InventoryTypeOK
  BY DEF InventoryInit, InventoryTypeOK, NoFact, FactRecord
<1>2. Staged /\ OneUnderway /\ Kept
  BY DEF InventoryInit, Staged, OneUnderway, Underway, Kept, NoFact
<1>3. SnapshotIsLastComplete
  BY DEF InventoryInit, SnapshotIsLastComplete, NoFact
<1> QED
  BY <1>1, <1>2, <1>3 DEF InventoryInv

\* Which inventory a page may belong to.
LEMMA PageOpens ==
  ASSUME InventoryInv, NEW i \in Inventory, NEW p \in Page, WellFormed(p), MayStart(i, p) \/ Continues(i, p)
  PROVE  /\ i # newest
         /\ \A j \in Inventory \ {i} : ~Underway(j)
         /\ staging[i] = ItemsOf(i)
         /\ p.token = First \/ \E q \in accepted[i] : q.token = First
         /\ \A q \in accepted[i] : q.next = p.token \/ \E r \in accepted[i] : r.token = q.next
<1> USE DEF InventoryInv
<1>1. CASE MayStart(i, p)
  <2>1. accepted[i] = {} /\ staging[i] = {} /\ p.token = First /\ inventories[i].status = "none"
    BY <1>1 DEF MayStart, Staged
  <2>2. ItemsOf(i) = {}
    BY <2>1, ItemsOfPages
  <2> QED
    BY <1>1, <2>1, <2>2, InventoryAssumption DEF MayStart, Underway, Kept
<1>2. CASE Continues(i, p)
  BY <1>2, InventoryAssumption DEF Continues, Underway, Kept, OneUnderway, Staged, Leads
<1> QED
  BY <1>1, <1>2

\* An accepted page joins the pages of its inventory and of no other.
LEMMA PageAccepted ==
  ASSUME InventoryTypeOK, NEW i \in Inventory, NEW p \in Page,
         accepted' = [accepted EXCEPT ![i] = @ \cup {p}]
  PROVE  /\ accepted' \in [Inventory -> SUBSET Page]
         /\ accepted'[i] = accepted[i] \cup {p}
         /\ ItemsOf(i)' = ItemsOf(i) \cup p.items
         /\ \A j \in Inventory \ {i} :
              accepted'[j] = accepted[j] /\ ItemsOf(j)' = ItemsOf(j) /\ Unbroken(j)' = Unbroken(j)
<1>1. accepted' \in [Inventory -> SUBSET Page] /\ accepted'[i] = accepted[i] \cup {p}
      /\ \A j \in Inventory \ {i} : accepted'[j] = accepted[j]
  BY DEF InventoryTypeOK
<1>2. ItemsOf(i)' = ItemsOf(i) \cup p.items
  BY <1>1 DEF ItemsOf
<1> QED
  BY <1>1, <1>2 DEF ItemsOf, Unbroken

\* While facts and the newest inventory stay, a page of another inventory shows nothing.
LEMMA SnapshotStays ==
  ASSUME InventoryInv, UNCHANGED <<sourceFacts, newest>>,
         newest \in Inventory => accepted'[newest] = accepted[newest]
  PROVE  SnapshotIsLastComplete'
<1>1. CASE newest = NoInventory
  BY <1>1 DEF InventoryInv, SnapshotIsLastComplete
<1>2. CASE newest # NoInventory
  <2>1. newest \in Inventory /\ accepted'[newest'] = accepted[newest]
    BY <1>2 DEF InventoryInv, InventoryTypeOK
  <2>2. ItemsOf(newest)' = ItemsOf(newest) /\ (Unbroken(newest)' <=> Unbroken(newest))
    BY <2>1 DEF ItemsOf, Unbroken
  <2> QED
    BY <1>2, <2>2 DEF InventoryInv, SnapshotIsLastComplete
<1> QED
  BY <1>1, <1>2

\* A failed page closes its inventory.
LEMMA FailStep ==
  ASSUME InventoryInv, NEW i \in Inventory, NEW p \in Page, IngestSourcePage(i, p), FailInventory(i, p)
  PROVE  InventoryInv'
<1> USE DEF InventoryInv
<1>1. /\ i # newest /\ \A j \in Inventory \ {i} : ~Underway(j)
  BY PageOpens DEF IngestSourcePage
<1>2. /\ accepted' \in [Inventory -> SUBSET Page]
      /\ \A j \in Inventory \ {i} : accepted'[j] = accepted[j]
  BY PageAccepted DEF IngestSourcePage
<1>3. /\ inventories' = [inventories EXCEPT ![i].status = "failed"]
      /\ source' = [source EXCEPT !.status = "failed"]
      /\ UNCHANGED <<staging, sourceFacts, newest, memory>>
  BY DEF IngestSourcePage, FailInventory
<1>4. /\ inventories'[i].status = "failed" /\ \A j \in Inventory \ {i} : inventories'[j] = inventories[j]
      /\ source'.completed = source.completed
  BY <1>3 DEF InventoryTypeOK
<1>5. InventoryTypeOK'
  BY <1>2, <1>3 DEF InventoryTypeOK
<1>6. \A j \in Inventory : ~Underway(j)'
  BY <1>1, <1>4 DEF Underway
<1>7. Staged' /\ OneUnderway'
  BY <1>2, <1>3, <1>4, <1>6 DEF Staged, OneUnderway
<1>8. Kept'
  BY <1>1, <1>3, <1>4, InventoryAssumption DEF Kept, InventoryTypeOK
<1>9. SnapshotIsLastComplete'
  BY <1>1, <1>2, <1>3, SnapshotStays
<1> QED
  BY <1>5, <1>7, <1>8, <1>9

\* A page in the middle is staged; its inventory is the one under way.
LEMMA StageStep ==
  ASSUME InventoryInv, NEW i \in Inventory, NEW p \in Page, IngestSourcePage(i, p), StagePage(i, p)
  PROVE  InventoryInv'
<1> USE DEF InventoryInv
<1>1. /\ i # newest /\ staging[i] = ItemsOf(i)
      /\ \A j \in Inventory \ {i} : ~Underway(j)
      /\ p.token = First \/ \E q \in accepted[i] : q.token = First
      /\ \A q \in accepted[i] : q.next = p.token \/ \E r \in accepted[i] : r.token = q.next
  BY PageOpens DEF IngestSourcePage
<1>2. /\ accepted' \in [Inventory -> SUBSET Page] /\ accepted'[i] = accepted[i] \cup {p}
      /\ ItemsOf(i)' = ItemsOf(i) \cup p.items
      /\ \A j \in Inventory \ {i} : accepted'[j] = accepted[j]
  BY PageAccepted DEF IngestSourcePage
<1>3. /\ inventories' = [inventories EXCEPT ![i] = [status |-> "in_progress", expected |-> p.next]]
      /\ source' = [source EXCEPT !.status = "incomplete"]
      /\ staging' = [staging EXCEPT ![i] = @ \cup p.items]
      /\ UNCHANGED <<sourceFacts, newest, memory>>
  BY DEF IngestSourcePage, StagePage
<1>4. p.items \subseteq Item /\ p.next \in PageToken \cup {End}
  BY InventoryAssumption DEF Page
<1>5. /\ inventories'[i].status = "in_progress" /\ inventories'[i].expected = p.next
      /\ \A j \in Inventory \ {i} : inventories'[j] = inventories[j]
      /\ source'.completed = source.completed /\ source'.status = "incomplete"
      /\ staging'[i] = staging[i] \cup p.items /\ \A j \in Inventory \ {i} : staging'[j] = staging[j]
  BY <1>3 DEF InventoryTypeOK
<1>6. InventoryTypeOK'
  BY <1>2, <1>3, <1>4 DEF InventoryTypeOK
<1>7. \A j \in Inventory \ {i} : ~Underway(j)'
  BY <1>1, <1>5 DEF Underway
<1>8. Leads(i)'
  BY <1>1, <1>2, <1>5 DEF Leads
<1>9. Staged'
  <2>1. staging'[i] = ItemsOf(i)' /\ inventories'[i].status # "none"
    BY <1>1, <1>2, <1>5
  <2>2. \A j \in Inventory \ {i} : inventories'[j].status = "none" => accepted'[j] = {} /\ staging'[j] = {}
    BY <1>2, <1>5 DEF Staged
  <2> SUFFICES ASSUME NEW j \in Inventory
               PROVE  /\ inventories'[j].status = "none" => accepted'[j] = {} /\ staging'[j] = {}
                      /\ Underway(j)' => staging'[j] = ItemsOf(j)' /\ Leads(j)'
    BY DEF Staged
  <2>3. CASE j = i
    BY <1>8, <2>1, <2>3, Zenon
  <2>4. CASE j # i
    BY <1>7, <2>2, <2>4
  <2> QED
    BY <2>3, <2>4
<1>10. OneUnderway'
  BY <1>5, <1>7 DEF OneUnderway
<1>11. Kept'
  BY <1>1, <1>3, <1>5, InventoryAssumption DEF Kept, InventoryTypeOK
<1>12. SnapshotIsLastComplete'
  BY <1>1, <1>2, <1>3, SnapshotStays
<1> QED
  BY <1>6, <1>9, <1>10, <1>11, <1>12

\* The facts of a complete inventory are its items, and nothing else is present.
LEMMA ReplacedShows ==
  ASSUME InventoryInv, NEW i \in Inventory, NEW staged \in SUBSET Item,
         sourceFacts' = Replaced(i, staged)
  PROVE  /\ sourceFacts' \in [FactKey -> FactRecord]
         /\ \A k \in FactKey : IF sourceFacts'[k].known THEN sourceFacts'[k].items # {}
                                                       ELSE sourceFacts'[k].items = {}
         /\ \A k \in FactKey : \A x \in sourceFacts'[k].items : x[1] = k
         /\ Shown' = staged
<1> USE DEF InventoryInv
<1>1. \A k \in FactKey : k \in KeysOf(staged) <=> \E x \in staged : x[1] = k
  BY DEF KeysOf
<1>2. \A x \in staged : x[1] \in FactKey
  BY DEF Item
<1>3. ASSUME NEW k \in FactKey, k \in KeysOf(staged)
      PROVE  /\ sourceFacts'[k].known /\ ~sourceFacts'[k].missing
             /\ \A x : x \in sourceFacts'[k].items <=> x \in staged /\ x[1] = k
             /\ sourceFacts'[k] \in FactRecord
  <2>1. sourceFacts'[k] = [known |-> TRUE, items |-> {x \in staged : x[1] = k}, inventory |-> i,
                           missing |-> FALSE]
    BY <1>3 DEF Replaced
  <2> QED
    BY <2>1 DEF FactRecord
<1>4. ASSUME NEW k \in FactKey, k \notin KeysOf(staged)
      PROVE  /\ sourceFacts'[k].known = sourceFacts[k].known /\ sourceFacts'[k].items = sourceFacts[k].items
             /\ sourceFacts'[k].missing = sourceFacts[k].known
             /\ sourceFacts'[k] \in FactRecord
  BY <1>4, ZenonT(60) DEF Replaced, InventoryTypeOK, FactRecord
<1>5. \A k \in FactKey : sourceFacts'[k] \in FactRecord
  BY <1>3, <1>4
<1>6. sourceFacts' \in [FactKey -> FactRecord]
  BY <1>5 DEF Replaced
<1>7. ASSUME NEW k \in FactKey
      PROVE  IF sourceFacts'[k].known THEN sourceFacts'[k].items # {} ELSE sourceFacts'[k].items = {}
  <2>1. CASE k \in KeysOf(staged)
    BY <1>1, <1>3, <2>1
  <2>2. CASE k \notin KeysOf(staged)
    BY <1>4, <2>2 DEF Kept
  <2> QED
    BY <2>1, <2>2
<1>8. \A k \in FactKey : \A x \in sourceFacts'[k].items : x[1] = k
  BY <1>3, <1>4 DEF Kept
<1>9. \A k \in FactKey : k \notin KeysOf(staged) => sourceFacts'[k].missing \/ sourceFacts'[k].items = {}
  BY <1>4 DEF Kept
<1>10. ASSUME NEW x PROVE x \in Shown' <=> x \in staged
  <2>1. x \in Shown' <=> \E k \in FactKey : ~sourceFacts'[k].missing /\ x \in sourceFacts'[k].items
    BY ShownItems DEF Shown
  <2>2. ASSUME x \in staged PROVE x \in Shown'
    <3>1. x[1] \in FactKey /\ x[1] \in KeysOf(staged)
      BY <1>1, <1>2, <2>2
    <3> QED
      BY <1>3, <2>1, <2>2, <3>1
  <2>3. ASSUME x \in Shown' PROVE x \in staged
    BY <1>3, <1>9, <2>1, <2>3
  <2> QED
    BY <2>2, <2>3
<1> QED
  BY <1>6, <1>7, <1>8, <1>10

\* The final page of an unbroken chain replaces the facts of the source.
LEMMA CompleteStep ==
  ASSUME InventoryInv, NEW i \in Inventory, NEW p \in Page, IngestSourcePage(i, p), CompleteInventory(i, p)
  PROVE  InventoryInv'
<1> USE DEF InventoryInv
<1>1. /\ \A j \in Inventory \ {i} : ~Underway(j)
      /\ staging[i] = ItemsOf(i)
      /\ p.token = First \/ \E q \in accepted[i] : q.token = First
      /\ \A q \in accepted[i] : q.next = p.token \/ \E r \in accepted[i] : r.token = q.next
  BY PageOpens DEF IngestSourcePage
<1>2. /\ accepted' \in [Inventory -> SUBSET Page] /\ accepted'[i] = accepted[i] \cup {p}
      /\ ItemsOf(i)' = ItemsOf(i) \cup p.items
      /\ \A j \in Inventory \ {i} : accepted'[j] = accepted[j]
  BY PageAccepted DEF IngestSourcePage
<1> DEFINE staged == staging[i] \cup p.items
<1>3. /\ inventories' = [inventories EXCEPT ![i] = [status |-> "completed", expected |-> First]]
      /\ source' = [status |-> "fresh", completed |-> TRUE, aged |-> FALSE]
      /\ staging' = [staging EXCEPT ![i] = {}] /\ sourceFacts' = Replaced(i, staged)
      /\ newest' = i /\ UNCHANGED memory /\ p.complete
  BY DEF IngestSourcePage, CompleteInventory
<1>4. staged \in SUBSET Item
  BY InventoryAssumption DEF Page, InventoryTypeOK
<1>5. /\ inventories'[i].status = "completed" /\ \A j \in Inventory \ {i} : inventories'[j] = inventories[j]
      /\ \A j \in Inventory \ {i} : staging'[j] = staging[j]
  BY <1>3 DEF InventoryTypeOK
<1> HIDE DEF staged
<1>6. InventoryTypeOK'
  BY <1>2, <1>3, <1>4, ReplacedShows DEF InventoryTypeOK
<1>7. \A j \in Inventory : ~Underway(j)'
  BY <1>1, <1>5 DEF Underway
<1>8. Staged' /\ OneUnderway'
  BY <1>2, <1>5, <1>7 DEF Staged, OneUnderway
<1>9. Kept'
  <2>1. /\ \A k \in FactKey : IF sourceFacts'[k].known THEN sourceFacts'[k].items # {}
                                                       ELSE sourceFacts'[k].items = {}
        /\ \A k \in FactKey : \A x \in sourceFacts'[k].items : x[1] = k
    BY <1>3, <1>4, ReplacedShows
  <2>2. newest' # NoInventory => inventories'[newest'].status = "completed"
    BY <1>3, <1>5
  <2>3. newest' # NoInventory
    BY <1>3, InventoryAssumption
  <2> QED
    BY <2>1, <2>2, <2>3 DEF Kept
<1>10. Unbroken(i)'
  BY <1>1, <1>2, <1>3 DEF Unbroken
<1>11. Shown' = ItemsOf(i)'
  BY <1>1, <1>2, <1>3, <1>4, ReplacedShows DEF staged
<1>12. SnapshotIsLastComplete'
  BY <1>3, <1>10, <1>11, InventoryAssumption DEF SnapshotIsLastComplete, Shown
<1> QED
  BY <1>6, <1>8, <1>9, <1>12

\* Memory and time leave the inventories alone.
LEMMA MemoryStep ==
  ASSUME InventoryInv, InventoryTypeOK', UNCHANGED <<inventories, accepted, staging, sourceFacts, newest>>,
         source'.status = source.status, source'.completed = source.completed
  PROVE  InventoryInv'
<1>1. Staged' /\ OneUnderway' /\ Kept'
  BY DEF InventoryInv, Staged, OneUnderway, Underway, Leads, ItemsOf, Kept
<1> QED
  BY <1>1, SnapshotStays DEF InventoryInv

\* The invariant of the inventories of a source.
THEOREM InventoryInvariant == InventorySpec => []InventoryInv
<1>1. InventoryInv /\ [InventoryNext]_inventoryVars => InventoryInv'
  <2> SUFFICES ASSUME InventoryInv, [InventoryNext]_inventoryVars PROVE InventoryInv'
    OBVIOUS
  <2>1. ASSUME NEW i \in Inventory, NEW p \in Page, IngestSourcePage(i, p) PROVE InventoryInv'
    BY <2>1, FailStep, StageStep, CompleteStep DEF IngestSourcePage
  <2>2. ASSUME NEW s \in Shelf, NEW k \in FactKey, NEW about \in {"sourced", "unsourced"},
               UpsertMemoryFact(s, k, about) \/ FactExpires(s, k)
        PROVE  InventoryInv'
    <3>1. InventoryTypeOK'
      <4>1. memory' \in [Shelf -> [FactKey -> {"none", "sourced", "unsourced", "expired"}]]
        <5>1. memory \in [Shelf -> [FactKey -> {"none", "sourced", "unsourced", "expired"}]]
          BY DEF InventoryInv, InventoryTypeOK
        <5>2. \E a \in {"sourced", "unsourced", "expired"} : memory' = [memory EXCEPT ![s][k] = a]
          BY <2>2 DEF UpsertMemoryFact, FactExpires
        <5> QED
          BY <5>1, <5>2
      <4> QED
        BY <2>2, <4>1 DEF UpsertMemoryFact, FactExpires, InventoryInv, InventoryTypeOK
    <3> QED
      BY <2>2, <3>1, MemoryStep DEF UpsertMemoryFact, FactExpires
  <2>3. CASE SourceAges
    <3>1. InventoryTypeOK' /\ source'.status = source.status /\ source'.completed = source.completed
      BY <2>3 DEF SourceAges, InventoryInv, InventoryTypeOK
    <3> QED
      BY <2>3, <3>1, MemoryStep DEF SourceAges
  <2>4. CASE UNCHANGED inventoryVars
    <3>1. InventoryTypeOK'
      BY <2>4 DEF inventoryVars, InventoryInv, InventoryTypeOK
    <3> QED
      BY <2>4, <3>1, MemoryStep DEF inventoryVars
  <2>5. ASSUME NEW s \in Shelf, NEW k \in FactKey, FactExpires(s, k) PROVE InventoryInv'
    BY <2>2, <2>5
  <2> QED
    BY <2>1, <2>2, <2>3, <2>4, <2>5 DEF InventoryNext
<1> QED
  BY InventoryInitially, <1>1, PTL DEF InventorySpec

\* Inventories, facts and memory stay well formed.
THEOREM InventoryTypes == InventorySpec => []InventoryTypeOK
  BY InventoryInvariant, PTL DEF InventoryInv

\* The source shows exactly the items of the last completed inventory, whose pages form
\* one unbroken chain.
THEOREM InventorySnapshot == InventorySpec => []SnapshotIsLastComplete
  BY InventoryInvariant, PTL DEF InventoryInv

\* A fact reported as current is in a complete snapshot that no later attempt disturbs.
THEOREM InventoryCurrentIsBacked == InventorySpec => []CurrentIsBacked
<1>1. InventoryInv => CurrentIsBacked
  <2> SUFFICES ASSUME InventoryInv, NEW k \in FactKey,
                      \/ \E s \in Shelf : memory[s][k] = "sourced" /\ ReadsAsCurrent(s, k)
                      \/ SearchedAsCurrent(k)
               PROVE  /\ \A i \in Inventory : inventories[i].status # "in_progress"
                      /\ newest # NoInventory
                      /\ sourceFacts[k].known => k \in KeysOf(ItemsOf(newest))
    BY DEF CurrentIsBacked
  <2>1. ~SourceStale /\ ~sourceFacts[k].missing
    BY DEF ReadsAsCurrent, SearchedAsCurrent
  <2>2. \A i \in Inventory : inventories[i].status # "in_progress"
    BY <2>1 DEF SourceStale, InventoryInv, OneUnderway, Underway
  <2>3. newest # NoInventory
    BY <2>1 DEF SourceStale, InventoryInv, Kept
  <2>4. ASSUME sourceFacts[k].known PROVE k \in KeysOf(ItemsOf(newest))
    <3>1. PICK x \in sourceFacts[k].items : x[1] = k
      BY <2>4 DEF InventoryInv, Kept
    <3>2. x \in Shown
      BY <2>1, <3>1, ShownItems
    <3>3. Shown = ItemsOf(newest)
      BY <2>3 DEF InventoryInv, SnapshotIsLastComplete, Shown
    <3> QED
      BY <3>1, <3>2, <3>3 DEF KeysOf
  <2> QED
    BY <2>2, <2>3, <2>4
<1> QED
  BY InventoryInvariant, <1>1, PTL

(***************************************************************************)
(* Workflow receipts                                                        *)
(*                                                                         *)
(* The recorded state of a resource is that of the last decision that moved *)
(* it; a decision moves it only to a newer observation.                     *)
(***************************************************************************)
DecisionKind == {"stale", "initial_baseline", "unchanged", "blocker", "recovery", "failure", "change"}
DecisionRecord == [decision : DecisionKind, observed : Seen]

FlowTypeOK ==
  /\ \A k \in DOMAIN intents : k[1] \in Seen
  /\ DOMAIN resState = Resource /\ \A r \in Resource : resState[r].rank \in Nat
  /\ decided \in [Resource -> Seq(DecisionRecord)]
  /\ \A r \in Resource : \A i \in 1 .. Len(decided[r]) : SeenInfo[decided[r][i].observed].resource = r

\* The state of a resource is what the last decision about it saw.
StateIsLast ==
  \A r \in Resource :
    IF decided[r] = << >> THEN resState[r] = NoState
    ELSE LET e == decided[r][Len(decided[r])].observed
         IN resState[r].class = SeenInfo[e].class /\ resState[r].print = SeenInfo[e].print

\* Between two failures with one fingerprint there is a decision with another one.
FailuresApart(q) ==
  \A i, j \in 1 .. Len(q) :
    /\ i < j /\ q[i].decision = "failure" /\ q[j].decision = "failure"
    /\ SeenInfo[q[i].observed].print = SeenInfo[q[j].observed].print
    => \E k \in i + 1 .. j - 1 : SeenInfo[q[k].observed].print # SeenInfo[q[i].observed].print

FlowInv == FlowTypeOK /\ StateIsLast /\ NewestStateWins /\ OutageAnnouncedOnce

\* A failure is announced only where the recorded state was another one.
LEMMA FailureIsNews ==
  ASSUME NEW d, NEW e \in Seen, NEW baseline \in BOOLEAN, Decision(d, e, baseline) = "failure"
  PROVE  ~SameState(e)
<1>1. CASE SeenInfo[e].type = "failure"
  BY <1>1 DEF Decision, FailureDecision
<1>2. CASE SeenInfo[e].type = "recovery"
  BY <1>2 DEF Decision
<1>3. CASE SeenInfo[e].type \notin {"failure", "recovery"}
  <2>1. ResourceDecision(d, e, baseline) = "failure"
    BY <1>3 DEF Decision
  <2> QED
    BY <2>1 DEF ResourceDecision
<1> QED
  BY <1>1, <1>2, <1>3

\* A decision is stale exactly when the state is as new as the observation.
LEMMA StaleDecision ==
  ASSUME NEW d, NEW e \in Seen, NEW baseline \in BOOLEAN
  PROVE  /\ Decision(d, e, baseline) = "stale" <=> Stale(e)
         /\ Decision(d, e, baseline) \in DecisionKind
<1>1. FailureDecision(e) \in {"unchanged", "failure"}
  BY DEF FailureDecision
<1>2. ResourceDecision(d, e, baseline)
        \in {"initial_baseline", "unchanged", "blocker", "recovery", "failure", "change"}
  BY DEF ResourceDecision
<1>3. CASE Stale(e)
  <2>1. Decision(d, e, baseline) = "stale"
    BY <1>3 DEF Decision
  <2> QED
    BY <1>3, <2>1 DEF DecisionKind
<1>4. CASE ~Stale(e)
  <2>1. CASE SeenInfo[e].type = "failure"
    BY <1>1, <1>4, <2>1 DEF Decision, DecisionKind
  <2>2. CASE SeenInfo[e].type = "recovery"
    BY <1>4, <2>2 DEF Decision, DecisionKind
  <2>3. CASE SeenInfo[e].type \notin {"failure", "recovery"}
    <3>1. Decision(d, e, baseline) = ResourceDecision(d, e, baseline)
      BY <1>4, <2>3 DEF Decision
    <3> QED
      BY <1>2, <1>4, <3>1 DEF DecisionKind
  <2> QED
    BY <2>1, <2>2, <2>3
<1> QED
  BY <1>3, <1>4

\* A resource without observations has no state and no notice.
LEMMA FlowInitially == FlowInit => FlowInv
<1> SUFFICES ASSUME FlowInit PROVE FlowInv
  OBVIOUS
<1>1. /\ \A r \in Resource : decided[r] = << >> /\ resState[r] = NoState
      /\ DOMAIN resState = Resource /\ DOMAIN intents = {}
  BY DEF FlowInit
<1>2. decided \in [Resource -> Seq(DecisionRecord)]
  BY DEF FlowInit
<1>3. FlowTypeOK
  BY <1>1, <1>2 DEF FlowTypeOK, NoState
<1> QED
  BY <1>1, <1>3 DEF FlowInv, StateIsLast, NewestStateWins, OutageAnnouncedOnce

\* Everything but a decision leaves states, intents and decisions alone.
LEMMA FlowFrame ==
  ASSUME FlowInv, UNCHANGED <<intents, resState, decided>>
  PROVE  FlowInv'
  BY DEF FlowInv, FlowTypeOK, StateIsLast, NewestStateWins, OutageAnnouncedOnce

\* One more decision about a resource, made where the state was another one if it is a
\* failure.
LEMMA OneMoreDecision ==
  ASSUME NEW s \in Seq(DecisionRecord), NEW x \in DecisionRecord, NEW t, t = Append(s, x), FailuresApart(s),
         x.decision = "failure" /\ s # << >> =>
           SeenInfo[s[Len(s)].observed].print # SeenInfo[x.observed].print
  PROVE  FailuresApart(t)
<1>1. /\ Len(s) \in Nat /\ Len(t) = Len(s) + 1 /\ t[Len(t)] = x
      /\ \A i \in 1 .. Len(s) : t[i] = s[i]
  OBVIOUS
<1> SUFFICES ASSUME NEW i \in 1 .. Len(t), NEW j \in 1 .. Len(t), i < j,
                    t[i].decision = "failure", t[j].decision = "failure",
                    SeenInfo[t[i].observed].print = SeenInfo[t[j].observed].print
             PROVE  \E k \in i + 1 .. j - 1 :
                      SeenInfo[t[k].observed].print # SeenInfo[t[i].observed].print
  BY DEF FailuresApart
<1>2. CASE j <= Len(s)
  <2>1. i \in 1 .. Len(s) /\ j \in 1 .. Len(s)
    BY <1>1, <1>2
  <2>2. PICK k \in i + 1 .. j - 1 : SeenInfo[s[k].observed].print # SeenInfo[s[i].observed].print
    BY <1>1, <2>1, SMTT(40) DEF FailuresApart
  <2>3. k \in 1 .. Len(s)
    BY <1>1, <2>1, <2>2
  <2> QED
    BY <1>1, <2>1, <2>2, <2>3
<1>3. CASE j = Len(t)
  <2>1. i \in 1 .. Len(s) /\ Len(s) \in 1 .. Len(s) /\ s # << >>
    BY <1>1, <1>3
  <2>2. SeenInfo[t[Len(s)].observed].print # SeenInfo[x.observed].print
    BY <1>1, <1>3, <2>1
  <2>3. i # Len(s)
    BY <1>1, <1>3, <2>2
  <2>4. Len(s) \in i + 1 .. j - 1
    BY <1>1, <1>3, <2>1, <2>3
  <2> QED
    BY <1>1, <1>3, <2>2, <2>4
<1> QED
  BY <1>1, <1>2, <1>3

\* The observation e of an occurrence is consumed under this decision.
LEMMA DecisionStep ==
  ASSUME FlowInv, NEW o \in Occ, NEW e \in Seen, EnqueueAutomationEventNotice(o, e)
  PROVE  FlowInv'
<1> USE DEF FlowInv
<1> DEFINE res == SeenInfo[e].resource
<1>1. PICK baseline \in BOOLEAN, decision \in DecisionKind :
        /\ decision = Decision(flows[o.flow], e, baseline)
        /\ intents' = [k \in DOMAIN intents \cup {<<e, o.flow, o.trigger>>} |->
                         IF k \in DOMAIN intents THEN intents[k] ELSE decision]
        /\ IF decision = "stale" THEN UNCHANGED <<resState, decided>>
           ELSE /\ resState' = [resState EXCEPT ![res] = [class |-> SeenInfo[e].class,
                                  print |-> SeenInfo[e].print, rank |-> SeenInfo[e].rank]]
                /\ decided' = [decided EXCEPT ![res] = Append(@, [decision |-> decision, observed |-> e])]
  <2> DEFINE base == \E r \in Recorded(o, "running") : r.baseline
  <2>1. base \in BOOLEAN
    OBVIOUS
  <2> WITNESS base \in BOOLEAN
  <2>2. Decision(flows[o.flow], e, base) \in DecisionKind
    BY <2>1, StaleDecision
  <2> WITNESS Decision(flows[o.flow], e, base) \in DecisionKind
  <2> QED
    BY DEF EnqueueAutomationEventNotice
<1>2. res \in Resource /\ SeenInfo[e].rank \in Nat
  BY FlowAssumption
<1>3. /\ DOMAIN intents' = DOMAIN intents \cup {<<e, o.flow, o.trigger>>}
      /\ \A k \in DOMAIN intents' : k \in DOMAIN intents \/ k[1] = e
  BY <1>1
<1>4. decision = "stale" <=> SeenInfo[e].rank <= resState[res].rank
  BY <1>1, StaleDecision DEF Stale
<1>5. CASE decision = "stale"
  <2>1. UNCHANGED <<resState, decided>>
    BY <1>1, <1>5
  <2>2. FlowTypeOK'
    BY <1>3, <2>1 DEF FlowTypeOK
  <2>3. NewestStateWins'
    BY <1>3, <1>4, <1>5, <2>1 DEF NewestStateWins
  <2>4. StateIsLast' /\ OutageAnnouncedOnce'
    BY <2>1 DEF StateIsLast, OutageAnnouncedOnce
  <2> QED
    BY <2>2, <2>3, <2>4
<1>6. CASE decision # "stale"
  <2> DEFINE x == [decision |-> decision, observed |-> e]
             s == decided[res]
  <2>1. x \in DecisionRecord /\ s \in Seq(DecisionRecord) /\ x.observed = e /\ x.decision = decision
    BY <1>2 DEF DecisionRecord, FlowTypeOK
  <2>2. /\ DOMAIN resState' = Resource
        /\ resState'[res].rank = SeenInfo[e].rank /\ resState'[res].class = SeenInfo[e].class
        /\ resState'[res].print = SeenInfo[e].print
        /\ \A r \in Resource \ {res} : resState'[r] = resState[r]
    BY <1>1, <1>2, <1>6 DEF FlowTypeOK
  <2>3. /\ decided' \in [Resource -> Seq(DecisionRecord)] /\ decided'[res] = Append(s, x)
        /\ \A r \in Resource \ {res} : decided'[r] = decided[r]
    <3>1. Append(s, x) \in Seq(DecisionRecord) /\ decided' = [decided EXCEPT ![res] = Append(s, x)]
      BY <1>1, <1>6, <2>1
    <3> HIDE DEF s, x
    <3> QED
      BY <1>2, <3>1 DEF FlowTypeOK
  <2> HIDE DEF x, s
  <2>4. /\ Len(decided'[res]) = Len(s) + 1 /\ Len(s) \in Nat /\ decided'[res] # << >>
        /\ decided'[res][Len(s) + 1] = x /\ \A i \in 1 .. Len(s) : decided'[res][i] = s[i]
    BY <2>1, <2>3, SMTT(40)
  <2>5. FlowTypeOK'
    <3>1. \A r \in Resource : resState'[r].rank \in Nat
      BY <1>2, <2>2 DEF FlowTypeOK
    <3>2. ASSUME NEW r \in Resource, NEW i \in 1 .. Len(decided'[r])
          PROVE  SeenInfo[decided'[r][i].observed].resource = r
      <4>1. CASE r # res
        BY <2>3, <4>1 DEF FlowTypeOK
      <4>2. CASE r = res /\ i = Len(s) + 1
        BY <2>1, <2>4, <4>2
      <4>3. CASE r = res /\ i # Len(s) + 1
        <5>1. i \in 1 .. Len(s)
          BY <2>4, <4>3
        <5> QED
          BY <1>2, <2>4, <4>3, <5>1 DEF FlowTypeOK, s
      <4> QED
        BY <4>1, <4>2, <4>3
    <3> QED
      BY <1>3, <2>2, <2>3, <3>1, <3>2 DEF FlowTypeOK
  <2>6. StateIsLast'
    <3>1. /\ decided'[res] # << >> /\ Len(decided'[res]) = Len(s) + 1
          /\ decided'[res][Len(decided'[res])].observed = e
      BY <2>1, <2>4
    <3> QED
      BY <2>2, <2>3, <3>1 DEF StateIsLast
  <2>7. NewestStateWins'
    <3>1. resState[res].rank \in Nat /\ resState[res].rank <= SeenInfo[e].rank
      BY <1>2, <1>4, <1>6 DEF FlowTypeOK
    <3>2. ASSUME NEW k \in DOMAIN intents
          PROVE  SeenInfo[k[1]].rank <= resState'[SeenInfo[k[1]].resource].rank
      <4>1. /\ k[1] \in Seen /\ SeenInfo[k[1]].resource \in Resource /\ SeenInfo[k[1]].rank \in Nat
            /\ SeenInfo[k[1]].rank <= resState[SeenInfo[k[1]].resource].rank
        BY FlowAssumption DEF FlowTypeOK, NewestStateWins
      <4> QED
        BY <1>2, <2>2, <3>1, <4>1
    <3>3. SeenInfo[e].rank <= resState'[SeenInfo[e].resource].rank
      BY <1>2, <2>2
    <3> QED
      BY <1>3, <3>2, <3>3 DEF NewestStateWins
  <2>8. OutageAnnouncedOnce'
    <3>1. decision = "failure" /\ s # << >> =>
            SeenInfo[s[Len(s)].observed].print # SeenInfo[x.observed].print
      <4> SUFFICES ASSUME decision = "failure", s # << >>,
                          SeenInfo[s[Len(s)].observed].print = SeenInfo[e].print
                   PROVE  FALSE
        BY <2>1
      <4> DEFINE last == s[Len(s)].observed
      <4>1. Len(s) \in 1 .. Len(s)
        BY <2>1
      <4>2. last \in Seen /\ SeenInfo[last].resource = res
        <5>1. s[Len(s)] \in DecisionRecord
          BY <2>1, <4>1
        <5>2. \A i \in 1 .. Len(s) : SeenInfo[s[i].observed].resource = res
          BY <1>2 DEF FlowTypeOK, s
        <5> QED
          BY <4>1, <5>1, <5>2 DEF DecisionRecord
      <4>3. SeenInfo[last].class = SeenInfo[e].class
        BY <4>2, FingerprintAssumption
      <4>4. resState[res].class = SeenInfo[last].class /\ resState[res].print = SeenInfo[last].print
        BY <1>2 DEF StateIsLast, s
      <4>5. SameState(e)
        BY <4>3, <4>4 DEF SameState
      <4> QED
        BY <1>1, <4>5, FailureIsNews
    <3>2. \A r \in Resource : FailuresApart(decided[r])
      BY DEF OutageAnnouncedOnce, FailuresApart
    <3>3. FailuresApart(decided'[res])
      <4>1. FailuresApart(s)
        BY <1>2, <3>2 DEF s
      <4>2. x.decision = "failure" /\ s # << >> =>
              SeenInfo[s[Len(s)].observed].print # SeenInfo[x.observed].print
        BY <2>1, <3>1
      <4>3. decided'[res] = Append(s, x)
        BY <2>3
      <4> QED
        BY <2>1, <4>1, <4>2, <4>3, OneMoreDecision
    <3>4. \A r \in Resource : FailuresApart(decided'[r])
      BY <2>3, <3>2, <3>3
    <3> QED
      BY <3>4 DEF OutageAnnouncedOnce, FailuresApart
  <2> QED
    BY <2>5, <2>6, <2>7, <2>8
<1> QED
  BY <1>5, <1>6

\* The invariant of the decisions.
THEOREM FlowInvariant == FlowSpec => []FlowInv
<1>1. FlowInv /\ [FlowNext]_flowVars => FlowInv'
  <2> SUFFICES ASSUME FlowInv, [FlowNext]_flowVars PROVE FlowInv'
    OBVIOUS
  <2>1. \/ UNCHANGED <<intents, resState, decided>>
        \/ \E o \in Occ, e \in Seen : EnqueueAutomationEventNotice(o, e)
    BY DEF FlowNext, DefinitionNext, OccurrenceNext, ObservationNext, NoticeNext, flowVars, PutWorkflow,
           RouteChanges, ThreadChanges, StartOccurrence, EndOccurrence, AppendScheduleEvent, AppendAutomationEvent,
           RecordPage, EnqueueDigestNotice, EnqueueWorkflowNotice
  <2> QED
    BY <2>1, FlowFrame, DecisionStep
<1> QED
  BY FlowInitially, <1>1, PTL DEF FlowSpec

\* However polls overlap, the state of a resource is the newest one that was consumed.
THEOREM FlowNewestStateWins == FlowSpec => []NewestStateWins
  BY FlowInvariant, PTL DEF FlowInv

\* Between two announced failures with one fingerprint the recorded state was different.
THEOREM FlowOutageOnce == FlowSpec => []OutageAnnouncedOnce
  BY FlowInvariant, PTL DEF FlowInv
=============================================================================
