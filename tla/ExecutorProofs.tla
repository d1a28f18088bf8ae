--------------------------- MODULE ExecutorProofs ---------------------------
(***************************************************************************)
(* Theorems about Executor, for any number of processes, tasks and faults:  *)
(* no task is run twice, and a terminal finish event tells the status of    *)
(* its row; both rest on what the Work store lets the status do.  And, from *)
(* how a process chains and admits its jobs: one task of a session runs at  *)
(* a time, a drained process runs none, and no running row is orphaned.     *)
(***************************************************************************)
EXTENDS Executor, SequenceTheorems, WellFoundedInduction, TLAPS

\* What any step may do to a row: it is admitted, claimed, or patched forward.
Forward(t) ==
  \/ status'[t] = status[t]
  \/ status[t] = "absent" /\ status'[t] = "queued"
  \/ status[t] \notin Terminal /\ status'[t] \in {"running", "awaiting"} \cup Terminal

\* A row that was never claimed was never run.
RunOnce == \A t \in Task : /\ runs[t] <= 1
                           /\ status[t] \in {"absent", "queued"} => runs[t] = 0

StatusTyped == status \in [Task -> Status] /\ runs \in [Task -> Nat]

RunInv == StatusTyped /\ RunOnce

-----------------------------------------------------------------------------
\* A patch moves one row forward or none.
LEMMA PatchForward ==
  ASSUME status \in [Task -> Status], NEW t \in Task, NEW st, NEW ok \in BOOLEAN,
         PatchTask(t, st, ok)
  PROVE  /\ status' \in [Task -> Status]
         /\ \A u \in Task : Forward(u) /\ (status'[u] = "queued" => status[u] = "queued")
                                       /\ (status'[u] = "absent" => status[u] = "absent")
BY DEF PatchTask, MayMove, Forward, Status, Terminal

\* A patch that was answered set the status.
LEMMA PatchSets ==
  ASSUME status \in [Task -> Status], NEW t \in Task, NEW st, PatchTask(t, st, TRUE)
  PROVE  status'[t] = st
BY DEF PatchTask

\* The steps of a process and of a task that never write a row.
Silent(p, t) ==
  \/ adoptQueuedTask(p, t) \/ acquire(p, t) \/ dispatch(p, t) \/ waitForTask(p, t)
  \/ agentEnds(p, t) \/ settle(p, t) \/ flushPatches(p, t) \/ publishFinish(p, t)
  \/ cancelJob(p, t) \/ cancelRow(p, t) \/ cancelFinish(p, t)
  \/ timeout(p, t) \/ markTaskAwaitingUserAuthorization(p, t)
  \/ drainQueuedTasks(p) \/ serve(p) \/ startDrain(p) \/ startShutdownDrain(p)
  \/ getDrainStatus(p) \/ resumeFromDrain(p) \/ dispose(p) \/ exit(p) \/ start(p)

\* The ones that do.
Admits(p, t) == startTask(p, t) \/ executeTask(p, t) \/ executeFixedToolTask(p, t)
Patches(p, t) == patch(p, t) \/ reconcile(p, t) \/ cancelPatch(p, t) \/ recoverTask(p, t)

\* Every step is one of these.
LEMMA StepCases ==
  ASSUME [Next]_vars
  PROVE  \/ UNCHANGED vars
         \/ \E p \in Proc : drainQueuedTasks(p) \/ serve(p) \/ startDrain(p) \/ startShutdownDrain(p)
              \/ getDrainStatus(p) \/ resumeFromDrain(p) \/ dispose(p) \/ exit(p) \/ start(p)
         \/ \E p \in Proc, t \in Task : Silent(p, t) \/ Admits(p, t) \/ Patches(p, t) \/ claimTask(p, t)
BY DEF Next, JobStep, Recovery, Silent, Admits, Patches

\* A silent step leaves every row and its count of runs alone.
LEMMA SilentStep ==
  ASSUME NEW p, NEW t, Silent(p, t)
  PROVE  UNCHANGED <<status, runs>>
<1>1. CASE \/ adoptQueuedTask(p, t) \/ acquire(p, t) \/ dispatch(p, t) \/ waitForTask(p, t)
  BY <1>1 DEF adoptQueuedTask, acquire, dispatch, waitForTask, durable
<1>2. CASE agentEnds(p, t) \/ settle(p, t) \/ flushPatches(p, t) \/ publishFinish(p, t)
  BY <1>2 DEF agentEnds, settle, flushPatches, publishFinish, durable
<1>3. CASE \/ cancelJob(p, t) \/ cancelRow(p, t) \/ cancelFinish(p, t) \/ timeout(p, t)
           \/ markTaskAwaitingUserAuthorization(p, t)
  BY <1>3 DEF cancelJob, cancelRow, cancelFinish, timeout, markTaskAwaitingUserAuthorization, durable
<1>4. CASE drainQueuedTasks(p) \/ serve(p) \/ startDrain(p) \/ startShutdownDrain(p)
  BY <1>4 DEF drainQueuedTasks, serve, startDrain, startShutdownDrain, EnterDrain, durable
<1>5. CASE getDrainStatus(p) \/ resumeFromDrain(p) \/ dispose(p) \/ exit(p) \/ start(p)
  BY <1>5 DEF getDrainStatus, resumeFromDrain, dispose, exit, start, durable
<1> QED BY <1>1, <1>2, <1>3, <1>4, <1>5 DEF Silent

\* A step that patches calls patchTask once.
LEMMA PatchesStep ==
  ASSUME NEW p, NEW t, Patches(p, t)
  PROVE  /\ runs' = runs
         /\ UNCHANGED status \/ \E ok \in BOOLEAN : \E st : PatchTask(t, st, ok)
<1>1. CASE patch(p, t)
  BY <1>1 DEF patch
<1>2. CASE reconcile(p, t)
  BY <1>2 DEF reconcile
<1>3. CASE cancelPatch(p, t)
  BY <1>3 DEF cancelPatch
<1>4. CASE recoverTask(p, t)
  BY <1>4 DEF recoverTask
<1> QED BY <1>1, <1>2, <1>3, <1>4 DEF Patches

\* A claim is won once and only by a queued row.
LEMMA ClaimStep ==
  ASSUME StatusTyped, NEW p, NEW t \in Task, claimTask(p, t)
  PROVE  /\ StatusTyped'
         /\ \A u \in Task : Forward(u)
         /\ \/ UNCHANGED <<status, runs>>
            \/ /\ status[t] = "queued" /\ status' = [status EXCEPT ![t] = "running"]
               /\ runs' = runs \/ runs' = [runs EXCEPT ![t] = @ + 1]
BY DEF claimTask, Claimable, StatusTyped, Forward, Status, Terminal

\* Admission makes a queued row of an absent one.
LEMMA AdmitStep ==
  ASSUME StatusTyped, NEW p, NEW t \in Task, Admits(p, t)
  PROVE  /\ runs' = runs /\ status' = [status EXCEPT ![t] = "queued"]
         /\ status[t] \in {"absent", "queued"}
BY DEF Admits, startTask, executeTask, executeFixedToolTask

\* Every row moves forward, and RunInv is preserved.
LEMMA NextRun ==
  ASSUME RunInv, [Next]_vars
  PROVE  RunInv' /\ \A u \in Task : Forward(u)
<1>1. ASSUME UNCHANGED <<status, runs>> PROVE RunInv' /\ \A u \in Task : Forward(u)
  BY <1>1 DEF RunInv, StatusTyped, RunOnce, Forward
<1>2. CASE UNCHANGED vars
  BY <1>1, <1>2 DEF vars, durable
<1>3. CASE \E p \in Proc : drainQueuedTasks(p) \/ serve(p) \/ startDrain(p) \/ startShutdownDrain(p)
              \/ getDrainStatus(p) \/ resumeFromDrain(p) \/ dispose(p) \/ exit(p) \/ start(p)
  BY <1>1, <1>3, SilentStep DEF Silent
<1>4. ASSUME NEW p \in Proc, NEW t \in Task, Silent(p, t) PROVE RunInv' /\ \A u \in Task : Forward(u)
  BY <1>1, <1>4, SilentStep
<1>5. ASSUME NEW p \in Proc, NEW t \in Task, Admits(p, t) PROVE RunInv' /\ \A u \in Task : Forward(u)
  <2>1. runs' = runs /\ status' = [status EXCEPT ![t] = "queued"] /\ status[t] \in {"absent", "queued"}
    BY <1>5, AdmitStep DEF RunInv
  <2> QED BY <2>1 DEF RunInv, StatusTyped, RunOnce, Forward, Status
<1>6. ASSUME NEW p \in Proc, NEW t \in Task, Patches(p, t) PROVE RunInv' /\ \A u \in Task : Forward(u)
  <2>1. runs' = runs /\ (UNCHANGED status \/ \E ok \in BOOLEAN : \E st : PatchTask(t, st, ok))
    BY <1>6, PatchesStep
  <2>2. CASE UNCHANGED status
    BY <1>1, <2>1, <2>2
  <2>3. ASSUME NEW ok \in BOOLEAN, NEW st, PatchTask(t, st, ok) PROVE RunInv' /\ \A u \in Task : Forward(u)
    <3>1. /\ status' \in [Task -> Status]
          /\ \A u \in Task : Forward(u) /\ (status'[u] = "queued" => status[u] = "queued")
                                        /\ (status'[u] = "absent" => status[u] = "absent")
      BY <2>3, PatchForward DEF RunInv, StatusTyped
    <3> QED BY <2>1, <3>1 DEF RunInv, StatusTyped, RunOnce
  <2> QED BY <2>1, <2>2, <2>3
<1>7. ASSUME NEW p \in Proc, NEW t \in Task, claimTask(p, t) PROVE RunInv' /\ \A u \in Task : Forward(u)
  <2>1. /\ StatusTyped' /\ \A u \in Task : Forward(u)
        /\ \/ UNCHANGED <<status, runs>>
           \/ /\ status[t] = "queued" /\ status' = [status EXCEPT ![t] = "running"]
              /\ runs' = runs \/ runs' = [runs EXCEPT ![t] = @ + 1]
    BY <1>7, ClaimStep DEF RunInv
  <2> QED BY <2>1 DEF RunInv, StatusTyped, RunOnce
<1> QED BY <1>2, <1>3, <1>4, <1>5, <1>6, <1>7, StepCases

\* No task is run twice, whatever crashes, restarts, lost claims and rival processes do: the
\* single-winner claim and a recovery that never queues a row again (claimTask,
\* recoverInterruptedTasks).
THEOREM ExecutorNoReplay == Spec => []NoReplay
<1>1. Init => RunInv
  BY DEF Init, RunInv, StatusTyped, RunOnce, Status
<1>2. RunInv /\ [Next]_vars => RunInv'
  BY NextRun
<1>3. RunInv => NoReplay
  BY DEF RunInv, RunOnce, NoReplay
<1> QED BY <1>1, <1>2, <1>3, PTL DEF Spec

-----------------------------------------------------------------------------
(* Finish events.                                                          *)

Cancel == {"none", "row", "local", "finish"}
Done == {"flush", "finish"}

\* A job about to write its finish event has the status of its row to tell.
Told(j, st) == j.phase \in Done /\ j.fin \in Terminal => st = j.fin

FinishTyped ==
  /\ job \in [Proc -> [Task -> Job]] /\ cancel \in [Proc -> [Task -> Cancel]]
  /\ finishes \in [Task -> SUBSET Status]

FinishInv ==
  /\ RunInv /\ FinishTyped /\ FinishAgrees
  /\ \A p \in Proc, t \in Task : /\ Told(job[p][t], status[t])
                                 /\ cancel[p][t] = "finish" => status[t] = "aborted"

\* A job that goes on to be done has something true to tell, or had before the step.
JobsTold ==
  /\ job' \in [Proc -> [Task -> Job]]
  /\ \A p \in Proc, t \in Task :
       \/ Told(job'[p][t], status'[t])
       \/ job[p][t].phase \in Done /\ job'[p][t].fin = job[p][t].fin

CancelsTold ==
  /\ cancel' \in [Proc -> [Task -> Cancel]]
  /\ \A p \in Proc, t \in Task :
       cancel'[p][t] = "finish" => cancel[p][t] = "finish" \/ status'[t] = "aborted"

\* What SetStep and LeaveStep need to know about a step: a terminal status stays.
Frozen == \A u \in Task : status[u] \in Terminal => status'[u] = status[u]

\* A step that writes no finish event.
LEMMA NoEventStep ==
  ASSUME FinishInv, RunInv', Frozen, JobsTold, CancelsTold, finishes' = finishes
  PROVE  FinishInv'
<1>1. FinishTyped'
  BY DEF FinishInv, FinishTyped, JobsTold, CancelsTold
<1>2. FinishAgrees'
  BY DEF FinishInv, FinishAgrees, Frozen
<1>3. ASSUME NEW p \in Proc, NEW t \in Task PROVE Told(job[p][t], status[t])'
  BY <1>3 DEF FinishInv, JobsTold, Told, Frozen
<1>4. ASSUME NEW p \in Proc, NEW t \in Task PROVE (cancel[p][t] = "finish" => status[t] = "aborted")'
  BY <1>4 DEF FinishInv, CancelsTold, Terminal, Frozen
<1> QED BY <1>1, <1>2, <1>3, <1>4 DEF FinishInv

\* A job goes on with j.
LEMMA SetStep ==
  ASSUME FinishTyped, NEW p \in Proc, NEW t \in Task, NEW j \in Job, Set(p, t, j),
         Told(j, status'[t]) \/ (job[p][t].phase \in Done /\ j.fin = job[p][t].fin),
         \A q \in Proc, u \in Task : Told(job[q][u], status[u]),
         \A u \in Task : status[u] \in Terminal => status'[u] = status[u]
  PROVE  JobsTold /\ CancelsTold
BY DEF FinishTyped, Set, JobsTold, CancelsTold, Told

\* The promise of a job settles.
LEMMA LeaveStep ==
  ASSUME FinishTyped, NEW p \in Proc, NEW t \in Task, Leave(p, t),
         \A q \in Proc, u \in Task : Told(job[q][u], status[u]),
         \A u \in Task : status[u] \in Terminal => status'[u] = status[u]
  PROVE  JobsTold /\ CancelsTold
<1>1. NoJob \in Job /\ Told(NoJob, status'[t])
  BY DEF NoJob, Job, Phase, Holding, Executing, Status, Told, Done
<1>2. \A j \in Job : [j EXCEPT !.phase = "slot"] \in Job /\ [j EXCEPT !.phase = "slot"].phase = "slot"
  BY DEF Job, Phase, Holding
<1>3. CancelsTold
  BY DEF Leave, FinishTyped, CancelsTold, Cancel
<1>4. JobsTold
  BY <1>1, <1>2 DEF Leave, FinishTyped, JobsTold, Told, Done
<1> QED BY <1>3, <1>4

\* Steps that only change the phase of one job.
LEMMA GotoStep ==
  ASSUME FinishInv, Frozen, NEW p \in Proc, NEW t \in Task, NEW ph \in Phase \ Done, Goto(p, t, ph)
  PROVE  JobsTold /\ CancelsTold
<1> DEFINE j == [job[p][t] EXCEPT !.phase = ph]
<1>1. job[p][t] \in Job
  BY DEF FinishInv, FinishTyped
<1>2. j \in Job /\ j.phase = ph
  BY <1>1 DEF Job
<1>3. Set(p, t, j) /\ Told(j, status'[t])
  BY <1>2 DEF Goto, Told
<1> HIDE DEF j
<1> QED BY <1>2, <1>3, SetStep DEF FinishInv, Frozen

\* A job that failed has decided how it ends and not yet told anyone.
LEMMA CaughtJob ==
  ASSUME NEW t, NEW j \in Job, NEW st
  PROVE  Caught(t, j) \in Job /\ Told(Caught(t, j), st)
<1>1. CatchStatus(t, j) \in Status
  BY DEF CatchStatus, Status, Terminal
<1> QED BY <1>1 DEF Caught, Job, Told, Phase, Holding, Executing, Done

\* A claim that failed joins the run or leaves.
LEMMA UnclaimedStep ==
  ASSUME FinishInv, Frozen, NEW p \in Proc, NEW t \in Task, Unclaimed(p, t)
  PROVE  JobsTold /\ CancelsTold
<1>1. CASE Goto(p, t, "joined")
  BY <1>1, GotoStep DEF Phase, Holding, Done
<1>2. CASE Leave(p, t)
  BY <1>2, LeaveStep DEF FinishInv, Frozen
<1> QED BY <1>1, <1>2 DEF Unclaimed

\* Jobs and cancels are left alone.
LEMMA SameJobs ==
  ASSUME FinishInv, Frozen, UNCHANGED <<job, cancel>>
  PROVE  JobsTold /\ CancelsTold
BY DEF FinishInv, FinishTyped, Frozen, JobsTold, CancelsTold, Told

\* One job changes and is not done.
LEMMA PutStep ==
  ASSUME FinishInv, Frozen, NEW p \in Proc, NEW t \in Task, NEW j \in Job, j.phase \notin Done,
         job' = [job EXCEPT ![p][t] = j], UNCHANGED cancel
  PROVE  JobsTold /\ CancelsTold
<1>1. CancelsTold
  BY DEF FinishInv, FinishTyped, CancelsTold
<1>2. job' \in [Proc -> [Task -> Job]] /\ job'[p][t] = j
  BY DEF FinishInv, FinishTyped
<1>3. \A q \in Proc, u \in Task : (q = p /\ u = t) \/ job'[q][u] = job[q][u]
  BY DEF FinishInv, FinishTyped
<1> QED BY <1>1, <1>2, <1>3 DEF FinishInv, Frozen, JobsTold, Told

\* The state of a task without a job.
LEMMA NoJobType == NoJob \in Job
BY DEF NoJob, Job, Phase, Holding, Executing, Status

\* A new job.
LEMMA NewJobStep ==
  ASSUME FinishInv, Frozen, NEW p \in Proc, NEW t \in Task, NewJob(p, t), UNCHANGED cancel
  PROVE  JobsTold /\ CancelsTold
<1> DEFINE j == [NoJob EXCEPT !.phase = "tail"]
<1>1. j \in Job /\ j.phase = "tail"
  BY NoJobType DEF Job, Phase
<1>2. job' = [job EXCEPT ![p][t] = j]
  BY DEF NewJob
<1> HIDE DEF j
<1> QED BY <1>1, <1>2, PutStep DEF Done

\* Admission, adoption, the limiter and the claim.
LEMMA DispatchStep ==
  ASSUME FinishInv, Frozen, NEW p \in Proc, NEW t \in Task,
         \/ Admits(p, t) \/ adoptQueuedTask(p, t) \/ acquire(p, t) \/ dispatch(p, t)
         \/ claimTask(p, t) \/ waitForTask(p, t)
  PROVE  JobsTold /\ CancelsTold /\ finishes' = finishes
<1>1. CASE Admits(p, t)
  BY <1>1, NewJobStep, SameJobs DEF Admits, startTask, executeTask, executeFixedToolTask
<1>2. CASE adoptQueuedTask(p, t)
  BY <1>2, NewJobStep, SameJobs DEF adoptQueuedTask, durable
<1>3. CASE acquire(p, t)
  <2>1. finishes' = finishes
    BY <1>3 DEF acquire, durable
  <2>2. CASE Leave(p, t)
    BY <2>1, <2>2, LeaveStep DEF FinishInv, Frozen
  <2>3. ASSUME NEW ph \in {"slot", "waiting"}, job' = [job EXCEPT ![p][t].phase = ph], UNCHANGED cancel
        PROVE  JobsTold /\ CancelsTold
    <3> DEFINE j == [job[p][t] EXCEPT !.phase = ph]
    <3>1. job[p][t] \in Job
      BY DEF FinishInv, FinishTyped
    <3>2. j \in Job /\ j.phase = ph
      BY <3>1, <2>3 DEF Job, Phase, Holding
    <3>3. job' = [job EXCEPT ![p][t] = j]
      BY <2>3, <3>1 DEF FinishInv, FinishTyped
    <3>4. ph \notin Done
      BY <2>3 DEF Done
    <3> HIDE DEF j
    <3> QED BY <2>3, <3>2, <3>3, <3>4, PutStep
  <2> QED BY <1>3, <2>1, <2>2, <2>3 DEF acquire
<1>4. CASE dispatch(p, t)
  <2>1. finishes' = finishes /\ (Unclaimed(p, t) \/ Goto(p, t, "claim"))
    BY <1>4 DEF dispatch, durable
  <2>2. "claim" \in Phase \ Done
    BY DEF Phase, Holding, Executing, Done
  <2> QED BY <2>1, <2>2, UnclaimedStep, GotoStep
<1>5. CASE claimTask(p, t)
  <2> DEFINE j == [job[p][t] EXCEPT !.phase = "agent", !.rec = "running"]
  <2>1. finishes' = finishes /\ (Unclaimed(p, t) \/ Set(p, t, j))
    BY <1>5 DEF claimTask
  <2>2. job[p][t] \in Job
    BY DEF FinishInv, FinishTyped
  <2>3. j \in Job /\ Told(j, status'[t])
    BY <2>2 DEF Job, Phase, Holding, Executing, Status, Told, Done
  <2> HIDE DEF j
  <2> QED BY <2>1, <2>3, UnclaimedStep, SetStep DEF FinishInv, Frozen
<1>6. CASE waitForTask(p, t)
  BY <1>6, LeaveStep DEF waitForTask, durable, FinishInv, Frozen
<1> QED BY <1>1, <1>2, <1>3, <1>4, <1>5, <1>6

\* The agent returns or throws.
LEMMA AgentStep ==
  ASSUME FinishInv, Frozen, NEW p \in Proc, NEW t \in Task, agentEnds(p, t)
  PROVE  JobsTold /\ CancelsTold /\ finishes' = finishes
<1>1. finishes' = finishes /\ (Goto(p, t, "ended") \/ Set(p, t, Caught(t, job[p][t])))
  BY DEF agentEnds, durable
<1>2. "ended" \in Phase \ Done
  BY DEF Phase, Holding, Executing, Done
<1>3. Caught(t, job[p][t]) \in Job /\ Told(Caught(t, job[p][t]), status'[t])
  BY CaughtJob DEF FinishInv, FinishTyped
<1> QED BY <1>1, <1>2, <1>3, GotoStep, SetStep DEF FinishInv, Frozen

\* The run is over: the row is left alone or a terminal patch is queued.
LEMMA SettleStep ==
  ASSUME FinishInv, Frozen, NEW p \in Proc, NEW t \in Task, settle(p, t)
  PROVE  JobsTold /\ CancelsTold /\ finishes' = finishes
<1>1. job[p][t] \in Job /\ status[t] \in Status
  BY DEF FinishInv, FinishTyped, RunInv, StatusTyped
<1>2. PICK j \in Job : j = job[p][t]
  BY <1>1
<1>3. /\ finishes' = finishes
      /\ \/ Set(p, t, Caught(t, j))
         \/ /\ status[t] = "awaiting"
            /\ Set(p, t, [j EXCEPT !.phase = "finish", !.rec = status[t], !.fin = status[t]])
         \/ Leave(p, t)
         \/ \E st \in {"completed", "failed"} :
              Set(p, t, [j EXCEPT !.phase = "final", !.chain = Append(@, [st |-> st, by |-> "run"])])
  BY <1>2 DEF settle, durable
<1>4. CASE Set(p, t, Caught(t, j))
  BY <1>3, <1>4, CaughtJob, SetStep DEF FinishInv, Frozen
<1>5. CASE /\ status[t] = "awaiting"
           /\ Set(p, t, [j EXCEPT !.phase = "finish", !.rec = status[t], !.fin = status[t]])
  <2>1. PICK x : x = [j EXCEPT !.phase = "finish", !.rec = status[t], !.fin = status[t]]
    OBVIOUS
  <2>2. x \in Job /\ x.fin = "awaiting"
    BY <1>1, <1>5, <2>1 DEF Job, Phase, Holding, Executing
  <2>3. Told(x, status'[t])
    BY <2>2 DEF Told, Terminal
  <2> QED BY <1>3, <1>5, <2>1, <2>2, <2>3, SetStep DEF FinishInv, Frozen
<1>6. CASE Leave(p, t)
  BY <1>3, <1>6, LeaveStep DEF FinishInv, Frozen
<1>7. ASSUME NEW st \in {"completed", "failed"},
             Set(p, t, [j EXCEPT !.phase = "final", !.chain = Append(@, [st |-> st, by |-> "run"])])
      PROVE  JobsTold /\ CancelsTold
  <2>1. PICK c : c = Append(j.chain, [st |-> st, by |-> "run"])
    OBVIOUS
  <2>2. c \in Seq(Patch)
    BY <2>1 DEF Job, Patch, Status, Terminal
  <2>3. PICK x : x = [j EXCEPT !.phase = "final", !.chain = c]
    OBVIOUS
  <2>4. x \in Job /\ x.phase = "final"
    BY <2>2, <2>3 DEF Job, Phase, Holding, Executing
  <2>5. Told(x, status'[t])
    BY <2>4 DEF Told, Done
  <2>6. Set(p, t, x)
    BY <1>7, <2>1, <2>3
  <2> QED BY <2>4, <2>5, <2>6, SetStep DEF FinishInv, Frozen
<1> QED BY <1>3, <1>4, <1>5, <1>6, <1>7

\* The head of the chain is sent: a terminal status is told only when the store took it.
LEMMA PatchStep ==
  ASSUME FinishInv, Frozen, NEW p \in Proc, NEW t \in Task, patch(p, t)
  PROVE  JobsTold /\ CancelsTold /\ finishes' = finishes
<1>1. job[p][t] \in Job
  BY DEF FinishInv, FinishTyped
<1>2. PICK j \in Job : j = job[p][t]
  BY <1>1
<1>3. j.chain \in Seq(Patch) /\ j.chain # << >>
  BY <1>2 DEF patch, Job
<1>4. PICK c \in Patch : c = Head(j.chain)
  BY <1>3
<1>5. PICK tl \in Seq(Patch) : tl = Tail(j.chain)
  BY <1>3, HeadTailProperties
<1>6. PICK rest : rest = [j EXCEPT !.chain = tl]
  OBVIOUS
<1>7. rest \in Job /\ rest.phase = j.phase /\ rest.fin = j.fin
  BY <1>6 DEF Job
<1>8. PICK sent : sent = [rest EXCEPT !.rec = c.st]
  OBVIOUS
<1>9. sent \in Job /\ sent.phase = j.phase /\ sent.fin = j.fin
  BY <1>7, <1>8 DEF Job, Patch
<1>10. PICK failed : failed = [rest EXCEPT !.patchFailure = TRUE]
  OBVIOUS
<1>11. failed \in Job /\ failed.phase = j.phase /\ failed.fin = j.fin
  BY <1>7, <1>10 DEF Job
<1>12. PICK told : told = [sent EXCEPT !.fin = c.st, !.phase = IF t \in Fixed THEN "flush" ELSE "finish"]
  OBVIOUS
<1>13. told \in Job /\ told.fin = c.st
  BY <1>9, <1>12 DEF Job, Patch, Phase, Holding, Executing
<1>14. PICK lost : lost = [failed EXCEPT !.pause = FALSE, !.error = TRUE, !.aborted = TRUE]
  OBVIOUS
<1>15. lost \in Job /\ lost.phase = j.phase /\ lost.fin = j.fin
  BY <1>11, <1>14 DEF Job
<1>16. /\ finishes' = finishes
       /\ \/ Set(p, t, sent) \/ Set(p, t, failed) \/ Set(p, t, lost) \/ Set(p, t, Caught(t, failed))
          \/ PatchTask(t, c.st, TRUE) /\ Set(p, t, told)
  <2>1. finishes' = finishes
    BY DEF patch
  <2>2. PICK ok \in BOOLEAN :
          /\ IF j.patchFailure THEN ~ok /\ UNCHANGED <<status, faults>> ELSE PatchTask(t, c.st, ok)
          /\ Set(p, t,
               CASE c.by = "run"    -> IF ok THEN told ELSE Caught(t, failed)
                 [] c.by = "pause"  -> IF ok THEN sent ELSE lost
                 [] c.by = "cancel" -> IF ok THEN sent ELSE failed)
    BY <1>2, <1>4, <1>5, <1>6, <1>8, <1>10, <1>12, <1>14, ZenonT(30) DEF patch
  <2>3. c.by \in {"run", "pause", "cancel"}
    BY DEF Patch
  <2>4. CASE c.by = "run"
    BY <2>1, <2>2, <2>4
  <2>5. CASE c.by = "pause"
    BY <2>1, <2>2, <2>5
  <2>6. CASE c.by = "cancel"
    BY <2>1, <2>2, <2>6
  <2> QED BY <2>3, <2>4, <2>5, <2>6
<1>17. ASSUME NEW x \in Job, x.phase = j.phase, x.fin = j.fin, Set(p, t, x)
       PROVE  JobsTold /\ CancelsTold
  <2>1. Told(x, status'[t]) \/ (job[p][t].phase \in Done /\ x.fin = job[p][t].fin)
    BY <1>2, <1>17 DEF Told
  <2> QED BY <1>17, <2>1, SetStep DEF FinishInv, Frozen
<1>18. CASE Set(p, t, Caught(t, failed))
  <2>1. Caught(t, failed) \in Job /\ Told(Caught(t, failed), status'[t])
    BY <1>11, CaughtJob
  <2> QED BY <1>16, <1>18, <2>1, SetStep DEF FinishInv, Frozen
<1>19. CASE PatchTask(t, c.st, TRUE) /\ Set(p, t, told)
  <2>1. status'[t] = c.st
    BY <1>19, PatchSets DEF FinishInv, RunInv, StatusTyped
  <2>2. Told(told, status'[t])
    BY <1>13, <2>1 DEF Told
  <2> QED BY <1>13, <1>16, <1>19, <2>2, SetStep DEF FinishInv, Frozen
<1> QED BY <1>9, <1>11, <1>15, <1>16, <1>17, <1>18, <1>19

\* The chain of a fixed tool is flushed.
LEMMA FlushStep ==
  ASSUME FinishInv, Frozen, NEW p \in Proc, NEW t \in Task, flushPatches(p, t)
  PROVE  JobsTold /\ CancelsTold /\ finishes' = finishes
<1>1. PICK j \in Job : j = job[p][t] /\ j.phase = "flush"
  BY DEF FinishInv, FinishTyped, flushPatches
<1>2. PICK x : x = [j EXCEPT !.phase = "finish"]
  OBVIOUS
<1>3. x \in Job /\ x.fin = j.fin
  BY <1>2 DEF Job, Phase, Holding, Executing
<1>4. finishes' = finishes /\ (Set(p, t, Caught(t, j)) \/ Set(p, t, x))
  BY <1>1, <1>2 DEF flushPatches, durable
<1>5. CASE Set(p, t, Caught(t, j))
  BY <1>4, <1>5, CaughtJob, SetStep DEF FinishInv, Frozen
<1>6. CASE Set(p, t, x)
  BY <1>1, <1>3, <1>4, <1>6, SetStep DEF FinishInv, Frozen, Done
<1> QED BY <1>4, <1>5, <1>6

\* The independent patch of the catch block.
LEMMA ReconcileStep ==
  ASSUME FinishInv, Frozen, NEW p \in Proc, NEW t \in Task, reconcile(p, t)
  PROVE  JobsTold /\ CancelsTold /\ finishes' = finishes
<1>1. PICK j \in Job : j = job[p][t]
  BY DEF FinishInv, FinishTyped
<1>2. PICK x : x = [j EXCEPT !.phase = "finish", !.rec = j.fin]
  OBVIOUS
<1>3. x \in Job /\ x.fin = j.fin
  BY <1>2 DEF Job, Phase, Holding, Executing
<1>4. finishes' = finishes /\ (Leave(p, t) \/ (PatchTask(t, j.fin, TRUE) /\ Set(p, t, x)))
  BY <1>1, <1>2 DEF reconcile
<1>5. CASE Leave(p, t)
  BY <1>4, <1>5, LeaveStep DEF FinishInv, Frozen
<1>6. CASE PatchTask(t, j.fin, TRUE) /\ Set(p, t, x)
  <2>1. status'[t] = j.fin
    BY <1>6, PatchSets DEF FinishInv, RunInv, StatusTyped
  <2>2. Told(x, status'[t])
    BY <1>3, <2>1 DEF Told
  <2> QED BY <1>3, <1>4, <1>6, <2>2, SetStep DEF FinishInv, Frozen
<1> QED BY <1>4, <1>5, <1>6

\* Cancel, deadline and pause mark a job and keep what it has to tell.
LEMMA DisturbStep ==
  ASSUME FinishInv, Frozen, NEW p \in Proc, NEW t \in Task,
         \/ cancelJob(p, t) \/ cancelRow(p, t) \/ timeout(p, t)
         \/ markTaskAwaitingUserAuthorization(p, t)
  PROVE  JobsTold /\ CancelsTold /\ finishes' = finishes
<1>1. PICK j \in Job : j = job[p][t]
  BY DEF FinishInv, FinishTyped
<1>2. ASSUME NEW x \in Job, x.phase = j.phase, x.fin = j.fin, Set(p, t, x)
      PROVE  JobsTold /\ CancelsTold
  <2>1. Told(x, status'[t]) \/ (job[p][t].phase \in Done /\ x.fin = job[p][t].fin)
    BY <1>1, <1>2 DEF Told
  <2> QED BY <1>2, <2>1, SetStep DEF FinishInv, Frozen
<1>3. CASE cancelJob(p, t)
  <2>1. finishes' = finishes
    BY <1>3 DEF cancelJob, durable
  <2>2. CASE j.phase = "waiting"
    <3>1. job' = [job EXCEPT ![p][t] = NoJob] /\ cancel' = [cancel EXCEPT ![p][t] = "local"]
      BY <1>1, <1>3, <2>2 DEF cancelJob
    <3>2. CancelsTold
      BY <3>1 DEF FinishInv, FinishTyped, CancelsTold, Cancel
    <3>3. job' \in [Proc -> [Task -> Job]] /\ job'[p][t] = NoJob
      BY <3>1, NoJobType DEF FinishInv, FinishTyped
    <3>4. \A q \in Proc, u \in Task : (q = p /\ u = t) \/ job'[q][u] = job[q][u]
      BY <3>1 DEF FinishInv, FinishTyped
    <3>5. Told(NoJob, status'[t])
      BY DEF Told, NoJob, Done
    <3>6. JobsTold
      BY <3>3, <3>4, <3>5 DEF FinishInv, Frozen, JobsTold, Told
    <3> QED BY <2>1, <3>2, <3>6
  <2>3. CASE j.phase # "waiting"
    <3>1. PICK c : c = Append(j.chain, [st |-> "aborted", by |-> "cancel"])
      OBVIOUS
    <3>2. c \in Seq(Patch)
      BY <3>1 DEF Job, Patch, Status, Terminal
    <3>3. PICK x : x = [j EXCEPT !.error = TRUE, !.aborted = TRUE, !.chain = c]
      OBVIOUS
    <3>4. x \in Job /\ x.phase = j.phase /\ x.fin = j.fin
      BY <3>2, <3>3 DEF Job
    <3>5. Set(p, t, x)
      BY <1>1, <1>3, <2>3, <3>1, <3>3 DEF cancelJob
    <3> QED BY <1>2, <2>1, <3>4, <3>5
  <2> QED BY <2>2, <2>3
<1>4. CASE cancelRow(p, t)
  <2>1. finishes' = finishes /\ job' = job /\ cancel' = [cancel EXCEPT ![p][t] = "row"]
    BY <1>4 DEF cancelRow, durable
  <2>2. CancelsTold
    BY <2>1 DEF FinishInv, FinishTyped, CancelsTold, Cancel
  <2>3. JobsTold
    BY <2>1 DEF FinishInv, FinishTyped, Frozen, JobsTold, Told
  <2> QED BY <2>1, <2>2, <2>3
<1>5. CASE timeout(p, t)
  <2>1. PICK x : x = [j EXCEPT !.aborted = TRUE]
    OBVIOUS
  <2>2. x \in Job /\ x.phase = j.phase /\ x.fin = j.fin
    BY <2>1 DEF Job
  <2>3. Set(p, t, x) /\ finishes' = finishes
    BY <1>1, <1>5, <2>1 DEF timeout, durable
  <2> QED BY <1>2, <2>2, <2>3
<1>6. CASE markTaskAwaitingUserAuthorization(p, t)
  <2>1. PICK x : x = [j EXCEPT !.error = TRUE, !.aborted = TRUE]
    OBVIOUS
  <2>2. x \in Job /\ x.phase = j.phase /\ x.fin = j.fin
    BY <2>1 DEF Job
  <2>3. PICK c : c = <<[st |-> "awaiting", by |-> "pause"]>>
    OBVIOUS
  <2>4. c \in Seq(Patch)
    BY <2>3 DEF Patch, Status
  <2>5. PICK y : y = [j EXCEPT !.pause = TRUE, !.chain = c]
    OBVIOUS
  <2>6. y \in Job /\ y.phase = j.phase /\ y.fin = j.fin
    BY <2>4, <2>5 DEF Job
  <2>7. finishes' = finishes /\ (Set(p, t, x) \/ Set(p, t, y))
    BY <1>1, <1>6, <2>1, <2>3, <2>5 DEF markTaskAwaitingUserAuthorization, durable
  <2> QED BY <1>2, <2>2, <2>6, <2>7
<1> QED BY <1>3, <1>4, <1>5, <1>6

\* The patch of a cancel without a job; its finish event follows only when it was answered.
LEMMA CancelPatchStep ==
  ASSUME FinishInv, Frozen, NEW p \in Proc, NEW t \in Task, cancelPatch(p, t)
  PROVE  JobsTold /\ CancelsTold /\ finishes' = finishes
<1>1. PICK ok \in BOOLEAN :
        /\ PatchTask(t, "aborted", ok)
        /\ cancel' = [cancel EXCEPT ![p][t] = IF ok /\ @ = "row" THEN "finish" ELSE "none"]
  BY DEF cancelPatch
<1>2. finishes' = finishes /\ job' = job
  BY DEF cancelPatch
<1>3. JobsTold
  BY <1>2 DEF FinishInv, FinishTyped, Frozen, JobsTold, Told
<1>4. ok = TRUE => status'[t] = "aborted"
  BY <1>1, PatchSets DEF FinishInv, RunInv, StatusTyped
<1>5. /\ cancel' \in [Proc -> [Task -> Cancel]]
      /\ cancel'[p][t] = "finish" => ok = TRUE
      /\ \A q \in Proc, u \in Task : (q = p /\ u = t) \/ cancel'[q][u] = cancel[q][u]
  BY <1>1 DEF FinishInv, FinishTyped, Cancel
<1>6. CancelsTold
  BY <1>4, <1>5 DEF CancelsTold
<1> QED BY <1>2, <1>3, <1>6

\* The steps of a process as a whole.
ProcessStep(p) ==
  \/ drainQueuedTasks(p) \/ serve(p) \/ startDrain(p) \/ startShutdownDrain(p)
  \/ getDrainStatus(p) \/ resumeFromDrain(p) \/ dispose(p) \/ exit(p) \/ start(p)

\* They abort or drop jobs and write no finish event.
LEMMA ProcessSteps ==
  ASSUME FinishInv, Frozen, NEW p \in Proc, ProcessStep(p)
  PROVE  JobsTold /\ CancelsTold /\ finishes' = finishes
<1>1. CASE drainQueuedTasks(p) \/ serve(p) \/ getDrainStatus(p) \/ resumeFromDrain(p) \/ start(p)
  <2>1. finishes' = finishes /\ UNCHANGED <<job, cancel>>
    BY <1>1 DEF drainQueuedTasks, serve, getDrainStatus, resumeFromDrain, start, durable
  <2> QED BY <2>1, SameJobs
<1>2. ASSUME UNCHANGED cancel, job' \in [Proc -> [Task -> Job]],
             \A q \in Proc, u \in Task :
               \/ job'[q][u] = job[q][u] \/ job'[q][u] = NoJob
               \/ job'[q][u].phase = job[q][u].phase /\ job'[q][u].fin = job[q][u].fin
      PROVE  JobsTold /\ CancelsTold
  <2>1. CancelsTold
    BY <1>2 DEF FinishInv, FinishTyped, CancelsTold
  <2>2. \A u \in Task : Told(NoJob, status'[u])
    BY DEF Told, NoJob, Done
  <2>3. JobsTold
    BY <1>2, <2>2 DEF FinishInv, Frozen, JobsTold, Told
  <2> QED BY <2>1, <2>3
<1>3. CASE startDrain(p) \/ startShutdownDrain(p)
  <2>1. /\ finishes' = finishes /\ UNCHANGED cancel
        /\ job' = [job EXCEPT ![p] = [t \in Task |->
                     IF job[p][t].phase = "waiting" THEN NoJob ELSE job[p][t]]]
    BY <1>3 DEF startDrain, startShutdownDrain, EnterDrain, durable
  <2>2. /\ job' \in [Proc -> [Task -> Job]]
        /\ \A q \in Proc, u \in Task : job'[q][u] = job[q][u] \/ job'[q][u] = NoJob
    BY <2>1, NoJobType DEF FinishInv, FinishTyped
  <2> QED BY <1>2, <2>1, <2>2
<1>4. CASE dispose(p)
  <2>1. /\ finishes' = finishes /\ UNCHANGED cancel
        /\ job' = [job EXCEPT ![p] = [t \in Task |->
                     IF job[p][t].phase # "none" /\ job[p][t].rec \notin Terminal
                     THEN [job[p][t] EXCEPT !.aborted = TRUE] ELSE job[p][t]]]
    BY <1>4 DEF dispose, durable
  <2>2. \A j \in Job : /\ [j EXCEPT !.aborted = TRUE] \in Job
                        /\ [j EXCEPT !.aborted = TRUE].phase = j.phase
                        /\ [j EXCEPT !.aborted = TRUE].fin = j.fin
    BY DEF Job
  <2>3. job \in [Proc -> [Task -> Job]]
    BY DEF FinishInv, FinishTyped
  <2>4. job' \in [Proc -> [Task -> Job]]
    BY <2>1, <2>2, <2>3
  <2>5. ASSUME NEW q \in Proc, NEW u \in Task
        PROVE  \/ job'[q][u] = job[q][u]
               \/ job'[q][u].phase = job[q][u].phase /\ job'[q][u].fin = job[q][u].fin
    BY <2>1, <2>2, <2>3
  <2> QED BY <1>2, <2>1, <2>4, <2>5
<1>5. CASE exit(p)
  <2>1. /\ finishes' = finishes /\ cancel' = [cancel EXCEPT ![p] = [t \in Task |-> "none"]]
        /\ job' = [job EXCEPT ![p] = [t \in Task |-> NoJob]]
    BY <1>5 DEF exit, durable
  <2>2. CancelsTold
    BY <2>1 DEF FinishInv, FinishTyped, CancelsTold, Cancel
  <2>3. /\ job' \in [Proc -> [Task -> Job]]
        /\ \A q \in Proc, u \in Task : job'[q][u] = job[q][u] \/ job'[q][u] = NoJob
    BY <2>1, NoJobType DEF FinishInv, FinishTyped
  <2>4. \A u \in Task : Told(NoJob, status'[u])
    BY DEF Told, NoJob, Done
  <2>5. JobsTold
    BY <2>3, <2>4 DEF FinishInv, Frozen, JobsTold, Told
  <2> QED BY <2>1, <2>2, <2>5
<1> QED BY <1>1, <1>3, <1>4, <1>5 DEF ProcessStep

\* A finish event is written for one task; a terminal one tells its status.
LEMMA EventStep ==
  ASSUME FinishInv, RunInv', Frozen, JobsTold, CancelsTold, NEW t \in Task, NEW st \in Status,
         finishes' = finishes \/ finishes' = [finishes EXCEPT ![t] = @ \cup {st}],
         st \in Terminal => status'[t] = st
  PROVE  FinishInv'
<1>1. FinishTyped'
  BY DEF FinishInv, FinishTyped, JobsTold, CancelsTold
<1>2. FinishAgrees'
  <2>1. FinishAgrees /\ finishes \in [Task -> SUBSET Status]
    BY DEF FinishInv, FinishTyped
  <2>2. ASSUME NEW u \in Task, NEW x \in finishes'[u], x \in Terminal PROVE x = status'[u]
    <3>1. CASE x \in finishes[u]
      BY <2>1, <2>2, <3>1 DEF FinishAgrees, Frozen
    <3>2. CASE u = t /\ x = st
      BY <2>2, <3>2
    <3> QED BY <2>1, <2>2, <3>1, <3>2
  <2> QED BY <2>2 DEF FinishAgrees
<1>3. ASSUME NEW q \in Proc, NEW u \in Task PROVE Told(job[q][u], status[u])'
  BY <1>3 DEF FinishInv, JobsTold, Told, Frozen
<1>4. ASSUME NEW q \in Proc, NEW u \in Task PROVE (cancel[q][u] = "finish" => status[u] = "aborted")'
  BY <1>4 DEF FinishInv, CancelsTold, Terminal, Frozen
<1> QED BY <1>1, <1>2, <1>3, <1>4 DEF FinishInv

\* The finish event of a job.
LEMMA PublishStep ==
  ASSUME FinishInv, RunInv', Frozen, NEW p \in Proc, NEW t \in Task, publishFinish(p, t)
  PROVE  FinishInv'
<1>1. JobsTold /\ CancelsTold
  BY LeaveStep DEF publishFinish, FinishInv, Frozen
<1>2. /\ job[p][t].phase = "finish" /\ status' = status
      /\ finishes' = finishes \/ finishes' = [finishes EXCEPT ![t] = @ \cup {job[p][t].fin}]
  BY DEF publishFinish
<1>3. job[p][t].fin \in Status
  BY DEF FinishInv, FinishTyped, Job
<1>4. job[p][t].fin \in Terminal => status'[t] = job[p][t].fin
  BY <1>2 DEF FinishInv, Told, Done
<1> QED BY <1>1, <1>2, <1>3, <1>4, EventStep

\* The finish event of a cancel without a job.
LEMMA CancelFinishStep ==
  ASSUME FinishInv, RunInv', Frozen, NEW p \in Proc, NEW t \in Task, cancelFinish(p, t)
  PROVE  FinishInv'
<1>1. /\ cancel[p][t] = "finish" /\ status' = status /\ job' = job
      /\ cancel' = [cancel EXCEPT ![p][t] = "none"]
      /\ finishes' = [finishes EXCEPT ![t] = @ \cup {"aborted"}]
  BY DEF cancelFinish
<1>2. JobsTold
  BY <1>1 DEF FinishInv, FinishTyped, JobsTold, Told
<1>3. CancelsTold
  BY <1>1 DEF FinishInv, FinishTyped, CancelsTold, Cancel
<1>4. status'[t] = "aborted"
  BY <1>1 DEF FinishInv
<1>5. "aborted" \in Status
  BY DEF Status, Terminal
<1> QED BY <1>1, <1>2, <1>3, <1>4, <1>5, EventStep

\* The finish event of recovery.
LEMMA RecoverStep ==
  ASSUME FinishInv, RunInv', Frozen, NEW p \in Proc, NEW t \in Task, recoverTask(p, t)
  PROVE  FinishInv'
<1>1. JobsTold /\ CancelsTold
  BY SameJobs DEF recoverTask
<1>2. CASE finishes' = [finishes EXCEPT ![t] = @ \cup {"awaiting"}]
  <2>1. "awaiting" \in Status /\ "awaiting" \notin Terminal
    BY DEF Status, Terminal
  <2> QED BY <1>1, <1>2, <2>1, EventStep
<1>3. ASSUME NEW ok \in BOOLEAN, PatchTask(t, "failed", ok),
             finishes' = [finishes EXCEPT ![t] = IF ok THEN @ \cup {"failed"} ELSE @]
      PROVE  FinishInv'
  <2>1. CASE ok = FALSE
    <3>1. finishes' = finishes
      BY <1>3, <2>1 DEF FinishInv, FinishTyped
    <3> QED BY <1>1, <3>1, NoEventStep
  <2>2. CASE ok = TRUE
    <3>1. status'[t] = "failed"
      BY <1>3, <2>2, PatchSets DEF FinishInv, RunInv, StatusTyped
    <3>2. finishes' = [finishes EXCEPT ![t] = @ \cup {"failed"}]
      BY <1>3, <2>2
    <3>3. "failed" \in Status
      BY DEF Status, Terminal
    <3> QED BY <1>1, <3>1, <3>2, <3>3, EventStep
  <2> QED BY <2>1, <2>2
<1>4. \/ finishes' = [finishes EXCEPT ![t] = @ \cup {"awaiting"}]
      \/ \E ok \in BOOLEAN :
           /\ PatchTask(t, "failed", ok)
           /\ finishes' = [finishes EXCEPT ![t] = IF ok THEN @ \cup {"failed"} ELSE @]
  BY DEF recoverTask, Interrupted
<1> QED BY <1>2, <1>3, <1>4

\* Every step preserves FinishInv.
LEMMA NextFinish ==
  ASSUME FinishInv, [Next]_vars
  PROVE  FinishInv'
<1>1. RunInv' /\ \A u \in Task : Forward(u)
  BY NextRun DEF FinishInv
<1>2. Frozen
  BY <1>1 DEF Forward, Frozen, Terminal
<1>3. ASSUME JobsTold, CancelsTold, finishes' = finishes PROVE FinishInv'
  BY <1>1, <1>2, <1>3, NoEventStep
<1>4. CASE UNCHANGED vars
  BY <1>2, <1>3, <1>4, SameJobs DEF vars, durable
<1>5. ASSUME NEW p \in Proc, ProcessStep(p) PROVE FinishInv'
  BY <1>2, <1>3, <1>5, ProcessSteps
<1>6. ASSUME NEW p \in Proc, NEW t \in Task, Silent(p, t) PROVE FinishInv'
  <2>1. CASE \/ adoptQueuedTask(p, t) \/ acquire(p, t) \/ dispatch(p, t) \/ waitForTask(p, t)
    BY <1>2, <1>3, <2>1, DispatchStep
  <2>2. CASE agentEnds(p, t)
    BY <1>2, <1>3, <2>2, AgentStep
  <2>3. CASE settle(p, t)
    BY <1>2, <1>3, <2>3, SettleStep
  <2>4. CASE flushPatches(p, t)
    BY <1>2, <1>3, <2>4, FlushStep
  <2>5. CASE publishFinish(p, t)
    BY <1>1, <1>2, <2>5, PublishStep
  <2>6. CASE \/ cancelJob(p, t) \/ cancelRow(p, t) \/ timeout(p, t)
             \/ markTaskAwaitingUserAuthorization(p, t)
    BY <1>2, <1>3, <2>6, DisturbStep
  <2>7. CASE cancelFinish(p, t)
    BY <1>1, <1>2, <2>7, CancelFinishStep
  <2>8. CASE ProcessStep(p)
    BY <1>5, <2>8
  <2> QED BY <1>6, <2>1, <2>2, <2>3, <2>4, <2>5, <2>6, <2>7, <2>8 DEF Silent, ProcessStep
<1>7. ASSUME NEW p \in Proc, NEW t \in Task, Admits(p, t) \/ claimTask(p, t) PROVE FinishInv'
  BY <1>2, <1>3, <1>7, DispatchStep
<1>8. ASSUME NEW p \in Proc, NEW t \in Task, Patches(p, t) PROVE FinishInv'
  <2>1. CASE patch(p, t)
    BY <1>2, <1>3, <2>1, PatchStep
  <2>2. CASE reconcile(p, t)
    BY <1>2, <1>3, <2>2, ReconcileStep
  <2>3. CASE cancelPatch(p, t)
    BY <1>2, <1>3, <2>3, CancelPatchStep
  <2>4. CASE recoverTask(p, t)
    BY <1>1, <1>2, <2>4, RecoverStep
  <2> QED BY <1>8, <2>1, <2>2, <2>3, <2>4 DEF Patches
<1>9. \/ UNCHANGED vars \/ \E p \in Proc : ProcessStep(p)
      \/ \E p \in Proc, t \in Task : Silent(p, t) \/ Admits(p, t) \/ Patches(p, t) \/ claimTask(p, t)
  BY StepCases DEF ProcessStep
<1> QED BY <1>4, <1>5, <1>6, <1>7, <1>8, <1>9

\* A terminal finish event tells the status of its row, whoever wrote it and whatever calls
\* were lost (runTaskWithSlot, cancelTask, recoverInterruptedTasks).
THEOREM ExecutorFinishAgrees == Spec => []FinishAgrees
<1>1. Init => FinishInv
  <2> SUFFICES ASSUME Init PROVE FinishInv
    OBVIOUS
  <2>1. RunInv
    BY DEF Init, RunInv, StatusTyped, RunOnce, Status
  <2>2. FinishTyped
    BY NoJobType DEF Init, FinishTyped, Cancel
  <2>3. FinishAgrees
    BY DEF Init, FinishAgrees
  <2>4. ASSUME NEW p \in Proc, NEW t \in Task
        PROVE  Told(job[p][t], status[t]) /\ cancel[p][t] # "finish"
    BY DEF Init, Told, NoJob, Done
  <2> QED BY <2>1, <2>2, <2>3, <2>4 DEF FinishInv
<1>2. FinishInv /\ [Next]_vars => FinishInv'
  BY NextFinish
<1>3. FinishInv => FinishAgrees
  BY DEF FinishInv
<1> QED BY <1>1, <1>2, <1>3, PTL DEF Spec

-----------------------------------------------------------------------------
(* One task of a session at a time, and nothing after a drain.  What these  *)
(* need to know of a process is the phase F[t] of each task, the jobs A[t]  *)
(* it is behind, and the queue W of the limiter.                           *)

\* Two jobs of a session: one is behind the other.  Whoever asked the limiter is behind
\* nobody, and the queue holds the waiting jobs, each once.
Serial(F, A, W) ==
  /\ \A t, u \in Task : t # u /\ SessionOf[t] = SessionOf[u] /\ F[t] # "none" /\ F[u] # "none"
                        => u \in A[t] \/ t \in A[u]
  /\ \A t \in Task : F[t] \in Holding \cup {"waiting"} => A[t] = {}
  /\ \A i \in 1 .. Len(W) : F[W[i]] = "waiting"
  /\ \A i, k \in 1 .. Len(W) : W[i] = W[k] => i = k

\* A set of numbers has a least one.
LEMMA LeastOf == ASSUME NEW T \in SUBSET Nat, T # {} PROVE \E x \in T : \A y \in T : x <= y
<1> DEFINE R == OpToRel(<, Nat)
<1>1. IsWellFoundedOn(R, Nat)
  BY NatLessThanWellFounded
<1>2. \A x, y \in Nat : x < y => <<x, y>> \in R
  BY DEF OpToRel
<1> HIDE DEF R
<1>3. PICK x \in T : \A y \in T : ~(<<y, x>> \in R)
  BY <1>1, WFMin
<1>4. ASSUME NEW y \in T PROVE x <= y
  <2>1. x \in Nat /\ y \in Nat /\ ~(<<y, x>> \in R)
    BY <1>3
  <2>2. ~(y < x)
    BY <1>2, <2>1
  <2> QED BY <2>1, <2>2
<1> QED BY <1>3, <1>4

\* splice(i, 1): the rest of the queue, in order.
LEMMA SpliceOut ==
  ASSUME NEW S, NEW s \in Seq(S), NEW i \in 1 .. Len(s)
  PROVE  /\ RemoveAt(s, i) \in Seq(S)
         /\ \A k \in 1 .. Len(RemoveAt(s, i)) :
              \E m \in (1 .. Len(s)) \ {i} : m = (IF k < i THEN k ELSE k + 1) /\ RemoveAt(s, i)[k] = s[m]
<1> DEFINE a == SubSeq(s, 1, i - 1)
           b == SubSeq(s, i + 1, Len(s))
           r == a \o b
<1>1. a \in Seq(S) /\ Len(a) = i - 1 /\ \A k \in 1 .. i - 1 : a[k] = s[k]
  BY SubSeqProperties
<1>2. b \in Seq(S) /\ Len(b) = Len(s) - i /\ \A k \in 1 .. Len(s) - i : b[k] = s[i + k]
  BY SubSeqProperties
<1> HIDE DEF a, b
<1>3. r \in Seq(S) /\ Len(r) = Len(s) - 1
  <2>1. r \in Seq(S) /\ Len(r) = Len(a) + Len(b)
    BY <1>1, <1>2, ConcatProperties
  <2> QED BY <1>1, <1>2, <2>1
<1>4. ASSUME NEW k \in 1 .. Len(r)
      PROVE  \E m \in (1 .. Len(s)) \ {i} : m = (IF k < i THEN k ELSE k + 1) /\ r[k] = s[m]
  <2>1. CASE k < i
    <3>1. k \in 1 .. i - 1 /\ r[k] = a[k]
      BY <1>1, <1>2, <1>3, <2>1
    <3> QED BY <1>1, <2>1, <3>1
  <2>2. CASE ~(k < i)
    <3>1. PICK m \in 1 .. Len(s) - i : m = k - (i - 1)
      BY <1>3, <2>2
    <3>2. r[k] = b[m]
      BY <1>1, <1>2, <1>3, <2>2, <3>1
    <3>3. b[m] = s[k + 1]
      BY <1>2, <3>1
    <3>4. k + 1 \in (1 .. Len(s)) \ {i}
      BY <2>2, <3>1
    <3> QED BY <2>2, <3>2, <3>3, <3>4
  <2> QED BY <2>1, <2>2
<1>5. RemoveAt(s, i) = r
  BY DEF RemoveAt, a, b
<1> HIDE DEF r
<1> QED BY <1>3, <1>4, <1>5

\* splice(i, 0, e): the queue with one more.
LEMMA SpliceIn ==
  ASSUME NEW S, NEW s \in Seq(S), NEW i \in 1 .. Len(s), NEW e \in S
  PROVE  /\ InsertAt(s, i, e) \in Seq(S)
         /\ \A k \in 1 .. Len(InsertAt(s, i, e)) :
              \/ k = i /\ InsertAt(s, i, e)[k] = e
              \/ \E m \in 1 .. Len(s) : /\ k # i /\ m = (IF k < i THEN k ELSE k - 1)
                                        /\ InsertAt(s, i, e)[k] = s[m]
<1> DEFINE a == SubSeq(s, 1, i - 1)
           b == SubSeq(s, i, Len(s))
           c == a \o <<e>>
           r == c \o b
<1>1. a \in Seq(S) /\ Len(a) = i - 1 /\ \A k \in 1 .. i - 1 : a[k] = s[k]
  BY SubSeqProperties
<1>2. b \in Seq(S) /\ Len(b) = Len(s) - i + 1 /\ \A k \in 1 .. Len(s) - i + 1 : b[k] = s[i + k - 1]
  BY SubSeqProperties
<1> HIDE DEF a, b
<1>3. c \in Seq(S) /\ Len(c) = i /\ c[i] = e /\ \A k \in 1 .. i - 1 : c[k] = a[k]
  <2>1. <<e>> \in Seq(S) /\ Len(<<e>>) = 1 /\ <<e>>[1] = e
    OBVIOUS
  <2>2. c \in Seq(S) /\ Len(c) = i
    BY <1>1, <2>1, ConcatProperties
  <2>3. c[i] = e
    BY <1>1, <2>1, ConcatProperties
  <2>4. \A k \in 1 .. i - 1 : c[k] = a[k]
    BY <1>1, <2>1, ConcatProperties
  <2> QED BY <2>2, <2>3, <2>4
<1> HIDE DEF c
<1>4. r \in Seq(S) /\ Len(r) = Len(s) + 1
  BY <1>2, <1>3
<1>5. ASSUME NEW k \in 1 .. Len(r)
      PROVE  \/ k = i /\ r[k] = e
             \/ \E m \in 1 .. Len(s) : k # i /\ m = (IF k < i THEN k ELSE k - 1) /\ r[k] = s[m]
  <2>1. CASE k < i
    <3>1. k \in 1 .. i - 1 /\ r[k] = c[k]
      BY <1>2, <1>3, <1>4, <2>1
    <3> QED BY <1>1, <1>3, <2>1, <3>1
  <2>2. CASE k = i
    <3>1. r[k] = c[k]
      BY <1>2, <1>3, <1>4, <2>2
    <3> QED BY <1>3, <2>2, <3>1
  <2>3. CASE k > i
    <3>1. PICK m \in 1 .. Len(s) - i + 1 : m = k - i
      BY <1>4, <2>3
    <3>2. r[k] = b[m]
      BY <1>2, <1>3, <1>4, <2>3, <3>1
    <3>3. b[m] = s[k - 1]
      BY <1>2, <3>1
    <3>4. k - 1 \in 1 .. Len(s)
      BY <1>4, <2>3
    <3> QED BY <2>3, <3>2, <3>3, <3>4
  <2> QED BY <2>1, <2>2, <2>3
<1>6. InsertAt(s, i, e) = r
  BY DEF InsertAt, a, b, c
<1> HIDE DEF r
<1> QED BY <1>4, <1>5, <1>6

\* A queue without one of its tasks: the others, each once.
LEMMA WithoutOne ==
  ASSUME NEW W \in Seq(Task), \A i, k \in 1 .. Len(W) : W[i] = W[k] => i = k, NEW t \in Task
  PROVE  /\ Without(W, t) \in Seq(Task)
         /\ \A k \in 1 .. Len(Without(W, t)) :
              Without(W, t)[k] # t /\ \E i \in 1 .. Len(W) : Without(W, t)[k] = W[i]
         /\ \A i, k \in 1 .. Len(Without(W, t)) : Without(W, t)[i] = Without(W, t)[k] => i = k
<1>0. DOMAIN W = 1 .. Len(W)
  OBVIOUS
<1>1. CASE ~ \E i \in DOMAIN W : W[i] = t
  <2>1. Without(W, t) = W
    BY <1>1 DEF Without
  <2> QED BY <1>0, <1>1, <2>1
<1>2. CASE \E i \in DOMAIN W : W[i] = t
  <2>1. PICK n : n = CHOOSE i \in DOMAIN W : W[i] = t
    OBVIOUS
  <2>2. n \in 1 .. Len(W) /\ W[n] = t
    BY <1>0, <1>2, <2>1
  <2>3. PICK R : R = RemoveAt(W, n)
    OBVIOUS
  <2>4. Without(W, t) = R
    BY <1>2, <2>1, <2>3 DEF Without
  <2>5. /\ R \in Seq(Task)
        /\ \A k \in 1 .. Len(R) :
             \E m \in (1 .. Len(W)) \ {n} : m = (IF k < n THEN k ELSE k + 1) /\ R[k] = W[m]
    BY <2>2, <2>3, SpliceOut
  <2>6. \A k \in 1 .. Len(R) : R[k] # t /\ \E i \in 1 .. Len(W) : R[k] = W[i]
    BY <2>2, <2>5
  <2>7. ASSUME NEW i \in 1 .. Len(R), NEW k \in 1 .. Len(R), R[i] = R[k] PROVE i = k
    <3>1. PICK x \in (1 .. Len(W)) \ {n} : x = (IF i < n THEN i ELSE i + 1) /\ R[i] = W[x]
      BY <2>5
    <3>2. PICK y \in (1 .. Len(W)) \ {n} : y = (IF k < n THEN k ELSE k + 1) /\ R[k] = W[y]
      BY <2>5
    <3>3. x = y
      BY <2>7, <3>1, <3>2
    <3> QED BY <2>2, <3>1, <3>2, <3>3
  <2> QED BY <2>4, <2>5, <2>6, <2>7
<1> QED BY <1>1, <1>2

\* A queue with one more task, somewhere.
LEMMA EnqueuedOne ==
  ASSUME NEW W \in Seq(Task), \A i, k \in 1 .. Len(W) : W[i] = W[k] => i = k, NEW t \in Task,
         \A i \in 1 .. Len(W) : W[i] # t
  PROVE  /\ Enqueued(W, t) \in Seq(Task)
         /\ \A k \in 1 .. Len(Enqueued(W, t)) :
              Enqueued(W, t)[k] = t \/ \E i \in 1 .. Len(W) : Enqueued(W, t)[k] = W[i]
         /\ \A i, k \in 1 .. Len(Enqueued(W, t)) : Enqueued(W, t)[i] = Enqueued(W, t)[k] => i = k
<1> DEFINE background == {i \in DOMAIN W : ClassOf[W[i]] = "background"}
<1>1. CASE ClassOf[t] = "background" \/ background = {}
  <2>1. PICK R : R = Append(W, t)
    OBVIOUS
  <2>2. Enqueued(W, t) = R
    BY <1>1, <2>1 DEF Enqueued
  <2>3. PICK z \in Nat : z = Len(W) + 1
    OBVIOUS
  <2>4. R \in Seq(Task) /\ Len(R) = z /\ R[z] = t /\ \A i \in 1 .. Len(W) : R[i] = W[i]
    BY <2>1, <2>3
  <2>5. \A k \in 1 .. Len(R) : k = z \/ k \in 1 .. Len(W)
    <3>1. \A k \in 1 .. z : k = z \/ k \in 1 .. Len(W)
      BY <2>3
    <3> QED BY <2>4, <3>1
  <2>6. \A k \in 1 .. Len(R) : (k = z /\ R[k] = t) \/ (k \in 1 .. Len(W) /\ R[k] = W[k])
    BY <2>4, <2>5
  <2>7. ASSUME NEW i \in 1 .. Len(R), NEW k \in 1 .. Len(R), R[i] = R[k] PROVE i = k
    BY <2>6, <2>7
  <2> QED BY <2>2, <2>4, <2>6, <2>7
<1>2. CASE ~(ClassOf[t] = "background" \/ background = {})
  <2>1. PICK n \in background : \A k \in background : n <= k
    <3>1. background \in SUBSET Nat /\ background # {}
      BY <1>2
    <3> QED BY <3>1, LeastOf
  <2>2. PICK m : m = CHOOSE i \in background : \A k \in background : i <= k
    OBVIOUS
  <2>3. m \in background
    BY <2>1, <2>2
  <2>4. m \in 1 .. Len(W)
    BY <2>3
  <2>5. PICK R : R = InsertAt(W, m, t)
    OBVIOUS
  <2>6. Enqueued(W, t) = R
    BY <1>2, <2>2, <2>5 DEF Enqueued
  <2>7. /\ R \in Seq(Task)
        /\ \A k \in 1 .. Len(R) :
             \/ k = m /\ R[k] = t
             \/ \E x \in 1 .. Len(W) : k # m /\ x = (IF k < m THEN k ELSE k - 1) /\ R[k] = W[x]
    <3>1. /\ InsertAt(W, m, t) \in Seq(Task)
          /\ \A k \in 1 .. Len(InsertAt(W, m, t)) :
               \/ k = m /\ InsertAt(W, m, t)[k] = t
               \/ \E x \in 1 .. Len(W) : /\ k # m /\ x = (IF k < m THEN k ELSE k - 1)
                                         /\ InsertAt(W, m, t)[k] = W[x]
      BY <2>4, SpliceIn
    <3> QED BY <2>5, <3>1
  <2>8. ASSUME NEW i \in 1 .. Len(R), NEW k \in 1 .. Len(R), R[i] = R[k] PROVE i = k
    <3>1. CASE i = m \/ k = m
      BY <2>4, <2>7, <2>8, <3>1
    <3>2. CASE i # m /\ k # m
      <4>1. PICK x \in 1 .. Len(W) : x = (IF i < m THEN i ELSE i - 1) /\ R[i] = W[x]
        BY <2>7, <3>2
      <4>2. PICK y \in 1 .. Len(W) : y = (IF k < m THEN k ELSE k - 1) /\ R[k] = W[y]
        BY <2>7, <3>2
      <4>3. x = y
        BY <2>8, <4>1, <4>2
      <4> QED BY <2>4, <3>2, <4>1, <4>2, <4>3
    <3> QED BY <3>1, <3>2
  <2> QED BY <2>6, <2>7, <2>8
<1> QED BY <1>1, <1>2

\* A job goes from phase to phase and keeps its slot, or its phase.
LEMMA QuietSerial ==
  ASSUME NEW F, NEW A, NEW W, Serial(F, A, W), W \in Seq(Task), NEW G,
         \A t \in Task : G[t] = F[t] \/ (F[t] \in Holding /\ G[t] \in Holding)
  PROVE  Serial(G, A, W)
<1>1. "none" \notin Holding /\ "waiting" \notin Holding
  BY DEF Holding, Executing
<1>2. \A t \in Task : G[t] # "none" => F[t] # "none"
  BY <1>1
<1>3. \A t \in Task : G[t] \in Holding \cup {"waiting"} => F[t] \in Holding \cup {"waiting"}
  OBVIOUS
<1>4. \A t \in Task : F[t] = "waiting" => G[t] = "waiting"
  BY <1>1
<1>5. \A i \in 1 .. Len(W) : W[i] \in Task
  OBVIOUS
<1> QED BY <1>2, <1>3, <1>4, <1>5 DEF Serial

\* A new job is behind every job its session has.
LEMMA StartedSerial ==
  ASSUME NEW F, NEW A, NEW W, Serial(F, A, W), W \in Seq(Task), NEW G, NEW B, NEW t \in Task,
         F[t] = "none", G[t] = "tail", \A u \in Task : u # t => G[u] = F[u] /\ B[u] = A[u],
         B[t] = {u \in Task : SessionOf[u] = SessionOf[t] /\ F[u] # "none"}
  PROVE  Serial(G, B, W)
<1>1. "tail" \notin Holding \cup {"waiting"}
  BY DEF Holding, Executing
<1>2. ASSUME NEW x \in Task, NEW y \in Task, x # y, SessionOf[x] = SessionOf[y],
             G[x] # "none", G[y] # "none"
      PROVE  y \in B[x] \/ x \in B[y]
  BY <1>2 DEF Serial
<1>3. ASSUME NEW x \in Task, G[x] \in Holding \cup {"waiting"} PROVE B[x] = {}
  BY <1>1, <1>3 DEF Serial
<1>4. ASSUME NEW i \in 1 .. Len(W) PROVE G[W[i]] = "waiting"
  BY <1>4 DEF Serial
<1> QED BY <1>2, <1>3, <1>4 DEF Serial

\* A job behind nobody is let in.
LEMMA SlotSerial ==
  ASSUME NEW F, NEW A, NEW W, Serial(F, A, W), W \in Seq(Task), NEW G, NEW t \in Task,
         F[t] = "tail", A[t] = {}, G[t] = "slot", \A u \in Task : u # t => G[u] = F[u]
  PROVE  Serial(G, A, W)
<1>1. ASSUME NEW x \in Task, G[x] \in Holding \cup {"waiting"} PROVE A[x] = {}
  BY <1>1 DEF Serial
<1>2. ASSUME NEW i \in 1 .. Len(W) PROVE G[W[i]] = "waiting"
  BY <1>2 DEF Serial
<1>3. \A x \in Task : G[x] # "none" => F[x] # "none"
  OBVIOUS
<1> QED BY <1>1, <1>2, <1>3 DEF Serial

\* Or waits for a slot.
LEMMA WaitSerial ==
  ASSUME NEW F, NEW A, NEW W, Serial(F, A, W), W \in Seq(Task), NEW G, NEW t \in Task,
         F[t] = "tail", A[t] = {}, G[t] = "waiting", \A u \in Task : u # t => G[u] = F[u]
  PROVE  Serial(G, A, Enqueued(W, t)) /\ Enqueued(W, t) \in Seq(Task)
<1>1. ASSUME NEW x \in Task, G[x] \in Holding \cup {"waiting"} PROVE A[x] = {}
  BY <1>1 DEF Serial
<1>2. \A x \in Task : G[x] # "none" => F[x] # "none"
  OBVIOUS
<1>3. /\ \A i \in 1 .. Len(W) : W[i] # t /\ W[i] \in Task /\ F[W[i]] = "waiting"
      /\ \A i, k \in 1 .. Len(W) : W[i] = W[k] => i = k
  BY DEF Serial
<1>4. PICK V : V = Enqueued(W, t)
  OBVIOUS
<1>5. /\ V \in Seq(Task)
      /\ \A k \in 1 .. Len(V) : V[k] = t \/ \E i \in 1 .. Len(W) : V[k] = W[i]
      /\ \A i, k \in 1 .. Len(V) : V[i] = V[k] => i = k
  BY <1>3, <1>4, EnqueuedOne
<1>6. \A k \in 1 .. Len(V) : G[V[k]] = "waiting"
  BY <1>3, <1>5
<1>7. Serial(G, A, V)
  BY <1>1, <1>2, <1>5, <1>6 DEF Serial
<1> QED BY <1>4, <1>5, <1>7

\* Some jobs are over and some waiters are let in; V is what is left of the queue.
Gone(F, A, W, G, B, V, gone, woken) ==
  /\ \A u \in Task : u \in woken => F[u] = "waiting"
  /\ \A u \in Task : G[u] = IF u \in gone THEN "none" ELSE IF u \in woken THEN "slot" ELSE F[u]
  /\ \A u \in Task : B[u] = IF u \in gone THEN {} ELSE A[u] \ gone
  /\ \A k \in 1 .. Len(V) : V[k] \notin gone \cup woken /\ \E i \in 1 .. Len(W) : V[k] = W[i]
  /\ \A i, k \in 1 .. Len(V) : V[i] = V[k] => i = k

\* When jobs leave a process, those that stay are still behind each other.
LEMMA GoneSerial ==
  ASSUME NEW F, NEW A, NEW W, Serial(F, A, W), W \in Seq(Task), NEW G, NEW B, NEW V \in Seq(Task),
         NEW gone, NEW woken, Gone(F, A, W, G, B, V, gone, woken)
  PROVE  Serial(G, B, V)
<1> USE DEF Gone
<1>1. ASSUME NEW x \in Task, NEW y \in Task, x # y, SessionOf[x] = SessionOf[y],
             G[x] # "none", G[y] # "none"
      PROVE  y \in B[x] \/ x \in B[y]
  <2>1. x \notin gone /\ y \notin gone /\ F[x] # "none" /\ F[y] # "none"
    BY <1>1
  <2>2. y \in A[x] \/ x \in A[y]
    BY <1>1, <2>1 DEF Serial
  <2> QED BY <2>1, <2>2
<1>2. ASSUME NEW x \in Task, G[x] \in Holding \cup {"waiting"} PROVE B[x] = {}
  <2>1. x \notin gone
    BY <1>2 DEF Holding, Executing
  <2>2. F[x] \in Holding \cup {"waiting"}
    BY <1>2, <2>1
  <2>3. A[x] = {}
    BY <2>2 DEF Serial
  <2> QED BY <2>1, <2>3
<1>3. ASSUME NEW k \in 1 .. Len(V) PROVE G[V[k]] = "waiting"
  BY <1>3 DEF Serial
<1> QED BY <1>1, <1>2, <1>3 DEF Serial

\* What a job may hold: patches that end or pause the row, one by the run only while it has
\* its slot, and after a failed run a status to close the row with.
Closing == Terminal \cup {"awaiting"}
JobOK(j) ==
  /\ \A i \in 1 .. Len(j.chain) : /\ j.chain[i].st \in Closing
                                  /\ j.chain[i].by = "run" => j.phase \in Holding
  /\ j.phase = "catch" => j.fin \in Closing

PhaseOf(p) == [t \in Task |-> job[p][t].phase]
Idle(F) == \A t \in Task : F[t] \in {"none", "tail"}

\* A process: its jobs are in order, and once drained none gets further than its tail.
ProcessOK(p) ==
  /\ Serial(PhaseOf(p), ahead[p], waiting[p])
  /\ drained[p] => Draining(p) /\ Idle(PhaseOf(p))

SerialTyped ==
  /\ job \in [Proc -> [Task -> Job]]
  /\ ahead \in [Proc -> [Task -> SUBSET Task]] /\ waiting \in [Proc -> Seq(Task)]
  /\ mode \in [Proc -> {"down", "recovering", "broken", "accepting", "draining", "stopping"}]
  /\ drained \in [Proc -> BOOLEAN]

SerialInv ==
  /\ SerialTyped
  /\ \A p \in Proc : ProcessOK(p)
  /\ \A p \in Proc, t \in Task : JobOK(job[p][t])

\* A step of one process leaves the others alone.
Others(p) ==
  \A q \in Proc : q # p => /\ job'[q] = job[q] /\ ahead'[q] = ahead[q] /\ waiting'[q] = waiting[q]
                           /\ mode'[q] = mode[q] /\ drained'[q] = drained[q]

\* A step of one process leaves the chains of the others alone.
LEMMA OneProcess ==
  ASSUME SerialInv, NEW p \in Proc, Others(p), SerialTyped', ProcessOK(p)',
         \A t \in Task : JobOK(job'[p][t])
  PROVE  SerialInv'
<1>1. ASSUME NEW q \in Proc PROVE ProcessOK(q)'
  <2>1. CASE q = p
    BY <2>1
  <2>2. CASE q # p
    <3>1. /\ job'[q] = job[q] /\ ahead'[q] = ahead[q] /\ waiting'[q] = waiting[q]
          /\ mode'[q] = mode[q] /\ drained'[q] = drained[q]
      BY <2>2 DEF Others
    <3>2. PhaseOf(q)' = PhaseOf(q) /\ Draining(q)' = Draining(q)
      BY <3>1 DEF PhaseOf, Draining
    <3> QED BY <3>1, <3>2 DEF SerialInv, ProcessOK
  <2> QED BY <2>1, <2>2
<1>2. ASSUME NEW q \in Proc, NEW t \in Task PROVE JobOK(job'[q][t])
  BY DEF Others, SerialInv
<1> QED BY <1>1, <1>2 DEF SerialInv

\* Steps that change neither jobs nor queues; drained says no more than before.
LEMMA SameSerial ==
  ASSUME SerialInv, UNCHANGED <<job, ahead, waiting>>,
         NEW p \in Proc, NEW m \in {"down", "recovering", "broken", "accepting", "draining", "stopping"},
         NEW d \in BOOLEAN, mode' = [mode EXCEPT ![p] = m], drained' = [drained EXCEPT ![p] = d],
         d => m \in {"draining", "stopping"} /\ Idle(PhaseOf(p))
  PROVE  SerialInv'
<1>1. SerialTyped'
  BY DEF SerialInv, SerialTyped
<1>2. Others(p) /\ mode'[p] = m /\ drained'[p] = d
  BY DEF SerialInv, SerialTyped, Others
<1>3. PhaseOf(p)' = PhaseOf(p)
  BY DEF PhaseOf
<1>4. ProcessOK(p)'
  BY <1>2, <1>3 DEF SerialInv, ProcessOK, Draining
<1>5. \A t \in Task : JobOK(job'[p][t])
  BY DEF SerialInv
<1> QED BY <1>1, <1>2, <1>4, <1>5, OneProcess

\* One job goes on as j.
LEMMA PutSerial ==
  ASSUME SerialInv, UNCHANGED <<ahead, waiting, mode, drained>>, NEW p \in Proc, NEW t \in Task,
         NEW j \in Job, JobOK(j), job' = [job EXCEPT ![p][t] = j],
         j.phase = job[p][t].phase \/ (j.phase \in Holding /\ job[p][t].phase \in Holding)
  PROVE  SerialInv'
<1>1. SerialTyped'
  BY DEF SerialInv, SerialTyped
<1>2. Others(p) /\ job'[p][t] = j /\ \A u \in Task : u # t => job'[p][u] = job[p][u]
  BY DEF SerialInv, SerialTyped, Others
<1>3. ASSUME NEW u \in Task
      PROVE  \/ PhaseOf(p)'[u] = PhaseOf(p)[u]
             \/ (PhaseOf(p)[u] \in Holding /\ PhaseOf(p)'[u] \in Holding)
  BY <1>2 DEF PhaseOf
<1>4. PICK G : G = PhaseOf(p)'
  OBVIOUS
<1>5. PICK F : F = PhaseOf(p)
  OBVIOUS
<1>6. Serial(F, ahead[p], waiting[p]) /\ waiting[p] \in Seq(Task)
  BY <1>5 DEF SerialInv, ProcessOK, SerialTyped
<1>7. Serial(G, ahead[p], waiting[p])
  BY <1>3, <1>4, <1>5, <1>6, QuietSerial
<1>8. Idle(F) => Idle(G)
  BY <1>3, <1>4, <1>5 DEF Idle, Holding, Executing
<1>9. ProcessOK(p)'
  BY <1>4, <1>5, <1>7, <1>8 DEF SerialInv, ProcessOK, Draining
<1>10. \A u \in Task : JobOK(job'[p][u])
  BY <1>2 DEF SerialInv
<1> QED BY <1>1, <1>2, <1>9, <1>10, OneProcess

\* The state of a task without a job is in order.
LEMMA NoJobOK == /\ NoJob \in Job /\ NoJob.phase = "none" /\ JobOK(NoJob)
                 /\ [NoJob EXCEPT !.phase = "tail"] \in Job
                 /\ [NoJob EXCEPT !.phase = "tail"].phase = "tail"
                 /\ JobOK([NoJob EXCEPT !.phase = "tail"])
<1>1. NoJob \in Job /\ NoJob.phase = "none" /\ NoJob.chain = << >>
  BY NoJobType DEF NoJob
<1>2. PICK j : j = [NoJob EXCEPT !.phase = "tail"]
  OBVIOUS
<1>3. j \in Job /\ j.phase = "tail" /\ j.chain = << >>
  BY <1>1, <1>2 DEF Job, Phase
<1>4. JobOK(NoJob) /\ JobOK(j)
  BY <1>1, <1>3 DEF JobOK
<1> QED BY <1>1, <1>2, <1>3, <1>4

\* A job is made.
LEMMA NewJobSerial ==
  ASSUME SerialInv, NEW p \in Proc, NEW t \in Task, NewJob(p, t), job[p][t].phase = "none",
         UNCHANGED <<waiting, mode, drained>>
  PROVE  SerialInv'
<1>1. PICK j \in Job : j = [NoJob EXCEPT !.phase = "tail"] /\ j.phase = "tail" /\ JobOK(j)
  BY NoJobOK
<1>2. PICK a : a = {u \in Task : SessionOf[u] = SessionOf[t] /\ job[p][u].phase # "none"}
  OBVIOUS
<1>3. job' = [job EXCEPT ![p][t] = j] /\ ahead' = [ahead EXCEPT ![p][t] = a] /\ a \in SUBSET Task
  BY <1>1, <1>2 DEF NewJob
<1>4. SerialTyped'
  BY <1>3 DEF SerialInv, SerialTyped
<1>5. /\ Others(p) /\ job'[p][t] = j /\ ahead'[p][t] = a
      /\ \A u \in Task : u # t => job'[p][u] = job[p][u] /\ ahead'[p][u] = ahead[p][u]
  BY <1>3 DEF SerialInv, SerialTyped, Others
<1>6. PICK G : G = PhaseOf(p)'
  OBVIOUS
<1>7. PICK F : F = PhaseOf(p)
  OBVIOUS
<1>8. /\ F[t] = "none" /\ G[t] = "tail" /\ \A u \in Task : u # t => G[u] = F[u]
      /\ a = {u \in Task : SessionOf[u] = SessionOf[t] /\ F[u] # "none"}
  BY <1>1, <1>2, <1>5, <1>6, <1>7 DEF PhaseOf
<1>9. Serial(F, ahead[p], waiting[p]) /\ waiting[p] \in Seq(Task)
  BY <1>7 DEF SerialInv, ProcessOK, SerialTyped
<1>10. Serial(G, ahead'[p], waiting[p])
  <2>1. PICK A, B, W : A = ahead[p] /\ B = ahead'[p] /\ W = waiting[p]
    OBVIOUS
  <2>2. /\ Serial(F, A, W) /\ W \in Seq(Task)
        /\ \A u \in Task : u # t => G[u] = F[u] /\ B[u] = A[u]
        /\ B[t] = {u \in Task : SessionOf[u] = SessionOf[t] /\ F[u] # "none"}
    BY <1>5, <1>8, <1>9, <2>1
  <2>3. Serial(G, B, W)
    BY <1>8, <2>2, StartedSerial
  <2> QED BY <2>1, <2>3
<1>11. Idle(F) => Idle(G)
  BY <1>8 DEF Idle
<1>12. ProcessOK(p)'
  BY <1>6, <1>7, <1>10, <1>11 DEF SerialInv, ProcessOK, Draining
<1>13. \A u \in Task : JobOK(job'[p][u])
  BY <1>1, <1>5 DEF SerialInv
<1> QED BY <1>4, <1>5, <1>12, <1>13, OneProcess

\* Some jobs settle and some waiters are let in.
Settled(p, gone, woken, V, m) ==
  /\ \A u \in woken : job[p][u].phase = "waiting"
  /\ job' = [job EXCEPT ![p] = [u \in Task |->
               IF u \in gone THEN NoJob
               ELSE IF u \in woken THEN [job[p][u] EXCEPT !.phase = "slot"] ELSE job[p][u]]]
  /\ ahead' = Behind(p, gone) /\ waiting' = [waiting EXCEPT ![p] = V]
  /\ \A k \in 1 .. Len(V) : /\ V[k] \notin gone \cup woken
                             /\ \E i \in 1 .. Len(waiting[p]) : V[k] = waiting[p][i]
  /\ \A i, k \in 1 .. Len(V) : V[i] = V[k] => i = k
  /\ mode' = [mode EXCEPT ![p] = m] /\ UNCHANGED drained
  /\ Draining(p) => m \in {"draining", "stopping"}

\* Jobs that settle leave the chain, the limiter and its queue together.
LEMMA GoneStep ==
  ASSUME SerialInv, NEW p \in Proc, NEW gone \in SUBSET Task, NEW woken \in SUBSET Task, NEW V \in Seq(Task),
         NEW m \in {"down", "recovering", "broken", "accepting", "draining", "stopping"},
         Settled(p, gone, woken, V, m)
  PROVE  SerialInv'
<1> USE DEF Settled
<1>1. \A j \in Job : [j EXCEPT !.phase = "slot"] \in Job /\ [j EXCEPT !.phase = "slot"].phase = "slot"
                     /\ [j EXCEPT !.phase = "slot"].chain = j.chain
  BY DEF Job, Phase, Holding
<1>2. \A j \in Job : JobOK(j) => JobOK([j EXCEPT !.phase = "slot"])
  BY <1>1 DEF JobOK, Holding
<1>3. job \in [Proc -> [Task -> Job]] /\ ahead \in [Proc -> [Task -> SUBSET Task]]
  BY DEF SerialInv, SerialTyped
<1>4. job' \in [Proc -> [Task -> Job]]
  BY <1>1, <1>3, NoJobOK
<1>5. /\ ahead' \in [Proc -> [Task -> SUBSET Task]]
      /\ \A u \in Task : ahead'[p][u] = IF u \in gone THEN {} ELSE ahead[p][u] \ gone
      /\ \A q \in Proc : q # p => ahead'[q] = ahead[q]
  BY <1>3 DEF Behind
<1>6. /\ waiting' \in [Proc -> Seq(Task)] /\ waiting'[p] = V
      /\ \A q \in Proc : q # p => waiting'[q] = waiting[q]
  BY DEF SerialInv, SerialTyped
<1>7. SerialTyped'
  BY <1>4, <1>5, <1>6 DEF SerialInv, SerialTyped
<1>8. ASSUME NEW u \in Task
      PROVE  /\ job'[p][u].phase = IF u \in gone THEN "none"
                                   ELSE IF u \in woken THEN "slot" ELSE job[p][u].phase
             /\ JobOK(job'[p][u])
  BY <1>1, <1>2, <1>3, NoJobOK DEF SerialInv
<1>9. Others(p) /\ mode'[p] = m
  BY <1>3, <1>5, <1>6 DEF Others, SerialInv, SerialTyped
<1>10. PICK G : G = PhaseOf(p)'
  OBVIOUS
<1>11. PICK F : F = PhaseOf(p)
  OBVIOUS
<1>12. /\ \A u \in Task : G[u] = IF u \in gone THEN "none" ELSE IF u \in woken THEN "slot" ELSE F[u]
       /\ \A u \in Task : u \in woken => F[u] = "waiting"
  BY <1>8, <1>10, <1>11 DEF PhaseOf
<1>13. Serial(F, ahead[p], waiting[p]) /\ waiting[p] \in Seq(Task)
  BY <1>11 DEF SerialInv, ProcessOK, SerialTyped
<1>14. Serial(G, ahead'[p], V)
  <2>1. PICK A, B, W : A = ahead[p] /\ B = ahead'[p] /\ W = waiting[p]
    OBVIOUS
  <2>2. Serial(F, A, W) /\ W \in Seq(Task)
    BY <1>13, <2>1
  <2>3. \A u \in Task : B[u] = IF u \in gone THEN {} ELSE A[u] \ gone
    BY <1>5, <2>1
  <2>4. \A k \in 1 .. Len(V) : V[k] \notin gone \cup woken /\ \E i \in 1 .. Len(W) : V[k] = W[i]
    BY <2>1
  <2>5. Serial(G, B, V)
    <3>1. Gone(F, A, W, G, B, V, gone, woken)
      BY <1>12, <2>3, <2>4 DEF Gone
    <3> QED BY <2>2, <3>1, GoneSerial
  <2> QED BY <2>1, <2>5
<1>15. Idle(F) => Idle(G)
  BY <1>12 DEF Idle
<1>16. ProcessOK(p)'
  BY <1>6, <1>9, <1>10, <1>11, <1>14, <1>15 DEF SerialInv, ProcessOK, Draining
<1> QED BY <1>7, <1>8, <1>9, <1>16, OneProcess

\* The phases in which a job stands for a running row.
Running == {"agent", "ended", "final", "catch"}

\* Every other job that ran runs on.
RestRuns(p, t) ==
  \A q \in Proc, u \in Task :
    (q # p \/ u # t) /\ job[q][u].phase \in Running => job'[q][u].phase \in Running

\* The promise of a job settles; the limiter lets in at most one waiter.
LEMMA LeaveSerial ==
  ASSUME SerialInv, NEW p \in Proc, NEW t \in Task, Leave(p, t), job[p][t].phase # "waiting",
         UNCHANGED <<mode, drained>>
  PROVE  SerialInv' /\ RestRuns(p, t)
<1>1. PICK W \in Seq(Task) : W = waiting[p]
  BY DEF SerialInv, SerialTyped
<1>2. PICK freed : freed = IF job[p][t].phase \in Holding
                           THEN [busy[p] EXCEPT ![ClassOf[t]] = IF @ > 0 THEN @ - 1 ELSE 0] ELSE busy[p]
  OBVIOUS
<1>3. PICK woken : woken = IF job[p][t].phase \in Holding THEN Woken(p, freed) ELSE {}
  OBVIOUS
<1>4. /\ job' = [job EXCEPT ![p] = [u \in Task |->
                   IF u = t THEN NoJob
                   ELSE IF u \in woken THEN [job[p][u] EXCEPT !.phase = "slot"] ELSE job[p][u]]]
      /\ ahead' = Behind(p, {t})
      /\ waiting' = IF woken = {} THEN waiting
                    ELSE [waiting EXCEPT ![p] = Without(@, CHOOSE u \in woken : TRUE)]
  BY <1>2, <1>3 DEF Leave
<1>5. /\ \A i \in 1 .. Len(W) : job[p][W[i]].phase = "waiting"
      /\ \A i, k \in 1 .. Len(W) : W[i] = W[k] => i = k
  <2>1. Serial(PhaseOf(p), ahead[p], W) /\ \A i \in 1 .. Len(W) : W[i] \in Task
    BY <1>1 DEF SerialInv, ProcessOK
  <2> QED BY <2>1 DEF Serial, PhaseOf
<1>6. woken = {} \/ \E i \in 1 .. Len(W) : woken = {W[i]}
  <2>1. PICK ready : ready = {i \in DOMAIN W : CanRun(freed, ClassOf[W[i]])}
    OBVIOUS
  <2>2. woken = {} \/ woken = {W[i] : i \in {i \in ready : \A k \in ready : i <= k}}
    BY <1>1, <1>3, <2>1 DEF Woken
  <2>3. \A i \in ready : i \in 1 .. Len(W) /\ i \in Nat
    BY <2>1
  <2>4. ASSUME NEW i \in ready, \A k \in ready : i <= k PROVE {x \in ready : \A k \in ready : x <= k} = {i}
    BY <2>3, <2>4
  <2>5. CASE \E i \in ready : \A k \in ready : i <= k
    <3>1. PICK i \in ready : \A k \in ready : i <= k
      BY <2>5
    <3>2. {x \in ready : \A k \in ready : x <= k} = {i}
      BY <2>4, <3>1
    <3>3. woken = {} \/ woken = {W[i]}
      BY <2>2, <3>2
    <3> QED BY <2>3, <3>3
  <2>6. CASE ~ \E i \in ready : \A k \in ready : i <= k
    BY <2>2, <2>6
  <2> QED BY <2>5, <2>6
<1>7. woken \in SUBSET Task /\ \A u \in woken : job[p][u].phase = "waiting"
  BY <1>5, <1>6
<1>8. PICK V \in Seq(Task) :
        /\ waiting' = [waiting EXCEPT ![p] = V]
        /\ \A k \in 1 .. Len(V) : V[k] \notin {t} \cup woken /\ \E i \in 1 .. Len(W) : V[k] = W[i]
        /\ \A i, k \in 1 .. Len(V) : V[i] = V[k] => i = k
  <2>1. CASE woken = {}
    <3>1. waiting' = [waiting EXCEPT ![p] = W]
      BY <1>1, <1>4, <2>1 DEF SerialInv, SerialTyped
    <3>2. \A k \in 1 .. Len(W) : W[k] \notin {t} \cup woken
      BY <1>5, <2>1
    <3> QED BY <1>5, <3>1, <3>2
  <2>2. CASE woken # {}
    <3>1. PICK i \in 1 .. Len(W) : woken = {W[i]}
      BY <1>6, <2>2
    <3>2. PICK w \in Task : w = W[i]
      OBVIOUS
    <3>3. (CHOOSE u \in woken : TRUE) = w
      BY <3>1, <3>2
    <3>4. PICK V : V = Without(W, w)
      OBVIOUS
    <3>5. waiting' = [waiting EXCEPT ![p] = V]
      BY <1>1, <1>4, <2>2, <3>3, <3>4
    <3>6. /\ V \in Seq(Task)
          /\ \A k \in 1 .. Len(V) : V[k] # w /\ \E n \in 1 .. Len(W) : V[k] = W[n]
          /\ \A n, k \in 1 .. Len(V) : V[n] = V[k] => n = k
      BY <1>5, <3>4, WithoutOne, SMTT(40)
    <3>7. \A k \in 1 .. Len(V) : V[k] \notin {t} \cup woken
      BY <1>5, <3>1, <3>2, <3>6
    <3> QED BY <3>5, <3>6, <3>7
  <2> QED BY <2>1, <2>2
<1>9. job' = [job EXCEPT ![p] = [u \in Task |->
                IF u \in {t} THEN NoJob
                ELSE IF u \in woken THEN [job[p][u] EXCEPT !.phase = "slot"] ELSE job[p][u]]]
  BY <1>4
<1>10. SerialInv'
  <2>1. PICK m : m = mode[p]
    OBVIOUS
  <2>2. /\ m \in {"down", "recovering", "broken", "accepting", "draining", "stopping"}
        /\ mode' = [mode EXCEPT ![p] = m] /\ (Draining(p) => m \in {"draining", "stopping"})
    BY <2>1 DEF SerialInv, SerialTyped, Draining
  <2>3. {t} \in SUBSET Task
    OBVIOUS
  <2>4. Settled(p, {t}, woken, V, m)
    BY <1>1, <1>4, <1>7, <1>8, <1>9, <2>2 DEF Settled
  <2> QED BY <1>7, <2>2, <2>3, <2>4, GoneStep
<1>11. RestRuns(p, t)
  <2>1. \A u \in woken : job[p][u].phase \notin Running
    BY <1>7 DEF Running
  <2>2. job \in [Proc -> [Task -> Job]]
    BY DEF SerialInv, SerialTyped
  <2> QED BY <1>4, <2>1, <2>2 DEF RestRuns
<1> QED BY <1>10, <1>11

\* A step of the job of t leaves no running row alone: it runs on, the row is closed or
\* paused, or a call was lost.
Stays(p, t) ==
  /\ RestRuns(p, t)
  /\ job[p][t].phase \in Running =>
       job'[p][t].phase \in Running \/ status'[t] # "running" \/ faults' # 0

\* The job of t goes on as j.
LEMMA SetSerial ==
  ASSUME SerialInv, NEW p \in Proc, NEW t \in Task, NEW j \in Job, Set(p, t, j), JobOK(j),
         UNCHANGED process,
         j.phase = job[p][t].phase \/ (j.phase \in Holding /\ job[p][t].phase \in Holding)
  PROVE  SerialInv' /\ RestRuns(p, t) /\ job'[p][t] = j
<1>1. /\ job' = [job EXCEPT ![p][t] = j] /\ UNCHANGED <<ahead, waiting, mode, drained>>
  BY DEF Set, limiter, process
<1>2. SerialInv'
  BY <1>1, PutSerial
<1>3. RestRuns(p, t) /\ job'[p][t] = j
  BY <1>1 DEF SerialInv, SerialTyped, RestRuns
<1> QED BY <1>2, <1>3

\* Only the phase changes.
LEMMA GotoSerial ==
  ASSUME SerialInv, NEW p \in Proc, NEW t \in Task, NEW ph \in Holding \ {"catch"}, Goto(p, t, ph),
         UNCHANGED process, job[p][t].phase \in Holding
  PROVE  SerialInv' /\ RestRuns(p, t) /\ job'[p][t].phase = ph
<1>1. PICK j : j = [job[p][t] EXCEPT !.phase = ph]
  OBVIOUS
<1>2. job[p][t] \in Job /\ JobOK(job[p][t])
  BY DEF SerialInv, SerialTyped
<1>3. j \in Job /\ j.phase = ph /\ j.chain = job[p][t].chain
  BY <1>1, <1>2 DEF Job, Phase
<1>4. JobOK(j)
  BY <1>2, <1>3 DEF JobOK
<1>5. Set(p, t, j)
  BY <1>1 DEF Goto
<1> QED BY <1>3, <1>4, <1>5, SetSerial

\* A failed run has a status to close the row with.
LEMMA CaughtOK ==
  ASSUME NEW t, NEW j \in Job, JobOK(j), j.phase \in Holding
  PROVE  Caught(t, j) \in Job /\ JobOK(Caught(t, j)) /\ Caught(t, j).phase = "catch"
<1>1. CatchStatus(t, j) \in Closing /\ CatchStatus(t, j) \in Status
  BY DEF CatchStatus, Closing, Terminal, Status
<1>2. PICK x : x = Caught(t, j)
  OBVIOUS
<1>3. x \in Job /\ x.phase = "catch" /\ x.fin \in Closing /\ x.chain = j.chain
  BY <1>1, <1>2 DEF Caught, Job, Phase, Holding, Executing
<1>4. JobOK(x)
  BY <1>3 DEF JobOK, Holding, Executing
<1> QED BY <1>2, <1>3, <1>4

\* A task that asks the limiter.
LEMMA AcquireSerial ==
  ASSUME SerialInv, NEW p \in Proc, NEW t \in Task, acquire(p, t)
  PROVE  SerialInv' /\ Stays(p, t)
<1>0. job[p][t].phase = "tail" /\ ahead[p][t] = {} /\ UNCHANGED <<mode, drained>>
  BY DEF acquire, Predecessors, process
<1>1. job[p][t].phase \notin Running /\ job[p][t].phase # "waiting"
  BY <1>0 DEF Running
<1>2. CASE Leave(p, t)
  BY <1>0, <1>1, <1>2, LeaveSerial DEF Stays
<1>3. ASSUME NEW ph \in {"slot", "waiting"}, job' = [job EXCEPT ![p][t].phase = ph], ~Draining(p),
             UNCHANGED ahead,
             waiting' = IF ph = "slot" THEN waiting ELSE [waiting EXCEPT ![p] = Enqueued(@, t)]
      PROVE  SerialInv' /\ Stays(p, t)
  <2>1. PICK j : j = [job[p][t] EXCEPT !.phase = ph]
    OBVIOUS
  <2>2. job[p][t] \in Job /\ JobOK(job[p][t]) /\ job \in [Proc -> [Task -> Job]]
    BY DEF SerialInv, SerialTyped
  <2>3. j \in Job /\ j.phase = ph /\ j.chain = job[p][t].chain
    BY <2>1, <2>2 DEF Job, Phase, Holding
  <2>4. JobOK(j)
    BY <1>0, <2>2, <2>3 DEF JobOK, Holding, Executing
  <2>5. job' = [job EXCEPT ![p][t] = j]
    BY <1>3, <2>1, <2>2
  <2>6. /\ job' \in [Proc -> [Task -> Job]] /\ job'[p][t] = j
        /\ \A u \in Task : u # t => job'[p][u] = job[p][u]
        /\ \A q \in Proc : q # p => job'[q] = job[q]
    BY <2>2, <2>3, <2>5
  <2>7. PICK G : G = PhaseOf(p)'
    OBVIOUS
  <2>8. PICK F : F = PhaseOf(p)
    OBVIOUS
  <2>9. F[t] = "tail" /\ G[t] = ph /\ \A u \in Task : u # t => G[u] = F[u]
    BY <1>0, <2>3, <2>6, <2>7, <2>8 DEF PhaseOf
  <2>10. PICK A, W : A = ahead[p] /\ W = waiting[p]
    OBVIOUS
  <2>11. Serial(F, A, W) /\ W \in Seq(Task) /\ A[t] = {}
    BY <1>0, <2>8, <2>10 DEF SerialInv, ProcessOK, SerialTyped
  <2>12. /\ Serial(G, A, waiting'[p]) /\ waiting' \in [Proc -> Seq(Task)]
         /\ \A q \in Proc : q # p => waiting'[q] = waiting[q]
    <3>1. CASE ph = "slot"
      <4>1. Serial(G, A, W)
        BY <2>9, <2>11, <3>1, SlotSerial
      <4> QED BY <1>3, <2>10, <3>1, <4>1 DEF SerialInv, SerialTyped
    <3>2. CASE ph = "waiting"
      <4>1. Serial(G, A, Enqueued(W, t)) /\ Enqueued(W, t) \in Seq(Task)
        BY <2>9, <2>11, <3>2, WaitSerial
      <4>2. waiting' = [waiting EXCEPT ![p] = Enqueued(W, t)]
        BY <1>3, <2>10, <3>2
      <4> QED BY <4>1, <4>2 DEF SerialInv, SerialTyped
    <3> QED BY <1>3, <3>1, <3>2
  <2>13. SerialTyped' /\ Others(p)
    BY <1>0, <1>3, <2>6, <2>12 DEF SerialInv, SerialTyped, Others
  <2>14. ~drained[p]
    BY <1>3 DEF SerialInv, ProcessOK
  <2>15. ProcessOK(p)'
    BY <1>0, <1>3, <2>7, <2>10, <2>12, <2>14 DEF ProcessOK
  <2>16. \A u \in Task : JobOK(job'[p][u])
    BY <2>4, <2>6 DEF SerialInv
  <2>17. SerialInv'
    BY <2>13, <2>15, <2>16, OneProcess
  <2>18. Stays(p, t)
    BY <1>1, <2>6 DEF Stays, RestRuns
  <2> QED BY <2>17, <2>18
<1>4. \/ Leave(p, t)
      \/ \E ph \in {"slot", "waiting"} :
           /\ job' = [job EXCEPT ![p][t].phase = ph] /\ ~Draining(p) /\ UNCHANGED ahead
           /\ waiting' = IF ph = "slot" THEN waiting ELSE [waiting EXCEPT ![p] = Enqueued(@, t)]
  BY DEF acquire
<1> QED BY <1>2, <1>3, <1>4

\* A claim that failed: not a running job yet.
LEMMA UnclaimedSerial ==
  ASSUME SerialInv, NEW p \in Proc, NEW t \in Task, Unclaimed(p, t), UNCHANGED process,
         job[p][t].phase \in {"slot", "claim"}
  PROVE  SerialInv' /\ Stays(p, t)
<1>1. job[p][t].phase \in Holding /\ job[p][t].phase \notin Running /\ job[p][t].phase # "waiting"
  BY DEF Holding, Executing, Running
<1>2. "joined" \in Holding \ {"catch"}
  BY DEF Holding
<1>3. CASE Goto(p, t, "joined")
  BY <1>1, <1>2, <1>3, GotoSerial DEF Stays
<1>4. CASE Leave(p, t)
  BY <1>1, <1>4, LeaveSerial DEF Stays, process
<1> QED BY <1>3, <1>4 DEF Unclaimed

\* Dispatch, the claim, the wait for another's run and the end of the agent.
LEMMA RunSerial ==
  ASSUME SerialInv, NEW p \in Proc, NEW t \in Task,
         dispatch(p, t) \/ claimTask(p, t) \/ waitForTask(p, t) \/ agentEnds(p, t)
  PROVE  SerialInv' /\ Stays(p, t) /\ (claimTask(p, t) => runs' = runs \/ job'[p][t].phase = "agent")
<1>0. UNCHANGED process
  BY DEF dispatch, claimTask, waitForTask, agentEnds
<1>1. job[p][t] \in Job /\ JobOK(job[p][t])
  BY DEF SerialInv, SerialTyped
<1>2. CASE dispatch(p, t)
  <2>1. job[p][t].phase = "slot" /\ (Unclaimed(p, t) \/ Goto(p, t, "claim"))
    BY <1>2 DEF dispatch
  <2>2. "claim" \in Holding \ {"catch"} /\ "slot" \in Holding /\ "slot" \notin Running
    BY DEF Holding, Executing, Running
  <2>3. SerialInv' /\ Stays(p, t)
    BY <1>0, <2>1, <2>2, UnclaimedSerial, GotoSerial DEF Stays
  <2> QED BY <1>2, <2>1, <2>3 DEF dispatch, durable
<1>3. CASE claimTask(p, t)
  <2>1. PICK j : j = [job[p][t] EXCEPT !.phase = "agent", !.rec = "running"]
    OBVIOUS
  <2>2. job[p][t].phase = "claim" /\ ((runs' = runs /\ Unclaimed(p, t)) \/ Set(p, t, j))
    BY <1>3, <2>1 DEF claimTask
  <2>3. j \in Job /\ j.phase = "agent" /\ j.chain = job[p][t].chain
    BY <1>1, <2>1 DEF Job, Phase, Holding, Executing, Status
  <2>4. JobOK(j) /\ j.phase \in Holding /\ "claim" \in Holding
    BY <1>1, <2>3 DEF JobOK, Holding, Executing
  <2>5. CASE runs' = runs /\ Unclaimed(p, t)
    BY <1>0, <2>2, <2>5, UnclaimedSerial
  <2>6. CASE Set(p, t, j)
    <3>1. SerialInv' /\ RestRuns(p, t) /\ job'[p][t] = j
      BY <1>0, <2>2, <2>3, <2>4, <2>6, SetSerial
    <3> QED BY <2>3, <3>1 DEF Stays, Running
  <2> QED BY <2>2, <2>5, <2>6
<1>4. CASE waitForTask(p, t)
  <2>1. job[p][t].phase = "joined" /\ Leave(p, t) /\ runs' = runs
    BY <1>4 DEF waitForTask, durable
  <2>2. SerialInv' /\ RestRuns(p, t)
    BY <1>0, <2>1, LeaveSerial DEF process
  <2> QED BY <2>1, <2>2 DEF Stays, Running
<1>5. CASE agentEnds(p, t)
  <2>1. /\ job[p][t].phase = "agent" /\ runs' = runs
        /\ Goto(p, t, "ended") \/ Set(p, t, Caught(t, job[p][t]))
    BY <1>5 DEF agentEnds, durable
  <2>2. "ended" \in Holding \ {"catch"} /\ "agent" \in Holding /\ "catch" \in Holding
    BY DEF Holding, Executing
  <2>3. CASE Goto(p, t, "ended")
    <3>1. SerialInv' /\ RestRuns(p, t) /\ job'[p][t].phase = "ended"
      BY <1>0, <2>1, <2>2, <2>3, GotoSerial
    <3> QED BY <2>1, <3>1 DEF Stays, Running
  <2>4. CASE Set(p, t, Caught(t, job[p][t]))
    <3>1. PICK x \in Job : x = Caught(t, job[p][t]) /\ JobOK(x) /\ x.phase = "catch"
      BY <1>1, <2>1, <2>2, CaughtOK
    <3>2. SerialInv' /\ RestRuns(p, t) /\ job'[p][t] = x
      BY <1>0, <2>1, <2>2, <2>4, <3>1, SetSerial
    <3> QED BY <2>1, <3>1, <3>2 DEF Stays, Running
  <2> QED BY <2>1, <2>3, <2>4
<1> QED BY <1>2, <1>3, <1>4, <1>5

\* The run is over.
LEMMA SettleSerial ==
  ASSUME SerialInv, StatusTyped, NEW p \in Proc, NEW t \in Task, settle(p, t)
  PROVE  SerialInv' /\ Stays(p, t)
<1>0. UNCHANGED process /\ status' = status
  BY DEF settle, durable
<1>1. PICK j \in Job : j = job[p][t] /\ JobOK(j) /\ j.phase = "ended"
  BY DEF SerialInv, SerialTyped, settle
<1>2. \/ Set(p, t, Caught(t, j))
      \/ /\ status[t] = "awaiting"
         /\ Set(p, t, [j EXCEPT !.phase = "finish", !.rec = status[t], !.fin = status[t]])
      \/ status[t] \in Terminal /\ Leave(p, t)
      \/ \E st \in {"completed", "failed"} :
           Set(p, t, [j EXCEPT !.phase = "final", !.chain = Append(@, [st |-> st, by |-> "run"])])
  BY <1>1 DEF settle
<1>3. {"ended", "catch", "finish", "final"} \subseteq Holding
  BY DEF Holding, Executing
<1>4. CASE Set(p, t, Caught(t, j))
  <2>1. PICK x \in Job : x = Caught(t, j) /\ JobOK(x) /\ x.phase = "catch"
    BY <1>1, <1>3, CaughtOK
  <2>2. SerialInv' /\ RestRuns(p, t) /\ job'[p][t] = x
    BY <1>0, <1>1, <1>3, <1>4, <2>1, SetSerial
  <2> QED BY <2>1, <2>2 DEF Stays, Running
<1>5. CASE /\ status[t] = "awaiting"
           /\ Set(p, t, [j EXCEPT !.phase = "finish", !.rec = status[t], !.fin = status[t]])
  <2>1. PICK x : x = [j EXCEPT !.phase = "finish", !.rec = status[t], !.fin = status[t]]
    OBVIOUS
  <2>2. x \in Job /\ x.phase = "finish" /\ x.chain = j.chain
    BY <1>3, <2>1 DEF Job, Phase, StatusTyped
  <2>3. JobOK(x)
    BY <1>1, <1>3, <2>2 DEF JobOK
  <2>4. SerialInv' /\ RestRuns(p, t)
    BY <1>0, <1>1, <1>3, <1>5, <2>1, <2>2, <2>3, SetSerial
  <2> QED BY <1>0, <1>5, <2>4 DEF Stays
<1>6. CASE status[t] \in Terminal /\ Leave(p, t)
  <2>1. SerialInv' /\ RestRuns(p, t)
    BY <1>0, <1>1, <1>6, LeaveSerial DEF process
  <2> QED BY <1>0, <1>6, <2>1 DEF Stays, Terminal
<1>7. ASSUME NEW st \in {"completed", "failed"},
             Set(p, t, [j EXCEPT !.phase = "final", !.chain = Append(@, [st |-> st, by |-> "run"])])
      PROVE  SerialInv' /\ Stays(p, t)
  <2>1. PICK e \in Patch : e = [st |-> st, by |-> "run"]
    BY DEF Patch, Status, Terminal
  <2>2. PICK c : c = Append(j.chain, e)
    OBVIOUS
  <2>3. j.chain \in Seq(Patch)
    BY DEF Job
  <2>4. c \in Seq(Patch) /\ \A i \in 1 .. Len(c) : c[i] = e \/ (i \in 1 .. Len(j.chain) /\ c[i] = j.chain[i])
    BY <2>2, <2>3
  <2>5. PICK x : x = [j EXCEPT !.phase = "final", !.chain = c]
    OBVIOUS
  <2>6. x \in Job /\ x.phase = "final" /\ x.chain = c
    BY <1>3, <2>4, <2>5 DEF Job, Phase
  <2>7. e.st \in Closing
    BY <2>1 DEF Closing, Terminal
  <2>8. JobOK(x)
    BY <1>1, <1>3, <2>4, <2>6, <2>7 DEF JobOK
  <2>9. Set(p, t, x)
    BY <1>7, <2>1, <2>2, <2>5
  <2>10. SerialInv' /\ RestRuns(p, t) /\ job'[p][t] = x
    BY <1>0, <1>1, <1>3, <2>6, <2>8, <2>9, SetSerial
  <2> QED BY <2>6, <2>10 DEF Stays, Running
<1> QED BY <1>2, <1>4, <1>5, <1>6, <1>7

\* The head of the chain is sent.
LEMMA PatchSerial ==
  ASSUME SerialInv, StatusTyped, NEW p \in Proc, NEW t \in Task, patch(p, t)
  PROVE  /\ SerialInv' /\ Stays(p, t)
         /\ UNCHANGED <<status, faults>> \/ \E st \in Closing, ok \in BOOLEAN : PatchTask(t, st, ok)
<1>0. UNCHANGED process
  BY DEF patch
<1>1. PICK j \in Job : j = job[p][t] /\ JobOK(j)
  BY DEF SerialInv, SerialTyped
<1>2. j.chain \in Seq(Patch) /\ j.chain # << >>
  BY <1>1 DEF patch, Job
<1>3. PICK c \in Patch : c = Head(j.chain)
  BY <1>2
<1>4. PICK tl \in Seq(Patch) : tl = Tail(j.chain)
  BY <1>2, HeadTailProperties
<1>5. c = j.chain[1] /\ 1 \in 1 .. Len(j.chain) /\ \A i \in 1 .. Len(tl) : i + 1 \in 1 .. Len(j.chain) /\ tl[i] = j.chain[i + 1]
  BY <1>2, <1>3, <1>4
<1>6. c.st \in Closing /\ (c.by = "run" => j.phase \in Holding)
  BY <1>1, <1>5 DEF JobOK
<1>7. \A i \in 1 .. Len(tl) : tl[i].st \in Closing /\ (tl[i].by = "run" => j.phase \in Holding)
  BY <1>1, <1>5 DEF JobOK
<1>8. ASSUME NEW x \in Job, x.chain = tl, x.phase = j.phase, x.fin = j.fin PROVE JobOK(x)
  BY <1>1, <1>7, <1>8 DEF JobOK
<1>9. PICK rest : rest = [j EXCEPT !.chain = tl]
  OBVIOUS
<1>10. rest \in Job /\ rest.phase = j.phase /\ rest.fin = j.fin /\ rest.chain = tl
  BY <1>9 DEF Job
<1>11. PICK sent : sent = [rest EXCEPT !.rec = c.st]
  OBVIOUS
<1>12. sent \in Job /\ sent.phase = j.phase /\ sent.fin = j.fin /\ sent.chain = tl
  BY <1>10, <1>11 DEF Job, Patch
<1>13. PICK failed : failed = [rest EXCEPT !.patchFailure = TRUE]
  OBVIOUS
<1>14. failed \in Job /\ failed.phase = j.phase /\ failed.fin = j.fin /\ failed.chain = tl
  BY <1>10, <1>13 DEF Job
<1>15. PICK told : told = [sent EXCEPT !.fin = c.st, !.phase = IF t \in Fixed THEN "flush" ELSE "finish"]
  OBVIOUS
<1>16. told \in Job /\ told.phase \in {"flush", "finish"} /\ told.chain = tl
  BY <1>12, <1>15 DEF Job, Patch, Phase, Holding, Executing
<1>17. PICK lost : lost = [failed EXCEPT !.pause = FALSE, !.error = TRUE, !.aborted = TRUE]
  OBVIOUS
<1>18. lost \in Job /\ lost.phase = j.phase /\ lost.fin = j.fin /\ lost.chain = tl
  BY <1>14, <1>17 DEF Job
<1>19. PICK ok \in BOOLEAN :
         /\ IF j.patchFailure THEN ~ok /\ UNCHANGED <<status, faults>> ELSE PatchTask(t, c.st, ok)
         /\ Set(p, t,
              CASE c.by = "run"    -> IF ok THEN told ELSE Caught(t, failed)
                [] c.by = "pause"  -> IF ok THEN sent ELSE lost
                [] c.by = "cancel" -> IF ok THEN sent ELSE failed)
  BY <1>1, <1>3, <1>4, <1>9, <1>11, <1>13, <1>15, <1>17, ZenonT(30) DEF patch
<1>20. UNCHANGED <<status, faults>> \/ \E st \in Closing, a \in BOOLEAN : PatchTask(t, st, a)
  BY <1>6, <1>19
<1>21. ASSUME NEW x \in Job, x.chain = tl, x.phase = j.phase, x.fin = j.fin, Set(p, t, x)
       PROVE  SerialInv' /\ Stays(p, t)
  <2>1. SerialInv' /\ RestRuns(p, t) /\ job'[p][t] = x
    BY <1>0, <1>1, <1>8, <1>21, SetSerial
  <2> QED BY <1>1, <1>21, <2>1 DEF Stays
<1>22. ASSUME c.by = "run" PROVE SerialInv' /\ Stays(p, t)
  <2>1. j.phase \in Holding /\ {"flush", "finish", "catch"} \subseteq Holding
    BY <1>6, <1>22 DEF Holding, Executing
  <2>2. CASE ok = TRUE
    <3>1. Set(p, t, told) /\ PatchTask(t, c.st, TRUE)
      BY <1>19, <1>22, <2>2
    <3>2. JobOK(told)
      BY <1>7, <1>16, <2>1 DEF JobOK
    <3>3. SerialInv' /\ RestRuns(p, t)
      BY <1>0, <1>1, <1>16, <2>1, <3>1, <3>2, SetSerial
    <3>4. status'[t] = c.st
      BY <3>1, PatchSets DEF StatusTyped
    <3> QED BY <1>6, <3>3, <3>4 DEF Stays, Closing, Terminal
  <2>3. CASE ok = FALSE
    <3>1. Set(p, t, Caught(t, failed))
      BY <1>19, <1>22, <2>3
    <3>2. JobOK(failed)
      BY <1>8, <1>14
    <3>3. PICK x \in Job : x = Caught(t, failed) /\ JobOK(x) /\ x.phase = "catch"
      BY <1>14, <2>1, <3>2, CaughtOK
    <3>4. SerialInv' /\ RestRuns(p, t) /\ job'[p][t] = x
      BY <1>0, <1>1, <2>1, <3>1, <3>3, SetSerial
    <3> QED BY <3>3, <3>4 DEF Stays, Running
  <2> QED BY <2>2, <2>3
<1>23. ASSUME c.by = "pause" PROVE SerialInv' /\ Stays(p, t)
  <2>1. Set(p, t, sent) \/ Set(p, t, lost)
    BY <1>19, <1>23
  <2> QED BY <1>12, <1>18, <1>21, <2>1
<1>24. ASSUME c.by = "cancel" PROVE SerialInv' /\ Stays(p, t)
  <2>1. Set(p, t, sent) \/ Set(p, t, failed)
    BY <1>19, <1>24
  <2> QED BY <1>12, <1>14, <1>21, <2>1
<1>25. c.by \in {"run", "pause", "cancel"}
  BY DEF Patch
<1>26. SerialInv' /\ Stays(p, t)
  BY <1>22, <1>23, <1>24, <1>25
<1> QED BY <1>20, <1>26

\* The chain of a fixed tool is flushed.
LEMMA FlushSerial ==
  ASSUME SerialInv, NEW p \in Proc, NEW t \in Task, flushPatches(p, t)
  PROVE  SerialInv' /\ Stays(p, t)
<1>0. UNCHANGED process
  BY DEF flushPatches
<1>1. PICK j \in Job : j = job[p][t] /\ JobOK(j) /\ j.phase = "flush"
  BY DEF SerialInv, SerialTyped, flushPatches
<1>2. PICK x : x = [j EXCEPT !.phase = "finish"]
  OBVIOUS
<1>3. {"flush", "finish", "catch"} \subseteq Holding
  BY DEF Holding, Executing
<1>4. x \in Job /\ x.phase = "finish" /\ x.chain = j.chain
  BY <1>2, <1>3 DEF Job, Phase
<1>5. JobOK(x)
  BY <1>1, <1>3, <1>4 DEF JobOK
<1>6. PICK y \in Job : y = Caught(t, j) /\ JobOK(y) /\ y.phase = "catch"
  BY <1>1, <1>3, CaughtOK
<1>7. Set(p, t, y) \/ Set(p, t, x)
  BY <1>1, <1>2, <1>6 DEF flushPatches
<1>8. SerialInv' /\ RestRuns(p, t)
  BY <1>0, <1>1, <1>3, <1>4, <1>5, <1>6, <1>7, SetSerial
<1> QED BY <1>1, <1>8 DEF Stays, Running

\* The catch block: the row is closed unless the call is lost.
LEMMA ReconcileSerial ==
  ASSUME SerialInv, StatusTyped, faults \in Nat, NEW p \in Proc, NEW t \in Task, reconcile(p, t)
  PROVE  SerialInv' /\ Stays(p, t) /\ \E st \in Closing, ok \in BOOLEAN : PatchTask(t, st, ok)
<1>0. UNCHANGED process
  BY DEF reconcile
<1>1. PICK j \in Job : j = job[p][t] /\ JobOK(j) /\ j.phase = "catch"
  BY DEF SerialInv, SerialTyped, reconcile
<1>2. j.fin \in Closing
  BY <1>1 DEF JobOK
<1>3. PICK x : x = [j EXCEPT !.phase = "finish", !.rec = j.fin]
  OBVIOUS
<1>4. {"catch", "finish"} \subseteq Holding
  BY DEF Holding, Executing
<1>5. x \in Job /\ x.phase = "finish" /\ x.chain = j.chain
  BY <1>3, <1>4 DEF Job, Phase
<1>6. JobOK(x)
  BY <1>1, <1>4, <1>5 DEF JobOK
<1>7. PICK ok \in BOOLEAN : PatchTask(t, j.fin, ok) /\ IF ok THEN Set(p, t, x) ELSE Leave(p, t)
  BY <1>1, <1>3 DEF reconcile
<1>8. CASE ok = TRUE
  <2>1. SerialInv' /\ RestRuns(p, t)
    BY <1>0, <1>1, <1>4, <1>5, <1>6, <1>7, <1>8, SetSerial
  <2>2. status'[t] = j.fin
    BY <1>7, <1>8, PatchSets DEF StatusTyped
  <2> QED BY <1>2, <1>7, <2>1, <2>2 DEF Stays, Closing, Terminal
<1>9. CASE ok = FALSE
  <2>1. SerialInv' /\ RestRuns(p, t)
    BY <1>0, <1>1, <1>7, <1>9, LeaveSerial DEF process
  <2>2. status'[t] # "running" \/ faults' # 0
    <3>1. \/ ~MayMove(status[t], j.fin) /\ UNCHANGED <<status, faults>>
          \/ faults' = faults + 1
      BY <1>7, <1>9 DEF PatchTask
    <3>2. status[t] = "running" => MayMove(status[t], j.fin)
      BY <1>2 DEF MayMove, Closing
    <3> QED BY <3>1, <3>2
  <2> QED BY <1>2, <1>7, <2>1, <2>2 DEF Stays
<1> QED BY <1>8, <1>9

\* The finish event is written, or not; the job is over.
LEMMA PublishSerial ==
  ASSUME SerialInv, NEW p \in Proc, NEW t \in Task, publishFinish(p, t)
  PROVE  SerialInv' /\ Stays(p, t)
<1>1. job[p][t].phase = "finish" /\ Leave(p, t) /\ UNCHANGED <<mode, drained>>
  BY DEF publishFinish, process
<1>2. SerialInv' /\ RestRuns(p, t)
  BY <1>1, LeaveSerial
<1> QED BY <1>1, <1>2 DEF Stays, Running

\* A step that touches no job and no mode.
LEMMA QuietStep ==
  ASSUME SerialInv, UNCHANGED <<job, ahead, waiting, mode, drained>>
  PROVE  SerialInv'
<1>1. SerialTyped'
  BY DEF SerialInv, SerialTyped
<1>2. ASSUME NEW q \in Proc PROVE ProcessOK(q)'
  <2>1. PhaseOf(q)' = PhaseOf(q) /\ Draining(q)' = Draining(q)
    BY DEF PhaseOf, Draining
  <2> QED BY <2>1 DEF SerialInv, ProcessOK
<1>3. \A q \in Proc, t \in Task : JobOK(job'[q][t])
  BY DEF SerialInv
<1> QED BY <1>1, <1>2, <1>3 DEF SerialInv

\* Cancel of a live job, timeout and authorization pause.
LEMMA DisturbSerial ==
  ASSUME SerialInv, NEW p \in Proc, NEW t \in Task,
         cancelJob(p, t) \/ timeout(p, t) \/ markTaskAwaitingUserAuthorization(p, t)
  PROVE  SerialInv' /\ Stays(p, t)
<1>0. UNCHANGED process
  BY DEF cancelJob, timeout, markTaskAwaitingUserAuthorization
<1>1. PICK j \in Job : j = job[p][t] /\ JobOK(j)
  BY DEF SerialInv, SerialTyped
<1>2. j.chain \in Seq(Patch)
  BY DEF Job
<1>3. ASSUME NEW x \in Job, x.phase = j.phase, x.fin = j.fin, Set(p, t, x),
             \A i \in 1 .. Len(x.chain) : \/ x.chain[i].st \in Closing /\ x.chain[i].by # "run"
                                          \/ i \in 1 .. Len(j.chain) /\ x.chain[i] = j.chain[i]
      PROVE  SerialInv' /\ Stays(p, t)
  <2>1. JobOK(x)
    BY <1>1, <1>3 DEF JobOK
  <2>2. SerialInv' /\ RestRuns(p, t) /\ job'[p][t] = x
    BY <1>0, <1>1, <1>3, <2>1, SetSerial
  <2> QED BY <1>1, <1>3, <2>2 DEF Stays
<1>4. CASE timeout(p, t)
  <2>1. PICK x : x = [j EXCEPT !.aborted = TRUE]
    OBVIOUS
  <2>2. x \in Job /\ x.phase = j.phase /\ x.fin = j.fin /\ x.chain = j.chain
    BY <2>1 DEF Job
  <2>3. Set(p, t, x)
    BY <1>1, <1>4, <2>1 DEF timeout
  <2> QED BY <1>3, <2>2, <2>3
<1>5. CASE markTaskAwaitingUserAuthorization(p, t)
  <2>1. PICK x : x = [j EXCEPT !.error = TRUE, !.aborted = TRUE]
    OBVIOUS
  <2>2. PICK e : e = [st |-> "awaiting", by |-> "pause"]
    OBVIOUS
  <2>3. e \in Patch /\ e.st \in Closing /\ e.by # "run"
    BY <2>2 DEF Patch, Status, Closing
  <2>4. PICK y : y = [j EXCEPT !.pause = TRUE, !.chain = <<e>>]
    OBVIOUS
  <2>5. <<e>> \in Seq(Patch)
    BY <2>3
  <2>6. PICK c : c = <<e>>
    OBVIOUS
  <2>7. c \in Seq(Patch) /\ y = [j EXCEPT !.pause = TRUE, !.chain = c]
    BY <2>4, <2>5, <2>6
  <2>8. x \in Job /\ x.phase = j.phase /\ x.fin = j.fin /\ x.chain = j.chain
    BY <2>1 DEF Job
  <2>9. y \in Job /\ y.phase = j.phase /\ y.fin = j.fin /\ y.chain = <<e>>
    BY <2>6, <2>7 DEF Job
  <2>10. Set(p, t, x) \/ Set(p, t, y)
    BY <1>1, <1>5, <2>1, <2>2, <2>4 DEF markTaskAwaitingUserAuthorization
  <2>11. \A i \in 1 .. Len(y.chain) : y.chain[i].st \in Closing /\ y.chain[i].by # "run"
    BY <2>3, <2>9
  <2> QED BY <1>3, <2>8, <2>9, <2>10, <2>11
<1>6. CASE cancelJob(p, t)
  <2>1. CASE j.phase # "waiting"
    <3>1. PICK e : e = [st |-> "aborted", by |-> "cancel"]
      OBVIOUS
    <3>2. e \in Patch /\ e.st \in Closing /\ e.by # "run"
      BY <3>1 DEF Patch, Status, Closing, Terminal
    <3>3. PICK c : c = Append(j.chain, e)
      OBVIOUS
    <3>4. c \in Seq(Patch) /\ \A i \in 1 .. Len(c) : c[i] = e \/ (i \in 1 .. Len(j.chain) /\ c[i] = j.chain[i])
      BY <1>2, <3>2, <3>3
    <3>5. PICK x : x = [j EXCEPT !.error = TRUE, !.aborted = TRUE, !.chain = c]
      OBVIOUS
    <3>6. x \in Job /\ x.phase = j.phase /\ x.fin = j.fin /\ x.chain = c
      BY <3>4, <3>5 DEF Job
    <3>7. Set(p, t, x)
      BY <1>1, <1>6, <2>1, <3>1, <3>3, <3>5 DEF cancelJob
    <3> QED BY <1>3, <3>2, <3>4, <3>6, <3>7
  <2>2. CASE j.phase = "waiting"
    <3>1. /\ job' = [job EXCEPT ![p][t] = NoJob] /\ ahead' = Behind(p, {t})
          /\ waiting' = [waiting EXCEPT ![p] = Without(@, t)] /\ job[p][t].phase = "waiting"
      BY <1>1, <1>6, <2>2 DEF cancelJob
    <3>2. PICK W \in Seq(Task) : W = waiting[p]
      BY DEF SerialInv, SerialTyped
    <3>3. \A i, k \in 1 .. Len(W) : W[i] = W[k] => i = k
      BY <3>2 DEF SerialInv, ProcessOK, Serial
    <3>4. PICK V : V = Without(W, t)
      OBVIOUS
    <3>5. /\ V \in Seq(Task)
          /\ \A k \in 1 .. Len(V) : V[k] # t /\ \E n \in 1 .. Len(W) : V[k] = W[n]
          /\ \A n, k \in 1 .. Len(V) : V[n] = V[k] => n = k
      <4>1. /\ Without(W, t) \in Seq(Task)
            /\ \A k \in 1 .. Len(Without(W, t)) :
                 Without(W, t)[k] # t /\ \E i \in 1 .. Len(W) : Without(W, t)[k] = W[i]
            /\ \A i, k \in 1 .. Len(Without(W, t)) : Without(W, t)[i] = Without(W, t)[k] => i = k
        BY <3>3, WithoutOne, ZenonT(30)
      <4> QED BY <3>4, <4>1
    <3>6. job' = [job EXCEPT ![p] = [u \in Task |->
                    IF u \in {t} THEN NoJob
                    ELSE IF u \in {} THEN [job[p][u] EXCEPT !.phase = "slot"] ELSE job[p][u]]]
      BY <3>1 DEF SerialInv, SerialTyped
    <3>7. PICK m : m = mode[p]
      OBVIOUS
    <3>8. /\ m \in {"down", "recovering", "broken", "accepting", "draining", "stopping"}
          /\ mode' = [mode EXCEPT ![p] = m] /\ (Draining(p) => m \in {"draining", "stopping"})
      BY <1>0, <3>7 DEF SerialInv, SerialTyped, Draining, process
    <3>9. Settled(p, {t}, {}, V, m)
      BY <1>0, <3>1, <3>2, <3>4, <3>5, <3>6, <3>8, ZenonT(60) DEF Settled, process
    <3>10. SerialInv'
      <4>1. {t} \in SUBSET Task /\ {} \in SUBSET Task
        OBVIOUS
      <4> QED BY <3>5, <3>8, <3>9, <4>1, GoneStep
    <3>11. Stays(p, t)
      BY <3>1 DEF Stays, RestRuns, Running, SerialInv, SerialTyped
    <3> QED BY <3>10, <3>11
  <2> QED BY <2>1, <2>2
<1> QED BY <1>4, <1>5, <1>6

\* A job in a running phase stays in one.
AllRun == \A q \in Proc, u \in Task : job[q][u].phase \in Running => job'[q][u].phase \in Running

\* Every waiter gives its row back to the queue.
LEMMA DrainSerial ==
  ASSUME SerialInv, NEW p \in Proc, NEW m \in {"draining", "stopping"}, EnterDrain(p, m)
  PROVE  SerialInv' /\ AllRun
<1>1. PICK gone \in SUBSET Task : gone = {t \in Task : job[p][t].phase = "waiting"}
  OBVIOUS
<1>2. job' = [job EXCEPT ![p] = [u \in Task |->
                IF u \in gone THEN NoJob
                ELSE IF u \in {} THEN [job[p][u] EXCEPT !.phase = "slot"] ELSE job[p][u]]]
  BY <1>1 DEF EnterDrain
<1>3. PICK V : V = << >>
  OBVIOUS
<1>4. V \in Seq(Task) /\ Settled(p, gone, {}, V, m)
  <2>1. V \in Seq(Task) /\ Len(V) = 0
    BY <1>3
  <2>2. /\ ahead' = Behind(p, gone) /\ waiting' = [waiting EXCEPT ![p] = V]
        /\ mode' = [mode EXCEPT ![p] = m] /\ UNCHANGED drained
    BY <1>1, <1>3 DEF EnterDrain
  <2> QED BY <1>2, <2>1, <2>2 DEF Settled
<1>5. SerialInv'
  <2>1. {} \in SUBSET Task
    OBVIOUS
  <2> QED BY <1>4, <2>1, GoneStep
<1>6. AllRun
  <2>1. \A u \in gone : job[p][u].phase \notin Running
    BY <1>1 DEF Running
  <2> QED BY <1>2, <2>1 DEF AllRun, SerialInv, SerialTyped
<1> QED BY <1>5, <1>6

\* Every job that has not ended is aborted; its phase is what it was.
LEMMA DisposeSerial ==
  ASSUME SerialInv, NEW p \in Proc, dispose(p)
  PROVE  SerialInv' /\ AllRun
<1>1. job' = [job EXCEPT ![p] = [t \in Task |->
                IF job[p][t].phase # "none" /\ job[p][t].rec \notin Terminal
                THEN [job[p][t] EXCEPT !.aborted = TRUE] ELSE job[p][t]]]
  BY DEF dispose
<1>2. UNCHANGED <<ahead, waiting, mode, drained>>
  BY DEF dispose, limiter, process
<1>3. job \in [Proc -> [Task -> Job]]
  BY DEF SerialInv, SerialTyped
<1>4. \A j \in Job : LET k == [j EXCEPT !.aborted = TRUE] IN
        k \in Job /\ k.phase = j.phase /\ k.chain = j.chain /\ k.fin = j.fin
  BY DEF Job
<1>5. /\ job' \in [Proc -> [Task -> Job]]
      /\ \A q \in Proc, t \in Task : /\ job'[q][t].phase = job[q][t].phase
                                     /\ job'[q][t].chain = job[q][t].chain
                                     /\ job'[q][t].fin = job[q][t].fin
  BY <1>1, <1>3, <1>4
<1>6. SerialTyped'
  BY <1>2, <1>5 DEF SerialInv, SerialTyped
<1>7. ASSUME NEW q \in Proc PROVE ProcessOK(q)'
  <2>1. PhaseOf(q)' = PhaseOf(q) /\ Draining(q)' = Draining(q)
    BY <1>2, <1>5 DEF PhaseOf, Draining
  <2> QED BY <1>2, <2>1 DEF SerialInv, ProcessOK
<1>8. \A q \in Proc, t \in Task : JobOK(job'[q][t])
  <2>1. ASSUME NEW q \in Proc, NEW t \in Task PROVE JobOK(job'[q][t])
    <3>1. PICK j, k : j = job[q][t] /\ k = job'[q][t]
      OBVIOUS
    <3>2. k.phase = j.phase /\ k.chain = j.chain /\ k.fin = j.fin /\ JobOK(j)
      BY <1>5, <3>1 DEF SerialInv
    <3>3. JobOK(k)
      BY <3>2 DEF JobOK
    <3> QED BY <3>1, <3>3
  <2> QED BY <2>1
<1>9. AllRun
  BY <1>5 DEF AllRun
<1> QED BY <1>6, <1>7, <1>8, <1>9 DEF SerialInv

\* A process that is gone has no jobs.
LEMMA ExitSerial ==
  ASSUME SerialInv, NEW p \in Proc, exit(p)
  PROVE  SerialInv'
<1>1. /\ mode' = [mode EXCEPT ![p] = "down"] /\ drained' = [drained EXCEPT ![p] = FALSE]
      /\ job' = [job EXCEPT ![p] = [t \in Task |-> NoJob]]
      /\ ahead' = [ahead EXCEPT ![p] = [t \in Task |-> {}]]
      /\ waiting' = [waiting EXCEPT ![p] = << >>]
  BY DEF exit
<1>2. SerialTyped'
  <2>1. << >> \in Seq(Task) /\ NoJob \in Job
    BY NoJobOK
  <2>2. job' \in [Proc -> [Task -> Job]] /\ ahead' \in [Proc -> [Task -> SUBSET Task]]
    BY <1>1, <2>1 DEF SerialInv, SerialTyped
  <2>3. waiting' \in [Proc -> Seq(Task)]
    BY <1>1, <2>1 DEF SerialInv, SerialTyped
  <2> QED BY <1>1, <2>2, <2>3 DEF SerialInv, SerialTyped
<1>3. /\ Others(p) /\ ~drained'[p] /\ waiting'[p] = << >> /\ \A t \in Task : job'[p][t] = NoJob
  BY <1>1 DEF SerialInv, SerialTyped, Others
<1>4. PICK F : F = PhaseOf(p)'
  OBVIOUS
<1>5. \A t \in Task : F[t] = "none"
  BY <1>3, <1>4, NoJobOK DEF PhaseOf
<1>6. Serial(F, ahead'[p], waiting'[p])
  <2>1. "none" \notin Holding \cup {"waiting"}
    BY DEF Holding, Executing
  <2>2. Len(waiting'[p]) = 0
    BY <1>3
  <2> QED BY <1>5, <2>1, <2>2 DEF Serial
<1>7. ProcessOK(p)'
  BY <1>3, <1>4, <1>6 DEF ProcessOK
<1>8. \A t \in Task : JobOK(job'[p][t])
  BY <1>3, NoJobOK
<1> QED BY <1>2, <1>3, <1>7, <1>8, OneProcess

\* The mode of a process changes, or it says that it is drained.
LEMMA ModeSerial ==
  ASSUME SerialInv, NEW p \in Proc,
         \/ getDrainStatus(p) \/ resumeFromDrain(p) \/ serve(p) \/ start(p)
         \/ \E t \in Task : recoverTask(p, t)
  PROVE  SerialInv' /\ AllRun
<1>1. UNCHANGED <<job, ahead, waiting>>
  BY DEF getDrainStatus, resumeFromDrain, serve, start, recoverTask, limiter
<1>2. AllRun
  BY <1>1 DEF AllRun
<1>3. mode \in [Proc -> {"down", "recovering", "broken", "accepting", "draining", "stopping"}]
      /\ drained \in [Proc -> BOOLEAN]
  BY DEF SerialInv, SerialTyped
<1>4. CASE getDrainStatus(p)
  <2>1. PICK m : m = mode[p]
    OBVIOUS
  <2>2. m \in {"draining", "stopping"} /\ mode' = [mode EXCEPT ![p] = m]
        /\ drained' = [drained EXCEPT ![p] = TRUE]
    BY <1>3, <1>4, <2>1 DEF getDrainStatus, Draining
  <2>3. Idle(PhaseOf(p))
    BY <1>4 DEF getDrainStatus, Idle, PhaseOf
  <2> QED BY <1>1, <1>2, <2>2, <2>3, SameSerial
<1>5. CASE resumeFromDrain(p)
  <2>1. mode' = [mode EXCEPT ![p] = "accepting"] /\ drained' = [drained EXCEPT ![p] = FALSE]
    BY <1>5 DEF resumeFromDrain
  <2> QED BY <1>1, <1>2, <2>1, SameSerial
<1>6. CASE serve(p) \/ start(p) \/ \E t \in Task : recoverTask(p, t)
  <2>1. PICK m \in {"recovering", "broken", "accepting"} : mode' = [mode EXCEPT ![p] = m]
    <3>1. CASE serve(p) \/ start(p)
      BY <3>1 DEF serve, start
    <3>2. CASE \E t \in Task : recoverTask(p, t)
      <4>1. mode[p] = "recovering"
        BY <3>2 DEF recoverTask
      <4>2. \/ UNCHANGED mode
            \/ \E ok \in BOOLEAN : mode' = [mode EXCEPT ![p] = IF ok THEN @ ELSE "broken"]
        BY <3>2 DEF recoverTask
      <4> QED BY <1>3, <4>1, <4>2
    <3> QED BY <1>6, <3>1, <3>2
  <2>2. mode[p] \in {"down", "recovering"} /\ drained' = drained
    BY <1>6 DEF serve, start, recoverTask
  <2>3. drained[p] = FALSE
    BY <1>3, <2>2 DEF SerialInv, ProcessOK, Draining
  <2>4. drained' = [drained EXCEPT ![p] = FALSE]
    BY <1>3, <2>2, <2>3
  <2> QED BY <1>1, <1>2, <2>1, <2>4, SameSerial
<1> QED BY <1>4, <1>5, <1>6

-----------------------------------------------------------------------------
(* No running row is left behind.                                          *)

\* Somebody answers for a running row: a job, a process that will list it when it starts,
\* or one whose recovery has listed it.
Kept(t) == \E p \in Proc : \/ job[p][t].phase \in Running \/ mode[p] = "down"
                           \/ <<t, "running">> \in todo[p]

OrphanTyped ==
  /\ faults \in Nat /\ todo \in [Proc -> SUBSET (Task \X Interrupted)]
  /\ \A p \in Proc : todo[p] # {} => mode[p] \in {"recovering", "broken"}

OrphanInv == OrphanTyped /\ (faults = 0 => \A t \in Task : status[t] = "running" => Kept(t))

DispatchInv == RunInv /\ SerialInv /\ OrphanInv

\* A step of a job: whoever it leaves running has a job, or a call was lost.
LEMMA JobOrphan ==
  ASSUME OrphanInv, NEW p \in Proc, NEW t \in Task, Stays(p, t), UNCHANGED <<mode, todo>>,
         faults' = faults \/ faults' = faults + 1,
         \A u \in Task : status'[u] = "running" =>
           status[u] = "running" \/ job'[p][u].phase \in Running \/ faults' # 0
  PROVE  OrphanInv'
<1>1. OrphanTyped' /\ (faults' = 0 => faults = 0)
  BY DEF OrphanInv, OrphanTyped
<1>2. ASSUME NEW u \in Task, faults' = 0, status'[u] = "running" PROVE Kept(u)'
  <2>1. CASE job'[p][u].phase \in Running
    BY <2>1 DEF Kept
  <2>2. CASE status[u] = "running"
    <3>1. PICK q \in Proc : job[q][u].phase \in Running \/ mode[q] = "down" \/ <<u, "running">> \in todo[q]
      BY <1>1, <1>2, <2>2 DEF OrphanInv, Kept
    <3>2. job[q][u].phase \in Running => job'[q][u].phase \in Running
      BY <1>2 DEF Stays, RestRuns
    <3> QED BY <3>1, <3>2 DEF Kept
  <2> QED BY <1>2, <2>1, <2>2
<1> QED BY <1>1, <1>2 DEF OrphanInv

\* A patch that closes or pauses a row makes none running.
LEMMA ClosingPatch ==
  ASSUME StatusTyped, NEW t \in Task, NEW st \in Closing, NEW ok \in BOOLEAN, PatchTask(t, st, ok)
  PROVE  /\ faults' = faults \/ faults' = faults + 1
         /\ \A u \in Task : status'[u] = "running" => status[u] = "running"
BY DEF PatchTask, StatusTyped, Closing, Terminal

\* A step that only touches the rows and the callers.
LEMMA RowOrphan ==
  ASSUME OrphanInv, UNCHANGED <<job, mode, todo>>, faults' = faults \/ faults' = faults + 1,
         \A u \in Task : status'[u] = "running" => status[u] = "running"
  PROVE  OrphanInv'
BY DEF OrphanInv, OrphanTyped, Kept

\* The steps of a job.
LEMMA JobStepDispatch ==
  ASSUME DispatchInv, NEW p \in Proc, NEW t \in Task,
         \/ JobStep(p, t) \/ cancelJob(p, t) \/ timeout(p, t) \/ markTaskAwaitingUserAuthorization(p, t)
  PROVE  SerialInv' /\ OrphanInv'
<1> USE DEF DispatchInv
<1>1. StatusTyped /\ faults \in Nat
  BY SMTT(40) DEF RunInv, OrphanInv, OrphanTyped
<1>2. UNCHANGED <<mode, todo>>
  BY ZenonT(60) DEF JobStep, acquire, dispatch, claimTask, waitForTask, agentEnds, settle, patch, flushPatches,
         reconcile, publishFinish, cancelJob, timeout, markTaskAwaitingUserAuthorization, process
<1>3. ASSUME SerialInv' /\ Stays(p, t), UNCHANGED <<status, faults>>
      PROVE  SerialInv' /\ OrphanInv'
  BY <1>2, <1>3, JobOrphan
<1>4. CASE acquire(p, t)
  BY <1>3, <1>4, AcquireSerial DEF acquire, durable
<1>5. CASE dispatch(p, t) \/ waitForTask(p, t) \/ agentEnds(p, t)
  BY <1>3, <1>5, RunSerial DEF dispatch, waitForTask, agentEnds, durable
<1>6. CASE claimTask(p, t)
  <2>1. SerialInv' /\ Stays(p, t) /\ (runs' = runs \/ job'[p][t].phase = "agent")
    BY <1>6, RunSerial
  <2>2. faults' = faults \/ faults' = faults + 1
    BY <1>6 DEF claimTask
  <2>3. \A u \in Task : status'[u] = "running" =>
          status[u] = "running" \/ job'[p][u].phase \in Running \/ faults' # 0
    <3>1. CASE faults' = faults + 1
      BY <1>1, <3>1
    <3>2. CASE UNCHANGED status
      BY <3>2
    <3>3. CASE runs' = [runs EXCEPT ![t] = @ + 1] /\ status' = [status EXCEPT ![t] = "running"]
      <4>1. runs' # runs
        BY <1>1, <3>3, SMTT(40) DEF StatusTyped
      <4> QED BY <1>1, <2>1, <3>3, <4>1 DEF StatusTyped, Running
    <3> QED BY <1>6, <3>1, <3>2, <3>3 DEF claimTask
  <2> QED BY <1>2, <2>1, <2>2, <2>3, JobOrphan
<1>7. CASE settle(p, t)
  BY <1>1, <1>3, <1>7, SettleSerial DEF settle, durable
<1>8. CASE flushPatches(p, t)
  BY <1>3, <1>8, FlushSerial DEF flushPatches, durable
<1>9. CASE patch(p, t)
  <2>1. /\ SerialInv' /\ Stays(p, t)
        /\ UNCHANGED <<status, faults>> \/ \E st \in Closing, ok \in BOOLEAN : PatchTask(t, st, ok)
    BY <1>1, <1>9, PatchSerial
  <2> QED BY <1>1, <1>2, <1>3, <2>1, ClosingPatch, JobOrphan
<1>10. CASE reconcile(p, t)
  <2>1. SerialInv' /\ Stays(p, t) /\ \E st \in Closing, ok \in BOOLEAN : PatchTask(t, st, ok)
    BY <1>1, <1>10, ReconcileSerial
  <2> QED BY <1>1, <1>2, <2>1, ClosingPatch, JobOrphan
<1>11. CASE publishFinish(p, t)
  <2>1. SerialInv' /\ Stays(p, t)
    BY <1>11, PublishSerial
  <2>2. status' = status /\ (faults' = faults \/ faults' = faults + 1)
    BY <1>11, SMTT(40) DEF publishFinish
  <2> QED BY <1>2, <2>1, <2>2, JobOrphan
<1>12. CASE cancelJob(p, t) \/ timeout(p, t) \/ markTaskAwaitingUserAuthorization(p, t)
  BY <1>3, <1>12, DisturbSerial, ZenonT(60) DEF cancelJob, timeout, markTaskAwaitingUserAuthorization, durable
<1> QED BY <1>4, <1>5, <1>6, <1>7, <1>8, <1>9, <1>10, <1>11, <1>12 DEF JobStep

\* Admission, and cancels of rows without a job.
LEMMA RowStepDispatch ==
  ASSUME DispatchInv, NEW p \in Proc, NEW t \in Task,
         \/ Admits(p, t) \/ adoptQueuedTask(p, t)
         \/ cancelRow(p, t) \/ cancelPatch(p, t) \/ cancelFinish(p, t)
  PROVE  SerialInv' /\ OrphanInv'
<1> USE DEF DispatchInv
<1>1. StatusTyped /\ job \in [Proc -> [Task -> Job]]
  BY DEF RunInv, SerialInv, SerialTyped
<1>2. UNCHANGED <<mode, todo, drained, waiting>>
  BY DEF Admits, startTask, executeTask, executeFixedToolTask, adoptQueuedTask, cancelRow, cancelPatch,
         cancelFinish, process, limiter
<1>3. \/ UNCHANGED <<job, ahead>>
      \/ NewJob(p, t) /\ job[p][t].phase = "none"
  BY DEF Admits, startTask, executeTask, executeFixedToolTask, adoptQueuedTask, cancelRow, cancelPatch,
         cancelFinish
<1>4. SerialInv'
  BY <1>2, <1>3, QuietStep, NewJobSerial
<1>5. /\ faults' = faults \/ faults' = faults + 1
      /\ \A u \in Task : status'[u] = "running" => status[u] = "running"
  <2>1. CASE Admits(p, t)
    BY <1>1, <2>1, AdmitStep DEF Admits, startTask, executeTask, executeFixedToolTask, StatusTyped
  <2>2. CASE adoptQueuedTask(p, t) \/ cancelRow(p, t) \/ cancelFinish(p, t)
    BY <2>2 DEF adoptQueuedTask, cancelRow, cancelFinish, durable
  <2>3. CASE cancelPatch(p, t)
    <3>1. "aborted" \in Closing /\ \E ok \in BOOLEAN : PatchTask(t, "aborted", ok)
      BY <2>3 DEF cancelPatch, Closing, Terminal
    <3> QED BY <1>1, <3>1, ClosingPatch
  <2> QED BY <2>1, <2>2, <2>3
<1>6. Stays(p, t)
  <2>1. CASE UNCHANGED job
    BY <2>1 DEF Stays, RestRuns
  <2>2. CASE NewJob(p, t) /\ job[p][t].phase = "none"
    BY <1>1, <2>2 DEF NewJob, Stays, RestRuns, Running
  <2> QED BY <1>3, <2>1, <2>2
<1> QED BY <1>2, <1>4, <1>5, <1>6, JobOrphan

\* The mode of a process, or what its recovery has still to look at, changes.
LEMMA ModeOrphan ==
  ASSUME OrphanInv, NEW p \in Proc, AllRun, UNCHANGED status, faults' \in Nat, faults' = 0 => faults = 0,
         todo' \in [Proc -> SUBSET (Task \X Interrupted)],
         todo'[p] # {} => mode'[p] \in {"recovering", "broken"},
         \A q \in Proc : q # p => mode'[q] = mode[q] /\ todo'[q] = todo[q],
         \A u \in Task : /\ status[u] = "running" /\ faults' = 0
                         /\ mode[p] = "down" \/ <<u, "running">> \in todo[p]
                         => mode'[p] = "down" \/ <<u, "running">> \in todo'[p]
  PROVE  OrphanInv'
<1>1. OrphanTyped'
  BY DEF OrphanInv, OrphanTyped
<1>2. ASSUME NEW u \in Task, faults' = 0, status'[u] = "running" PROVE Kept(u)'
  <2>1. PICK q \in Proc : job[q][u].phase \in Running \/ mode[q] = "down" \/ <<u, "running">> \in todo[q]
    BY <1>2 DEF OrphanInv, Kept
  <2>2. job[q][u].phase \in Running => job'[q][u].phase \in Running
    BY DEF AllRun
  <2>3. CASE q = p
    BY <1>2, <2>1, <2>2, <2>3 DEF Kept
  <2>4. CASE q # p
    BY <2>1, <2>2, <2>4 DEF Kept
  <2> QED BY <2>3, <2>4
<1> QED BY <1>1, <1>2 DEF OrphanInv

\* The steps of a process.
LEMMA ProcessStepDispatch ==
  ASSUME DispatchInv, NEW p \in Proc,
         \/ drainQueuedTasks(p) \/ serve(p) \/ startDrain(p) \/ startShutdownDrain(p)
         \/ getDrainStatus(p) \/ resumeFromDrain(p) \/ dispose(p) \/ exit(p) \/ start(p)
  PROVE  SerialInv' /\ OrphanInv'
<1> USE DEF DispatchInv
<1>1. /\ todo \in [Proc -> SUBSET (Task \X Interrupted)] /\ faults \in Nat
      /\ \A q \in Proc : todo[q] # {} => mode[q] \in {"recovering", "broken"}
      /\ mode \in [Proc -> {"down", "recovering", "broken", "accepting", "draining", "stopping"}]
  BY DEF OrphanInv, OrphanTyped, SerialInv, SerialTyped
<1>2. CASE drainQueuedTasks(p)
  <2>1. UNCHANGED <<status, faults, job, ahead, waiting, mode, drained, todo>>
    BY <1>2 DEF drainQueuedTasks, durable, process, limiter
  <2> QED BY <2>1, QuietStep, RowOrphan
<1>3. CASE exit(p)
  <2>1. mode' = [mode EXCEPT ![p] = "down"] /\ todo' = [todo EXCEPT ![p] = {}] /\ UNCHANGED faults
    BY <1>3 DEF exit, durable
  <2>2. OrphanTyped' /\ mode'[p] = "down"
    BY <1>1, <2>1 DEF OrphanTyped
  <2>3. \A t \in Task : Kept(t)'
    BY <2>2 DEF Kept
  <2> QED BY <1>3, <2>2, <2>3, ExitSerial DEF OrphanInv
<1>4. CASE start(p)
  <2>1. SerialInv' /\ AllRun
    BY <1>4, ModeSerial
  <2>2. PICK d : d = {<<t, status[t]>> : t \in {u \in Task : status[u] \in Interrupted}}
    OBVIOUS
  <2>3. /\ mode' = [mode EXCEPT ![p] = "recovering"] /\ todo' = [todo EXCEPT ![p] = d]
        /\ UNCHANGED <<status, faults>>
    BY <1>4, <2>2 DEF start, durable
  <2>4. d \in SUBSET (Task \X Interrupted) /\ \A u \in Task : status[u] = "running" => <<u, "running">> \in d
    BY <2>2 DEF Interrupted
  <2>5. /\ todo' \in [Proc -> SUBSET (Task \X Interrupted)] /\ mode'[p] = "recovering" /\ todo'[p] = d
        /\ \A q \in Proc : q # p => mode'[q] = mode[q] /\ todo'[q] = todo[q]
    BY <1>1, <2>3, <2>4
  <2> QED BY <1>1, <2>1, <2>3, <2>4, <2>5, ModeOrphan
<1>5. CASE \/ serve(p) \/ startDrain(p) \/ startShutdownDrain(p)
           \/ getDrainStatus(p) \/ resumeFromDrain(p) \/ dispose(p)
  <2>1. SerialInv' /\ AllRun
    BY <1>5, ModeSerial, DrainSerial, DisposeSerial DEF startDrain, startShutdownDrain
  <2>2. UNCHANGED <<status, faults, todo>>
    BY <1>5 DEF serve, startDrain, startShutdownDrain, EnterDrain, getDrainStatus, resumeFromDrain, dispose,
                durable, process
  <2>3. mode' = mode \/ (mode[p] \in {"accepting", "draining"} /\ \E m : mode' = [mode EXCEPT ![p] = m])
        \/ (todo[p] = {} /\ mode[p] = "recovering" /\ \E m : mode' = [mode EXCEPT ![p] = m])
    BY <1>5 DEF serve, startDrain, startShutdownDrain, EnterDrain, getDrainStatus, resumeFromDrain, dispose,
                process
  <2>4. mode' = mode \/ (todo[p] = {} /\ mode[p] # "down" /\ \E m : mode' = [mode EXCEPT ![p] = m])
    BY <1>1, <2>3
  <2>5. \A q \in Proc : q # p => mode'[q] = mode[q] /\ todo'[q] = todo[q]
    BY <1>1, <2>2, <2>4
  <2> QED BY <1>1, <2>1, <2>2, <2>4, <2>5, ModeOrphan
<1> QED BY <1>2, <1>3, <1>4, <1>5

\* Recovery looks at one row: a running one is closed, or it was not running any more, or
\* the call was lost.
LEMMA RecoverDispatch ==
  ASSUME DispatchInv, NEW p \in Proc, NEW t \in Task, recoverTask(p, t)
  PROVE  SerialInv' /\ OrphanInv'
<1> USE DEF DispatchInv
<1>1. SerialInv' /\ AllRun
  BY ModeSerial
<1>2. /\ todo \in [Proc -> SUBSET (Task \X Interrupted)] /\ faults \in Nat /\ StatusTyped
      /\ mode \in [Proc -> {"down", "recovering", "broken", "accepting", "draining", "stopping"}]
      /\ \A q \in Proc : todo[q] # {} => mode[q] \in {"recovering", "broken"}
  BY DEF OrphanInv, OrphanTyped, RunInv, SerialInv, SerialTyped
<1>3. PICK st \in Interrupted :
        /\ todo' = [todo EXCEPT ![p] = @ \ {<<t, st>>}]
        /\ \/ st = "awaiting" /\ UNCHANGED <<status, faults, mode>>
           \/ /\ st = "running"
              /\ \E ok \in BOOLEAN : /\ PatchTask(t, "failed", ok)
                                     /\ mode' = [mode EXCEPT ![p] = IF ok THEN @ ELSE "broken"]
  BY DEF recoverTask
<1>4. mode[p] = "recovering"
  BY DEF recoverTask
<1>5. /\ todo' \in [Proc -> SUBSET (Task \X Interrupted)] /\ todo'[p] = todo[p] \ {<<t, st>>}
      /\ \A q \in Proc : q # p => todo'[q] = todo[q]
  BY <1>2, <1>3
<1>6. /\ mode'[p] \in {"recovering", "broken"}
      /\ \A q \in Proc : q # p => mode'[q] = mode[q]
  BY <1>2, <1>3, <1>4
<1>7. /\ faults' = faults \/ faults' = faults + 1
      /\ \A u \in Task : status'[u] = "running" => status[u] = "running"
  <2>1. "failed" \in Closing
    BY DEF Closing, Terminal
  <2> QED BY <1>2, <1>3, <2>1, ClosingPatch
<1>8. OrphanTyped' /\ (faults' = 0 => faults = 0)
  BY <1>2, <1>5, <1>6, <1>7 DEF OrphanTyped
<1>9. ASSUME st = "running", faults' = 0 PROVE status'[t] # "running"
  <2>1. PICK ok \in BOOLEAN : PatchTask(t, "failed", ok)
    BY <1>3, <1>9
  <2>2. CASE ok = TRUE
    BY <1>2, <2>1, <2>2, PatchSets DEF StatusTyped
  <2>3. CASE ok = FALSE
    <3>1. ~MayMove(status[t], "failed") /\ status' = status
      BY <1>2, <1>9, <2>1, <2>3 DEF PatchTask
    <3> QED BY <3>1 DEF MayMove, Terminal
  <2> QED BY <2>2, <2>3
<1>10. ASSUME NEW u \in Task, faults' = 0, status'[u] = "running" PROVE Kept(u)'
  <2>1. PICK q \in Proc : job[q][u].phase \in Running \/ mode[q] = "down" \/ <<u, "running">> \in todo[q]
    BY <1>7, <1>8, <1>10 DEF OrphanInv, Kept
  <2>2. CASE job[q][u].phase \in Running
    BY <1>1, <2>2 DEF AllRun, Kept
  <2>3. CASE mode[q] = "down"
    BY <1>4, <1>6, <2>3 DEF Kept
  <2>4. CASE <<u, "running">> \in todo[q]
    <3>1. <<u, "running">> # <<t, st>>
      BY <1>9, <1>10
    <3>2. <<u, "running">> \in todo'[q]
      BY <1>5, <2>4, <3>1
    <3> QED BY <3>2 DEF Kept
  <2> QED BY <2>1, <2>2, <2>3, <2>4
<1> QED BY <1>1, <1>8, <1>10 DEF OrphanInv

\* Every step keeps jobs in order and running rows answered for.
LEMMA NextDispatch == DispatchInv /\ [Next]_vars => DispatchInv'
<1> SUFFICES ASSUME DispatchInv, [Next]_vars PROVE DispatchInv'
  OBVIOUS
<1>1. RunInv'
  BY NextRun DEF DispatchInv
<1>2. CASE UNCHANGED vars
  <2>1. UNCHANGED <<status, faults, job, ahead, waiting, mode, drained, todo>>
    BY <1>2 DEF vars, durable, process, limiter
  <2> QED BY <1>1, <2>1, QuietStep, RowOrphan DEF DispatchInv
<1>3. CASE \E p \in Proc : \/ drainQueuedTasks(p) \/ serve(p) \/ startDrain(p) \/ startShutdownDrain(p)
             \/ getDrainStatus(p) \/ resumeFromDrain(p) \/ dispose(p) \/ exit(p) \/ start(p)
  BY <1>1, <1>3, ProcessStepDispatch DEF DispatchInv
<1>4. CASE \E p \in Proc, t \in Task : recoverTask(p, t)
  BY <1>1, <1>4, RecoverDispatch DEF DispatchInv
<1>5. CASE \E p \in Proc, t \in Task :
             \/ Admits(p, t) \/ adoptQueuedTask(p, t)
             \/ cancelRow(p, t) \/ cancelPatch(p, t) \/ cancelFinish(p, t)
  BY <1>1, <1>5, RowStepDispatch DEF DispatchInv
<1>6. CASE \E p \in Proc, t \in Task :
             \/ JobStep(p, t) \/ cancelJob(p, t) \/ timeout(p, t) \/ markTaskAwaitingUserAuthorization(p, t)
  BY <1>1, <1>6, JobStepDispatch DEF DispatchInv
<1> QED BY <1>2, <1>3, <1>4, <1>5, <1>6 DEF Next, Recovery, Admits

\* It holds at the start.
LEMMA InitDispatch == Init => DispatchInv
<1> SUFFICES ASSUME Init PROVE DispatchInv
  OBVIOUS
<1>1. RunInv
  BY DEF Init, RunInv, StatusTyped, RunOnce, Status
<1>2. SerialTyped
  <2>1. << >> \in Seq(Task) /\ NoJob \in Job
    BY NoJobOK
  <2>2. job \in [Proc -> [Task -> Job]] /\ waiting \in [Proc -> Seq(Task)]
    BY <2>1 DEF Init
  <2> QED BY <2>2 DEF Init, SerialTyped
<1>3. ASSUME NEW p \in Proc PROVE ProcessOK(p)
  <2>1. PICK F : F = PhaseOf(p)
    OBVIOUS
  <2>2. \A t \in Task : F[t] = "none"
    BY <2>1, NoJobOK DEF PhaseOf, Init
  <2>3. "none" \notin Holding \cup {"waiting"} /\ Len(waiting[p]) = 0 /\ ~drained[p]
    BY DEF Holding, Executing, Init
  <2>4. Serial(F, ahead[p], waiting[p])
    BY <2>2, <2>3 DEF Serial
  <2> QED BY <2>1, <2>3, <2>4 DEF ProcessOK
<1>4. \A p \in Proc, t \in Task : JobOK(job[p][t])
  BY NoJobOK DEF Init
<1>5. OrphanInv
  BY DEF Init, OrphanInv, OrphanTyped
<1> QED BY <1>1, <1>2, <1>3, <1>4, <1>5 DEF DispatchInv, SerialInv

\* The strengthened invariant of dispatch, for any number of processes, tasks and sessions.
THEOREM DispatchInvariant == Spec => []DispatchInv
<1> QED BY InitDispatch, NextDispatch, PTL DEF Spec

\* In one process two tasks of a session are never both past the limiter, whatever is
\* cancelled, times out, waits for a slot or is handed back by a drain (runSerialized,
\* TaskConcurrencyLimiter).
THEOREM ExecutorSessionSerial == Spec => []SessionSerial
<1>1. DispatchInv => SessionSerial
  <2> SUFFICES ASSUME DispatchInv, NEW p \in Proc, NEW t \in Task, NEW u \in Task, t # u,
                      SessionOf[t] = SessionOf[u], job[p][t].phase \in Holding,
                      job[p][u].phase \in Holding
               PROVE  FALSE
    BY DEF SessionSerial
  <2>1. PICK F : F = PhaseOf(p)
    OBVIOUS
  <2>2. F[t] \in Holding /\ F[u] \in Holding
    BY <2>1 DEF PhaseOf
  <2>3. F[t] # "none" /\ F[u] # "none"
    BY <2>2 DEF Holding, Executing
  <2>4. Serial(F, ahead[p], waiting[p])
    BY <2>1 DEF DispatchInv, SerialInv, ProcessOK
  <2>5. ahead[p][t] = {} /\ ahead[p][u] = {}
    BY <2>2, <2>4 DEF Serial
  <2>6. u \in ahead[p][t] \/ t \in ahead[p][u]
    BY <2>3, <2>4 DEF Serial
  <2> QED BY <2>5, <2>6
<1> QED BY <1>1, DispatchInvariant, PTL

\* Once a process in drain said activeWorkDrained it runs nothing until it is resumed, though
\* jobs may still be made (getDrainStatus, executeFixedToolTask, assertDispatchAllowed).
THEOREM ExecutorDrainedIsIdle == Spec => []DrainedIsIdle
<1>1. DispatchInv => DrainedIsIdle
  <2> SUFFICES ASSUME DispatchInv, NEW p \in Proc, drained[p], NEW t \in Task
               PROVE  job[p][t].phase \notin Executing
    BY DEF DrainedIsIdle
  <2>1. Idle(PhaseOf(p))
    BY DEF DispatchInv, SerialInv, ProcessOK
  <2>2. job[p][t].phase \in {"none", "tail"}
    BY <2>1 DEF Idle, PhaseOf
  <2> QED BY <2>2 DEF Executing
<1> QED BY <1>1, DispatchInvariant, PTL

\* Unless a call was lost, a running row of a system whose processes all serve is some
\* process's running job: neither a crash nor recovery leaves one behind (claimTask,
\* runTaskWithSlot, recoverInterruptedTasks).
THEOREM ExecutorNoOrphan == Spec => []NoOrphan
<1>1. DispatchInv => NoOrphan
  <2> SUFFICES ASSUME DispatchInv, faults = 0, \A p \in Proc : Up(p), NEW t \in Task, status[t] = "running"
               PROVE  \E p \in Proc : job[p][t].phase \in {"agent", "ended", "final", "catch"}
    BY DEF NoOrphan
  <2>1. PICK p \in Proc : job[p][t].phase \in Running \/ mode[p] = "down" \/ <<t, "running">> \in todo[p]
    BY DEF DispatchInv, OrphanInv, Kept
  <2>2. mode[p] # "down" /\ todo[p] = {}
    BY DEF Up, DispatchInv, OrphanInv, OrphanTyped
  <2> QED BY <2>1, <2>2 DEF Running
<1> QED BY <1>1, DispatchInvariant, PTL
=============================================================================
