------------------------------ MODULE Executor ------------------------------
(***************************************************************************)
(* Task dispatch of harness/src/executor.ts: admission, the poll of queued  *)
(* rows, one chain of tasks per session, the two-lane concurrency limiter,  *)
(* the claim, the model run, its terminal patch and finish event, cancel,   *)
(* timeout, authorization pause, drain, shutdown and restart recovery.      *)
(*                                                                         *)
(* The durable row of a task is reduced to its status, moved by the claim   *)
(* and patch routes of the Work store.  What a run produces is left out:    *)
(* an agent ends when it likes, well or badly.  Approvals and questions are *)
(* the subject of WorkTasks.  A call of the store can be lost, before or    *)
(* after it took effect.  A process holds one job per task.                 *)
(***************************************************************************)
EXTENDS Naturals, Sequences, FiniteSets, SequencesExt

CONSTANTS
  Proc,        \* executor processes
  Task,
  Session,
  SessionOf,   \* the session of each task
  ClassOf,     \* "foreground" or "background"
  Fixed,       \* fixed-tool tasks: dispatched by their schedule, never by the poll
  Disturbed,   \* bound: the tasks that are cancelled, time out or pause
  Drainable,   \* bound: the processes that are drained or stopped in order
  Maximum,     \* maxConcurrentTasks
  MaxStarts,   \* bound on process starts
  MaxFaults    \* bound on lost calls

Class == {"foreground", "background"}
Terminal == {"completed", "failed", "aborted"}
Status == {"absent", "queued", "running", "awaiting"} \cup Terminal

ASSUME ExecutorAssumption ==
  /\ SessionOf \in [Task -> Session] /\ ClassOf \in [Task -> Class]
  /\ Fixed \subseteq Task /\ Disturbed \subseteq Task /\ Drainable \subseteq Proc
  /\ Maximum \in Nat /\ Maximum >= 2      \* TaskConcurrencyLimiter.constructor
  /\ MaxStarts \in Nat /\ MaxFaults \in Nat

VARIABLES
  status,     \* work_tasks.status
  finishes,   \* statuses of the finish events of each task
  runs,       \* how often each task was run
  mode,       \* down, recovering, broken, accepting, draining or stopping
  todo,       \* rows startup recovery has listed and not looked at yet
  listed,     \* tasks read as queued that this process is about to adopt
  drained,    \* activeWorkDrained was reported since the drain began
  job,        \* InternalTaskState of each task
  ahead,      \* jobs of its session whose promises each job is behind (sessionTails)
  waiting,    \* TaskConcurrencyLimiter.waiting
  busy,       \* activeForeground, activeBackground
  cancel,     \* cancelTask calls of tasks without a job
  starts, faults

durable == <<status, finishes, runs, faults>>
process == <<mode, todo, drained, starts>>
limiter == <<waiting, busy>>
vars == <<durable, process, listed, job, ahead, limiter, cancel>>

Up(p) == mode[p] \in {"accepting", "draining", "stopping"}     \* await this.ready
Draining(p) == mode[p] \in {"draining", "stopping"}            \* drainToken # undefined

\* A job holds a slot from the limiter until its promise settles.
Executing == {"claim", "agent", "ended", "final", "flush", "catch", "finish"}
Holding == Executing \cup {"slot", "joined"}
Phase == Holding \cup {"none", "tail", "waiting"}

NoJob == [phase |-> "none", rec |-> "queued", aborted |-> FALSE, error |-> FALSE,
          pause |-> FALSE, patchFailure |-> FALSE, chain |-> << >>, fin |-> "queued"]

Init ==
  /\ status = [t \in Task |-> "absent"]
  /\ finishes = [t \in Task |-> {}]
  /\ runs = [t \in Task |-> 0]
  /\ mode = [p \in Proc |-> "down"]
  /\ todo = [p \in Proc |-> {}]
  /\ listed = [p \in Proc |-> {}]
  /\ drained = [p \in Proc |-> FALSE]
  /\ job = [p \in Proc |-> [t \in Task |-> NoJob]]
  /\ ahead = [p \in Proc |-> [t \in Task |-> {}]]
  /\ waiting = [p \in Proc |-> << >>]
  /\ busy = [p \in Proc |-> [c \in Class |-> 0]]
  /\ cancel = [p \in Proc |-> [t \in Task |-> "none"]]
  /\ starts = 0 /\ faults = 0

-----------------------------------------------------------------------------
(* The Work store, as the executor calls it.                               *)

\* patch_task: the same status is no transition and is accepted.
MayMove(old, st) ==
  \/ old = st
  \/ old = "queued"   /\ st \in {"failed", "aborted"}
  \/ old = "running"  /\ st \in Terminal \cup {"awaiting"}
  \/ old = "awaiting" /\ st = "aborted"

\* One patchTask call; ok is what the caller learns.
PatchTask(t, st, ok) ==
  \/ /\ ok /\ MayMove(status[t], st)
     /\ status' = [status EXCEPT ![t] = st]
     /\ UNCHANGED faults
  \/ /\ ~ok /\ ~MayMove(status[t], st)
     /\ UNCHANGED <<status, faults>>
  \/ /\ ~ok /\ faults < MaxFaults
     /\ faults' = faults + 1
     /\ \/ UNCHANGED status
        \/ MayMove(status[t], st) /\ status' = [status EXCEPT ![t] = st]

-----------------------------------------------------------------------------
(* TaskConcurrencyLimiter.                                                 *)

Cap(c) == IF c = "background" THEN 1 ELSE Maximum - 1

CanRun(b, c) == b["foreground"] + b["background"] < Maximum /\ b[c] < Cap(c)

\* acquire: foreground waiters go before the first background one.
Enqueued(w, t) ==
  LET background == {i \in DOMAIN w : ClassOf[w[i]] = "background"} IN
  IF ClassOf[t] = "background" \/ background = {} THEN Append(w, t)
  ELSE InsertAt(w, CHOOSE i \in background : \A k \in background : i <= k, t)

\* indexOf and splice: no task waits twice.
Without(s, t) ==
  IF \E i \in DOMAIN s : s[i] = t THEN RemoveAt(s, CHOOSE i \in DOMAIN s : s[i] = t) ELSE s

\* The promises of the tasks gone have settled; what was behind them is so no more.
Behind(p, gone) ==
  [ahead EXCEPT ![p] = [u \in Task |-> IF u \in gone THEN {} ELSE ahead[p][u] \ gone]]

\* Mutant: release does not look for a waiter.
WokenNobody(p, b) == {}

\* drain: the first waiter the freed slot is good for, if any.  The loop of the code ends there,
\* because a slot of one class admits no waiter of the other.
Woken(p, b) ==
  LET ready == {i \in DOMAIN waiting[p] : CanRun(b, ClassOf[waiting[p][i]])} IN
  IF Draining(p) THEN {} ELSE {waiting[p][i] : i \in {i \in ready : \A k \in ready : i <= k}}

\* The promise of t's job settles: runSerialized's finally and the limiter's release.  A
\* cancel whose patch is still in the job's chain goes on by itself.
Leave(p, t) ==
  LET j == job[p][t]
      held == j.phase \in Holding
      freed == IF held THEN [busy[p] EXCEPT ![ClassOf[t]] = IF @ > 0 THEN @ - 1 ELSE 0] ELSE busy[p]
      woken == IF held THEN Woken(p, freed) ELSE {}
  IN
  /\ job' = [job EXCEPT ![p] = [u \in Task |->
               IF u = t THEN NoJob
               ELSE IF u \in woken THEN [job[p][u] EXCEPT !.phase = "slot"] ELSE job[p][u]]]
  /\ ahead' = Behind(p, {t})
  /\ waiting' = IF woken = {} THEN waiting
                ELSE [waiting EXCEPT ![p] = Without(@, CHOOSE u \in woken : TRUE)]
  /\ busy' = [busy EXCEPT ![p] = [c \in Class |->
                freed[c] + Cardinality({u \in woken : ClassOf[u] = c})]]
  /\ cancel' = IF j.chain # << >> /\ ~j.patchFailure /\ cancel[p][t] = "none"
               THEN [cancel EXCEPT ![p][t] = "local"] ELSE cancel

\* The job goes on; nobody else is affected.
Set(p, t, j) == job' = [job EXCEPT ![p][t] = j] /\ UNCHANGED <<ahead, limiter, cancel>>
Goto(p, t, phase) == Set(p, t, [job[p][t] EXCEPT !.phase = phase])

-----------------------------------------------------------------------------
(* Admission and dispatch.                                                 *)

\* startTask: the row is queued and left to the poll.
startTask(p, t) ==
  /\ Up(p) /\ t \notin Fixed /\ status[t] = "absent"
  /\ status' = [status EXCEPT ![t] = "queued"]
  /\ UNCHANGED <<finishes, runs, faults, process, listed, job, ahead, limiter, cancel>>

\* executeTask, prepareTask: create the row or read it as queued; it is adopted after.
executeTask(p, t) ==
  /\ Up(p) /\ t \notin Fixed /\ status[t] \in {"absent", "queued"}
  /\ status' = [status EXCEPT ![t] = "queued"]
  /\ listed' = [listed EXCEPT ![p] = @ \cup {t}]
  /\ UNCHANGED <<finishes, runs, faults, process, job, ahead, limiter, cancel>>

\* drainQueuedTasks: list the queued rows that have no job here.
drainQueuedTasks(p) ==
  /\ mode[p] = "accepting"
  /\ LET rows == {t \in Task \ Fixed : status[t] = "queued" /\ job[p][t].phase = "none"} IN
     /\ ~(rows \subseteq listed[p])
     /\ listed' = [listed EXCEPT ![p] = @ \cup rows]
  /\ UNCHANGED <<durable, process, job, ahead, limiter, cancel>>

NewJob(p, t) ==
  /\ job' = [job EXCEPT ![p][t] = [NoJob EXCEPT !.phase = "tail"]]
  /\ ahead' = [ahead EXCEPT ![p][t] =
                {u \in Task : SessionOf[u] = SessionOf[t] /\ job[p][u].phase # "none"}]

\* adoptQueuedTask, foreground rows first; a drain or an existing job stops it.
adoptQueuedTask(p, t) ==
  /\ Up(p) /\ t \in listed[p]
  /\ ClassOf[t] = "foreground" \/ \A u \in listed[p] : ClassOf[u] = "background"
  /\ listed' = [listed EXCEPT ![p] = @ \ {t}]
  /\ IF Draining(p) \/ job[p][t].phase # "none" THEN UNCHANGED <<job, ahead>> ELSE NewJob(p, t)
  /\ UNCHANGED <<durable, process, limiter, cancel>>

\* executeFixedToolTask: no job is made of a row that is running or has ended.
executeFixedToolTask(p, t) ==
  /\ Up(p) /\ t \in Fixed /\ job[p][t].phase = "none" /\ status[t] \in {"absent", "queued"}
  /\ status' = [status EXCEPT ![t] = "queued"]
  /\ NewJob(p, t)
  /\ UNCHANGED <<finishes, runs, faults, process, listed, limiter, cancel>>

\* Mutant: tasks of one session do not wait for each other.
PredecessorsIgnored(p, t) == TRUE

\* The promise of the task before it in its session has settled.
Predecessors(p, t) == ahead[p][t] = {}

\* Mutant: the limiter does not refuse a task during a drain.
acquireDraining(p, t) ==
  /\ job[p][t].phase = "tail" /\ Predecessors(p, t) /\ CanRun(busy[p], ClassOf[t])
  /\ job' = [job EXCEPT ![p][t].phase = "claim"]
  /\ busy' = [busy EXCEPT ![p][ClassOf[t]] = @ + 1]
  /\ UNCHANGED <<ahead, waiting, cancel, durable, process, listed>>

\* runTask: acquire a slot, wait for one, or give the row back to the queue.
acquire(p, t) ==
  /\ job[p][t].phase = "tail" /\ Predecessors(p, t)
  /\ IF job[p][t].aborted \/ Draining(p) THEN Leave(p, t)
     ELSE IF CanRun(busy[p], ClassOf[t])
     THEN /\ job' = [job EXCEPT ![p][t].phase = "slot"]
          /\ busy' = [busy EXCEPT ![p][ClassOf[t]] = @ + 1]
          /\ UNCHANGED <<ahead, waiting, cancel>>
     ELSE /\ job' = [job EXCEPT ![p][t].phase = "waiting"]
          /\ waiting' = [waiting EXCEPT ![p] = Enqueued(@, t)]
          /\ UNCHANGED <<ahead, busy, cancel>>
  /\ UNCHANGED <<durable, process, listed>>

\* A claim that failed: join a running row, return any other.
Unclaimed(p, t) ==
  IF status'[t] = "running" /\ t \notin Fixed THEN Goto(p, t, "joined") ELSE Leave(p, t)

\* runTaskWithSlot: assertDispatchAllowed immediately before the claim is sent.
dispatch(p, t) ==
  /\ job[p][t].phase = "slot"
  /\ UNCHANGED durable
  /\ IF (job[p][t].aborted /\ t \notin Fixed) \/ Draining(p)
     THEN Unclaimed(p, t) ELSE Goto(p, t, "claim")
  /\ UNCHANGED <<process, listed>>

\* Mutant: a row that is already running is claimed again.
ClaimableRunning(st) == st \in {"queued", "running"}

\* claim_task has a single winner.
Claimable(st) == st = "queued"

\* claimTask: won, too late, or lost on the way.
claimTask(p, t) ==
  /\ job[p][t].phase = "claim"
  /\ \/ /\ Claimable(status[t])
        /\ status' = [status EXCEPT ![t] = "running"] /\ runs' = [runs EXCEPT ![t] = @ + 1]
        /\ UNCHANGED faults
        /\ Set(p, t, [job[p][t] EXCEPT !.phase = "agent", !.rec = "running"])
     \/ /\ ~Claimable(status[t])
        /\ UNCHANGED <<status, runs, faults>>
        /\ Unclaimed(p, t)
     \/ /\ faults < MaxFaults /\ faults' = faults + 1 /\ UNCHANGED runs
        /\ \/ UNCHANGED status
           \/ Claimable(status[t]) /\ status' = [status EXCEPT ![t] = "running"]
        /\ Unclaimed(p, t)
  /\ UNCHANGED <<finishes, process, listed>>

\* waitForTask: the row ended or paused, or the deadline passed.
waitForTask(p, t) ==
  /\ job[p][t].phase = "joined" /\ Leave(p, t)
  /\ UNCHANGED <<durable, process, listed>>

-----------------------------------------------------------------------------
(* The run and how it ends.                                                *)

\* The status a failed run ends with, decided before the chain of patches has settled.
CatchStatus(t, j) ==
  IF t \notin Fixed /\ j.rec = "awaiting" /\ j.pause /\ ~j.error THEN "awaiting"
  ELSE IF j.aborted THEN "aborted" ELSE "failed"

Caught(t, j) == [j EXCEPT !.phase = "catch", !.fin = CatchStatus(t, j)]

\* agent.whenIdle, or the fixed tool call, returns or throws.
agentEnds(p, t) ==
  /\ job[p][t].phase = "agent"
  /\ Goto(p, t, "ended") \/ Set(p, t, Caught(t, job[p][t]))
  /\ UNCHANGED <<durable, process, listed>>

\* runTaskWithSlot after the run: flushPatches, throwIfAborted, read the row; a paused or
\* ended row is left as it is, a running one gets its terminal patch.  A fixed tool does
\* not flush before its patch and ends well or throws.
settle(p, t) ==
  LET j == job[p][t] IN
  /\ j.phase = "ended" /\ (j.chain = << >> \/ t \in Fixed)
  /\ \/ Set(p, t, Caught(t, j))               \* aborted, a failed patch, or any exception
     \/ /\ ~j.aborted /\ ~j.patchFailure
        /\ \/ /\ t \notin Fixed /\ status[t] = "awaiting"
              /\ Set(p, t, [j EXCEPT !.phase = "finish", !.rec = status[t], !.fin = status[t]])
           \/ /\ t \notin Fixed /\ status[t] \in Terminal
              /\ Leave(p, t)
           \/ /\ t \in Fixed \/ status[t] = "running"
              /\ \E st \in {"completed"} \cup (IF t \in Fixed THEN {} ELSE {"failed"}) :
                   Set(p, t, [j EXCEPT !.phase = "final",
                                       !.chain = Append(@, [st |-> st, by |-> "run"])])
  /\ UNCHANGED <<durable, process, listed>>

\* patch: the head of patchChain is sent; after one failure every later one is rejected.
patch(p, t) ==
  LET j == job[p][t]
      c == Head(j.chain)
      rest == [j EXCEPT !.chain = Tail(@)]
      sent == [rest EXCEPT !.rec = c.st]
      failed == [rest EXCEPT !.patchFailure = TRUE]
  IN
  /\ j.chain # << >>
  /\ \E ok \in BOOLEAN :
       /\ IF j.patchFailure THEN ~ok /\ UNCHANGED <<status, faults>> ELSE PatchTask(t, c.st, ok)
       /\ Set(p, t,
            CASE c.by = "run"    -> IF ok THEN [sent EXCEPT !.fin = c.st,
                                                 !.phase = IF t \in Fixed THEN "flush" ELSE "finish"]
                                          ELSE Caught(t, failed)
              [] c.by = "pause"  -> IF ok THEN sent
                                          ELSE [failed EXCEPT !.pause = FALSE, !.error = TRUE,
                                                              !.aborted = TRUE]
              [] c.by = "cancel" -> IF ok THEN sent ELSE failed)
  /\ UNCHANGED <<finishes, runs, process, listed>>

\* flushPatches of a fixed tool: a cancel behind its patch has failed or nothing has.
flushPatches(p, t) ==
  LET j == job[p][t] IN
  /\ j.phase = "flush" /\ j.chain = << >>
  /\ Set(p, t, IF j.patchFailure THEN Caught(t, j) ELSE [j EXCEPT !.phase = "finish"])
  /\ UNCHANGED <<durable, process, listed>>

\* Mutant: the finish event is written though the status was not.
reconcileAnyway(p, t) ==
  LET j == job[p][t] IN
  /\ j.phase = "catch" /\ j.chain = << >>
  /\ \E ok \in BOOLEAN : PatchTask(t, j.fin, ok)
  /\ Goto(p, t, "finish")
  /\ UNCHANGED <<finishes, runs, process, listed>>

\* The catch block: an independent terminal patch once the chain is empty.
reconcile(p, t) ==
  LET j == job[p][t] IN
  /\ j.phase = "catch" /\ (j.chain = << >> \/ t \in Fixed)
  /\ \E ok \in BOOLEAN :
       /\ PatchTask(t, j.fin, ok)
       /\ IF ok THEN Set(p, t, [j EXCEPT !.phase = "finish", !.rec = j.fin]) ELSE Leave(p, t)
  /\ UNCHANGED <<finishes, runs, process, listed>>

\* publish the finish event; a failed append is swallowed.
publishFinish(p, t) ==
  /\ job[p][t].phase = "finish"
  /\ \/ finishes' = [finishes EXCEPT ![t] = @ \cup {job[p][t].fin}] /\ UNCHANGED faults
     \/ faults < MaxFaults /\ faults' = faults + 1 /\ UNCHANGED finishes
  /\ Leave(p, t)
  /\ UNCHANGED <<status, runs, process, listed>>

-----------------------------------------------------------------------------
(* Cancel, timeout, authorization pause.                                   *)

\* cancelTask of a live job: abort it and send the status through its chain; a waiter
\* leaves the limiter at once.
cancelJob(p, t) ==
  LET j == job[p][t]
      k == [j EXCEPT !.error = TRUE, !.aborted = TRUE,
                     !.chain = Append(@, [st |-> "aborted", by |-> "cancel"])]
  IN
  /\ t \in Disturbed /\ j.phase # "none" /\ j.rec \notin Terminal /\ ~j.error
  /\ IF j.phase = "waiting"
     THEN /\ job' = [job EXCEPT ![p][t] = NoJob]
          /\ ahead' = Behind(p, {t})
          /\ waiting' = [waiting EXCEPT ![p] = Without(@, t)]
          /\ cancel' = [cancel EXCEPT ![p][t] = "local"]
          /\ UNCHANGED busy
     ELSE Set(p, t, k)
  /\ UNCHANGED <<durable, process, listed>>

\* cancelTask without a job: the row was read and is not terminal.
cancelRow(p, t) ==
  /\ Up(p) /\ t \in Disturbed /\ job[p][t].phase = "none" /\ cancel[p][t] = "none"
  /\ status[t] \notin Terminal \cup {"absent"}
  /\ cancel' = [cancel EXCEPT ![p][t] = "row"]
  /\ UNCHANGED <<durable, process, listed, job, ahead, limiter>>

\* Its patch; only a cancel without a job writes the finish event itself.
cancelPatch(p, t) ==
  /\ cancel[p][t] \in {"row", "local"}
  /\ \E ok \in BOOLEAN :
       /\ PatchTask(t, "aborted", ok)
       /\ cancel' = [cancel EXCEPT ![p][t] = IF ok /\ @ = "row" THEN "finish" ELSE "none"]
  /\ UNCHANGED <<finishes, runs, process, listed, job, ahead, limiter>>

cancelFinish(p, t) ==
  /\ cancel[p][t] = "finish"
  /\ finishes' = [finishes EXCEPT ![t] = @ \cup {"aborted"}]
  /\ cancel' = [cancel EXCEPT ![p][t] = "none"]
  /\ UNCHANGED <<status, runs, faults, process, listed, job, ahead, limiter>>

\* setTimeout of runTaskWithSlot; it makes no difference to a job that only has to say how
\* it ended.
timeout(p, t) ==
  /\ t \in Disturbed \ Fixed /\ ~job[p][t].aborted
  /\ job[p][t].phase \in {"slot", "claim", "agent", "ended", "final"}
  /\ Set(p, t, [job[p][t] EXCEPT !.aborted = TRUE])
  /\ UNCHANGED <<durable, process, listed>>

\* markTaskAwaitingUserAuthorization, from a tool of the running agent.
markTaskAwaitingUserAuthorization(p, t) ==
  LET j == job[p][t] IN
  /\ t \in Disturbed /\ j.phase = "agent" /\ j.rec = "running" /\ j.chain = << >> /\ ~j.pause
  /\ Set(p, t, IF j.patchFailure THEN [j EXCEPT !.error = TRUE, !.aborted = TRUE]
               ELSE [j EXCEPT !.pause = TRUE, !.chain = <<[st |-> "awaiting", by |-> "pause"]>>])
  /\ UNCHANGED <<durable, process, listed>>

-----------------------------------------------------------------------------
(* Drain, shutdown, failure and recovery of a process.                     *)

\* enterDrain, beginDrain: every waiter gives its row back to the queue.
EnterDrain(p, m) ==
  /\ mode' = [mode EXCEPT ![p] = m]
  /\ job' = [job EXCEPT ![p] = [t \in Task |-> IF job[p][t].phase = "waiting" THEN NoJob ELSE job[p][t]]]
  /\ ahead' = Behind(p, {t \in Task : job[p][t].phase = "waiting"})
  /\ waiting' = [waiting EXCEPT ![p] = << >>]
  /\ UNCHANGED <<durable, todo, drained, starts, listed, busy, cancel>>

startDrain(p) == p \in Drainable /\ mode[p] = "accepting" /\ EnterDrain(p, "draining")

startShutdownDrain(p) ==
  p \in Drainable /\ mode[p] \in {"accepting", "draining"} /\ EnterDrain(p, "stopping")

\* getDrainStatus says activeWorkDrained from what this process holds.  The code also
\* wants no active durable task and no pending notification, both read before; without
\* these two conjuncts the model says drained at least as often as the code.
getDrainStatus(p) ==
  /\ Draining(p) /\ ~drained[p]
  /\ (\A t \in Task : job[p][t].phase = "none") /\ waiting[p] = << >> /\ \A c \in Class : busy[p][c] = 0
  /\ drained' = [drained EXCEPT ![p] = TRUE]
  /\ UNCHANGED <<durable, mode, todo, starts, listed, job, ahead, limiter, cancel>>

\* resumeFromDrain: a shutdown cannot be resumed.
resumeFromDrain(p) ==
  /\ mode[p] = "draining"
  /\ mode' = [mode EXCEPT ![p] = "accepting"]
  /\ drained' = [drained EXCEPT ![p] = FALSE]
  /\ UNCHANGED <<durable, todo, starts, listed, job, ahead, limiter, cancel>>

\* dispose: every job that has not ended is aborted.
dispose(p) ==
  /\ mode[p] = "stopping" /\ \E t \in Task : job[p][t].phase # "none" /\ ~job[p][t].aborted
  /\ job' = [job EXCEPT ![p] = [t \in Task |->
               IF job[p][t].phase # "none" /\ job[p][t].rec \notin Terminal
               THEN [job[p][t] EXCEPT !.aborted = TRUE] ELSE job[p][t]]]
  /\ UNCHANGED <<durable, process, listed, ahead, limiter, cancel>>

\* The process ends, orderly or not, and everything in its memory with it.
exit(p) ==
  /\ mode[p] # "down"
  /\ mode' = [mode EXCEPT ![p] = "down"]
  /\ todo' = [todo EXCEPT ![p] = {}]
  /\ drained' = [drained EXCEPT ![p] = FALSE]
  /\ listed' = [listed EXCEPT ![p] = {}]
  /\ job' = [job EXCEPT ![p] = [t \in Task |-> NoJob]]
  /\ ahead' = [ahead EXCEPT ![p] = [t \in Task |-> {}]]
  /\ waiting' = [waiting EXCEPT ![p] = << >>]
  /\ busy' = [busy EXCEPT ![p] = [c \in Class |-> 0]]
  /\ cancel' = [cancel EXCEPT ![p] = [t \in Task |-> "none"]]
  /\ UNCHANGED <<durable, starts>>

\* Mutant: recovery looks at paused rows only.
InterruptedAwaiting == {"awaiting"}

\* The rows recovery looks at.
Interrupted == {"running", "awaiting"}

\* The constructor: recovery lists the rows before anything is served.
start(p) ==
  /\ mode[p] = "down" /\ starts < MaxStarts
  /\ starts' = starts + 1
  /\ mode' = [mode EXCEPT ![p] = "recovering"]
  /\ todo' = [todo EXCEPT ![p] = {<<t, status[t]>> : t \in {u \in Task : status[u] \in Interrupted}}]
  /\ UNCHANGED <<durable, drained, listed, job, ahead, limiter, cancel>>

\* recoverInterruptedTasks, one row: a paused one gets the finish event it may lack, a running
\* one is closed; a patch that fails leaves ready rejected for good.
recoverTask(p, t) ==
  /\ mode[p] = "recovering"
  /\ \E st \in Interrupted :
       /\ <<t, st>> \in todo[p]
       /\ todo' = [todo EXCEPT ![p] = @ \ {<<t, st>>}]
       /\ \/ /\ st = "awaiting"
             /\ finishes' = [finishes EXCEPT ![t] = @ \cup {st}]
             /\ UNCHANGED <<status, faults, mode>>
          \/ /\ st = "running"
             /\ \E ok \in BOOLEAN :
                  /\ PatchTask(t, "failed", ok)
                  /\ mode' = [mode EXCEPT ![p] = IF ok THEN @ ELSE "broken"]
                  /\ finishes' = [finishes EXCEPT ![t] = IF ok THEN @ \cup {"failed"} ELSE @]
  /\ UNCHANGED <<runs, drained, starts, listed, job, ahead, limiter, cancel>>

\* ready resolves.
serve(p) ==
  /\ mode[p] = "recovering" /\ todo[p] = {}
  /\ mode' = [mode EXCEPT ![p] = "accepting"]
  /\ UNCHANGED <<durable, todo, drained, starts, listed, job, ahead, limiter, cancel>>

-----------------------------------------------------------------------------
\* What a job does by itself.
JobStep(p, t) ==
  \/ acquire(p, t) \/ dispatch(p, t) \/ claimTask(p, t) \/ waitForTask(p, t)
  \/ agentEnds(p, t) \/ settle(p, t) \/ patch(p, t) \/ flushPatches(p, t) \/ reconcile(p, t) \/ publishFinish(p, t)

Recovery(p) == serve(p) \/ \E t \in Task : recoverTask(p, t)

Next ==
  \E p \in Proc :
    \/ \E t \in Task :
         \/ startTask(p, t) \/ executeTask(p, t) \/ executeFixedToolTask(p, t)
         \/ adoptQueuedTask(p, t) \/ JobStep(p, t)
         \/ cancelJob(p, t) \/ cancelRow(p, t) \/ cancelPatch(p, t) \/ cancelFinish(p, t)
         \/ timeout(p, t) \/ markTaskAwaitingUserAuthorization(p, t)
    \/ drainQueuedTasks(p) \/ Recovery(p)
    \/ startDrain(p) \/ startShutdownDrain(p) \/ getDrainStatus(p) \/ resumeFromDrain(p)
    \/ dispose(p) \/ exit(p) \/ start(p)

Spec == Init /\ [][Next]_vars

\* Every step of a job, of the poll, of recovery and of a cancel is taken in the end: calls
\* return or time out, and the agent, which is not in this repository, ends its run (a
\* deadline aborts it only when timeoutMs or defaultTimeoutMs is set, executor.ts:1709).
\* Nothing makes a caller call, a drain end, or a process fail or start.
FairSpec ==
  /\ Spec
  /\ \A p \in Proc : WF_vars(drainQueuedTasks(p)) /\ WF_vars(Recovery(p))
  /\ \A p \in Proc, t \in Task : /\ WF_vars(JobStep(p, t)) /\ WF_vars(adoptQueuedTask(p, t))
                               /\ WF_vars(cancelPatch(p, t)) /\ WF_vars(cancelFinish(p, t))

-----------------------------------------------------------------------------
Patch == [st : Status, by : {"run", "pause", "cancel"}]
Job == [phase : Phase, rec : Status, aborted : BOOLEAN, error : BOOLEAN, pause : BOOLEAN,
        patchFailure : BOOLEAN, chain : Seq(Patch), fin : Status]

\* Types, and the counters of the limiter and the list of jobs say what the jobs say.
ExecutorTypeOK ==
  /\ status \in [Task -> Status] /\ finishes \in [Task -> SUBSET Status]
  /\ runs \in [Task -> Nat] /\ starts \in 0 .. MaxStarts /\ faults \in 0 .. MaxFaults
  /\ mode \in [Proc -> {"down", "recovering", "broken", "accepting", "draining", "stopping"}]
  /\ todo \in [Proc -> SUBSET (Task \X Interrupted)] /\ listed \in [Proc -> SUBSET Task]
  /\ drained \in [Proc -> BOOLEAN] /\ job \in [Proc -> [Task -> Job]]
  /\ ahead \in [Proc -> [Task -> SUBSET Task]] /\ waiting \in [Proc -> Seq(Task)]
  /\ busy \in [Proc -> [Class -> Nat]]
  /\ cancel \in [Proc -> [Task -> {"none", "row", "local", "finish"}]]

Members(s) == {s[i] : i \in DOMAIN s}
Holders(p, c) == {t \in Task : ClassOf[t] = c /\ job[p][t].phase \in Holding}

\* The limiter counts exactly the jobs that hold a slot, within the bounds of both lanes,
\* and while dispatch is on nobody waits whom it could let in (release, drain).
SlotsAccounted ==
  \A p \in Proc :
    /\ \A c \in Class : busy[p][c] = Cardinality(Holders(p, c)) /\ busy[p][c] <= Cap(c)
    /\ Members(waiting[p]) = {t \in Task : job[p][t].phase = "waiting"}
    /\ mode[p] = "accepting" => \A t \in Members(waiting[p]) : ~CanRun(busy[p], ClassOf[t])

\* "A Session owns one task at a time so its output and tool events cannot mix"
\* (executor.ts:1675): in one process, never two tasks of a session past the limiter.
SessionSerial ==
  \A p \in Proc, t, u \in Task :
    /\ t # u /\ SessionOf[t] = SessionOf[u]
    /\ job[p][t].phase \in Holding
    => job[p][u].phase \notin Holding

\* Once a process in drain said activeWorkDrained, it runs nothing until it is resumed
\* (getDrainStatus; docs/cloud-executor.md:194).
DrainedIsIdle ==
  \A p \in Proc : drained[p] => \A t \in Task : job[p][t].phase \notin Executing

\* No task is run twice: not by two processes that read it queued, not after a restart,
\* not after a lost claim (claimTask, recoverInterruptedTasks).
NoReplay == \A t \in Task : runs[t] <= 1

\* A terminal finish event tells the status of the row, whoever wrote it: the run, a cancel
\* without a job, or recovery (runTaskWithSlot, cancelTask, recoverInterruptedTasks).
FinishAgrees == \A t \in Task : finishes[t] \cap Terminal \subseteq {status[t]}

\* Unless a call was lost, a running row is some process's running job, or a process is down
\* or still recovering: recovery leaves no row behind that it was meant to close.
NoOrphan ==
  faults = 0 /\ (\A p \in Proc : Up(p))
  => \A t \in Task : status[t] = "running" =>
       \E p \in Proc : job[p][t].phase \in {"agent", "ended", "final", "catch"}

\* A task left in the queue does not stay there while a process accepts work: it is claimed
\* or ended, or dispatch stops (drainQueuedTasks, TaskConcurrencyLimiter, sessionTails).
QueuedStarts ==
  \A t \in Task \ Fixed :
    status[t] = "queued" ~> (status[t] # "queued" \/ \A p \in Proc : mode[p] # "accepting")
=============================================================================
