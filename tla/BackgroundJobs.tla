--------------------------- MODULE BackgroundJobs ---------------------------
(***************************************************************************)
(* Maintenance jobs and watches: rows of the domain store                   *)
(* (work/conversation_memory/domains.py) whose work is done by a task of    *)
(* the Work store.  The two are separate databases.  A route of             *)
(* domain_api.py or work/api.py reads one, then the other, and writes at    *)
(* the end, so a call in flight carries what it has read: the row of the    *)
(* job, then the status of its task.                                        *)
(*                                                                         *)
(* Abstractions: one actor with every required role; a job has one possible *)
(* task, whose id is derived from the job (maintenance_task_id); a watch    *)
(* has one task for each of its versions (conversation_watch_task_id); a    *)
(* checkpoint is its state and its count; tasks always have an output.      *)
(***************************************************************************)
EXTENDS Naturals, FiniteSets

CONSTANTS
  Job,            \* maintenance jobs
  DailyReview,    \* the ones of kind daily_review
  Watch,          \* watches
  MaxJobVersion, MaxProcessed, MaxJobCalls, MaxWatchVersion

VARIABLES
  jobs,           \* maintenance_jobs rows
  jobTasks,       \* the status of the Work task of each job
  jobCalls,       \* route calls that have read the job row
  reviews,        \* jobs with a daily_review event in the ledger
  watches,        \* watches rows
  watchTasks,     \* the status of the Work task of each watch version
  receipts        \* operations the research runtime finalized for watch tasks

jobVars   == <<jobs, jobTasks, jobCalls, reviews>>
watchVars == <<watches, watchTasks, receipts>>
backVars  == <<jobs, jobTasks, jobCalls, reviews, watches, watchTasks, receipts>>

JobState    == {"none", "queued", "running", "completed", "failed", "cancelled"}
TaskStatus  == {"none", "queued", "running", "completed", "failed", "aborted"}
EndedTask   == {"completed", "failed", "aborted"}
NoCheckpoint == [state |-> "none", processed |-> 0]
JobOp       == {"task", "running", "completed", "failed", "cancelled", "cancel", "review"}
JobVersion  == 0 .. MaxJobVersion
WatchSlot   == Watch \X (1 .. MaxWatchVersion)

ASSUME JobAssumption ==
  /\ DailyReview \subseteq Job
  /\ {MaxJobVersion, MaxProcessed, MaxJobCalls, MaxWatchVersion} \subseteq Nat

BackgroundInit ==
  /\ jobs = [j \in Job |-> [state |-> "none", version |-> 0, processed |-> 0,
                            checkpoint |-> NoCheckpoint]]
  /\ jobTasks = [j \in Job |-> "none"]
  /\ jobCalls = {} /\ reviews = {}
  /\ watches = [w \in Watch |-> [state |-> "none", version |-> 0, observed |-> 0]]
  /\ watchTasks = [s \in WatchSlot |-> "none"]
  /\ receipts = {}

BackgroundTypeOK ==
  /\ jobs \in [Job -> [state : JobState, version : JobVersion, processed : 0 .. MaxProcessed,
                       checkpoint : [state : JobState, processed : 0 .. MaxProcessed]]]
  /\ jobTasks \in [Job -> TaskStatus]
  /\ jobCalls \subseteq [op : JobOp, job : Job, seen : JobState, expected : JobVersion,
                         processed : 0 .. MaxProcessed, task : TaskStatus \cup {"unread"}]
  /\ reviews \subseteq DailyReview
  /\ watches \in [Watch -> [state : {"none", "active", "cancelled"},
                            version : 0 .. MaxWatchVersion, observed : 0 .. MaxWatchVersion]]
  /\ watchTasks \in [WatchSlot -> TaskStatus]

(***************************************************************************)
(* Jobs.  A client sends the version that it has read; the route reads the  *)
(* row again, later its task, and then the store decides in one             *)
(* transaction.                                                             *)
(***************************************************************************)
CreateMaintenanceJob(j) ==
  /\ jobs[j].state = "none"
  /\ jobs' = [jobs EXCEPT ![j].state = "queued", ![j].version = 1]
  /\ UNCHANGED <<jobTasks, jobCalls, reviews, watchVars>>

\* verify_daily_review_report: the kind and the state of the task's job.
ReviewableJob(j) == j \in DailyReview /\ jobs[j].state = "running"

\* The route reads the row.  A checkpoint of a cancelled job is refused here.
ReadJob(j, op, expected, processed) ==
  /\ jobs[j].state # "none"
  /\ Cardinality(jobCalls) < MaxJobCalls
  /\ op \notin {"task", "cancel"} => jobs[j].state # "cancelled"
  /\ op = "task" => expected = 1      \* metadata.jobVersion is the queued version
  /\ op = "review" => ReviewableJob(j)
  /\ jobCalls' = jobCalls \cup {[op |-> op, job |-> j, seen |-> jobs[j].state,
                                 expected |-> expected, processed |-> processed,
                                 task |-> "unread"]}
  /\ UNCHANGED <<jobs, jobTasks, reviews, watchVars>>

\* verify_maintenance_task: the status the Work task must have for a checkpoint.
ExpectedStatus(op) == IF op = "cancelled" THEN "aborted" ELSE op

\* create_task: a new task needs the queued job; an existing one is returned.
TaskAdmitted(c, status) ==
  c.op = "task" /\ (status = "none" => c.seen = "queued")

\* A mutant of CheckpointAgrees: any task of the job is enough.
CheckpointOfAnyTask(c, status) ==
  c.op \in {"running", "completed", "failed", "cancelled"} /\ status # "none"

\* verify_maintenance_task.
CheckpointAgrees(c, status) ==
  c.op \in {"running", "completed", "failed", "cancelled"} /\ status = ExpectedStatus(c.op)

\* cancel_maintenance_job: a task that exists must have been aborted; a
\* running job must have one.  A cancelled job goes on to the store's replay.
CancelAdmitted(c, status) ==
  /\ c.op = "cancel"
  /\ c.seen = "running" => status # "none"
  /\ c.seen \in {"queued", "running"} => status \in {"none", "aborted"}

\* verify_daily_review_report: written by its own running task, with a report
\* attachment that reads back.
ReportAgrees(c, status) == c.op = "review" /\ status = "running"

TaskVerified(c, status) ==
  \/ TaskAdmitted(c, status)
  \/ CheckpointAgrees(c, status)
  \/ CancelAdmitted(c, status)
  \/ ReportAgrees(c, status)

\* The route reads the task and goes on.
ReadTask(c) ==
  /\ c.task = "unread"
  /\ TaskVerified(c, jobTasks[c.job])
  /\ jobCalls' = (jobCalls \ {c}) \cup {[c EXCEPT !.task = jobTasks[c.job]]}
  /\ UNCHANGED <<jobs, jobTasks, reviews, watchVars>>

\* create_task: an existing task is a duplicate.
CreateJobTask(c) ==
  /\ c.op = "task" /\ c.task = "none" /\ jobTasks[c.job] = "none"
  /\ jobTasks' = [jobTasks EXCEPT ![c.job] = "queued"]
  /\ jobCalls' = jobCalls \ {c}
  /\ UNCHANGED <<jobs, reviews, watchVars>>

\* checkpoint_maintenance_job: an identical checkpoint at this or the next
\* version is a replay; otherwise the version, the state and the count decide.
CheckpointMaintenanceJob(c) ==
  LET row == jobs[c.job]
      checkpoint == [state |-> c.op, processed |-> c.processed] IN
  /\ c.op \in {"running", "completed", "failed", "cancelled"} /\ c.task # "unread"
  /\ ~(row.checkpoint = checkpoint /\ row.version \in {c.expected, c.expected + 1})
  /\ row.version = c.expected /\ row.version < MaxJobVersion
  /\ row.state \in {"queued", "running"}
  /\ c.processed >= row.processed
  /\ jobs' = [jobs EXCEPT ![c.job] = [state |-> c.op, version |-> row.version + 1,
                                      processed |-> c.processed, checkpoint |-> checkpoint]]
  /\ jobCalls' = jobCalls \ {c}
  /\ UNCHANGED <<jobTasks, reviews, watchVars>>

\* cancel_maintenance_job: a running row needs a verified aborted task.
CancelMaintenanceJob(c) ==
  LET row == jobs[c.job] IN
  /\ c.op = "cancel" /\ c.task # "unread"
  /\ row.state \in {"queued", "running"} /\ row.version = c.expected
  /\ row.version < MaxJobVersion
  /\ row.state = "running" => c.task # "none"
  /\ jobs' = [jobs EXCEPT ![c.job].state = "cancelled", ![c.job].version = row.version + 1]
  /\ jobCalls' = jobCalls \ {c}
  /\ UNCHANGED <<jobTasks, reviews, watchVars>>

AppendDailyReview(c) ==
  /\ c.op = "review" /\ c.task # "unread"
  /\ reviews' = reviews \cup {c.job}
  /\ jobCalls' = jobCalls \ {c}
  /\ UNCHANGED <<jobs, jobTasks, watchVars>>

\* A refusal, a replay, or the loss of the process.
EndCall(c) ==
  /\ jobCalls' = jobCalls \ {c}
  /\ UNCHANGED <<jobs, jobTasks, reviews, watchVars>>

\* The executor runs the task, or ends it; ended tasks stay as they are.
JobTaskStep(j, status) ==
  /\ \/ jobTasks[j] = "queued" /\ status \in {"running", "failed", "aborted"}
     \/ jobTasks[j] = "running" /\ status \in EndedTask
  /\ jobTasks' = [jobTasks EXCEPT ![j] = status]
  /\ UNCHANGED <<jobs, jobCalls, reviews, watchVars>>

JobNext ==
  \/ \E j \in Job : CreateMaintenanceJob(j)
  \/ \E j \in Job, op \in JobOp, processed \in 0 .. MaxProcessed, back \in {0, 1} :
        /\ jobs[j].version > back
        /\ op \notin {"running", "completed", "failed", "cancelled"} => processed = 0
        /\ ReadJob(j, op, jobs[j].version - back, processed)
  \/ \E c \in jobCalls : ReadTask(c)
  \/ \E c \in jobCalls : CreateJobTask(c)
  \/ \E c \in jobCalls : CheckpointMaintenanceJob(c)
  \/ \E c \in jobCalls : CancelMaintenanceJob(c)
  \/ \E c \in jobCalls : AppendDailyReview(c)
  \/ \E c \in jobCalls : EndCall(c)
  \/ \E j \in Job, status \in TaskStatus : JobTaskStep(j, status)

(***************************************************************************)
(* Watches.  One transaction each, after the sources of the row were        *)
(* authorized (ConversationDomains models that part).                       *)
(***************************************************************************)
CreateWatch(w) ==
  /\ watches[w].state = "none"
  /\ watches' = [watches EXCEPT ![w].state = "active", ![w].version = 1]
  /\ UNCHANGED <<jobVars, watchTasks, receipts>>

ScheduleWatch(w, expected) ==
  /\ watches[w].state = "active" /\ watches[w].version = expected
  /\ expected < MaxWatchVersion
  /\ watches' = [watches EXCEPT ![w].version = expected + 1]
  /\ UNCHANGED <<jobVars, watchTasks, receipts>>

CancelWatch(w, expected) ==
  /\ watches[w].state = "active" /\ watches[w].version = expected
  /\ expected < MaxWatchVersion
  /\ watches' = [watches EXCEPT ![w].state = "cancelled", ![w].version = expected + 1]
  /\ UNCHANGED <<jobVars, watchTasks, receipts>>

\* A worker creates and runs the task of one version of an active watch.
WatchTaskStep(w, v, status) ==
  /\ \/ /\ watchTasks[<<w, v>>] = "none" /\ status = "running"
        /\ watches[w].state = "active" /\ watches[w].version = v
     \/ watchTasks[<<w, v>>] = "running" /\ status \in EndedTask
  /\ watchTasks' = [watchTasks EXCEPT ![<<w, v>>] = status]
  /\ UNCHANGED <<jobVars, watches, receipts>>

\* create_completed_operation for conversation.research.read.v1: the only
\* request it stores is the one of the research runtime.
FinalizeRead(w, v) ==
  /\ watchTasks[<<w, v>>] = "completed"
  /\ receipts' = receipts \cup {[watch |-> w, version |-> v,
                                 source |-> "conversation-research-runtime"]}
  /\ UNCHANGED <<jobVars, watches, watchTasks>>

\* verify_watch_observation: the completed read of exactly this watch version.
VerifyWatchObservation(w, r, expected) ==
  /\ watches[w].state = "active" /\ watches[w].version = expected
  /\ r.watch = w /\ r.version = expected
  /\ r.source = "conversation-watch"
  /\ watchTasks[<<w, expected>>] = "completed"

RecordWatchObservation(w, r, expected) ==
  /\ VerifyWatchObservation(w, r, expected)
  /\ expected < MaxWatchVersion
  /\ watches' = [watches EXCEPT ![w].version = expected + 1, ![w].observed = expected]
  /\ UNCHANGED <<jobVars, watchTasks, receipts>>

WatchNext ==
  \/ \E w \in Watch : CreateWatch(w)
  \/ \E w \in Watch : ScheduleWatch(w, watches[w].version)
  \/ \E w \in Watch : CancelWatch(w, watches[w].version)
  \/ \E s \in WatchSlot, status \in TaskStatus : WatchTaskStep(s[1], s[2], status)
  \/ \E s \in WatchSlot : FinalizeRead(s[1], s[2])

\* The observation route, which no receipt passes.
ObserveNext == \E w \in Watch, r \in receipts : RecordWatchObservation(w, r, watches[w].version)

BackgroundSpec == BackgroundInit /\ [][JobNext \/ WatchNext \/ ObserveNext]_backVars

(***************************************************************************)
(* Properties                                                               *)
(***************************************************************************)
\* The outcome of a job is the outcome of its task, and a job that ran has a
\* task that left the queue, however checkpoints, cancels, retries and the
\* end of the task interleave between the two databases.
JobOutcomeAgrees ==
  \A j \in Job :
    /\ jobs[j].state = "completed" => jobTasks[j] = "completed"
    /\ jobs[j].state = "failed" => jobTasks[j] = "failed"
    /\ jobs[j].state = "running" => jobTasks[j] \notin {"none", "queued"}
    /\ jobs[j].state = "cancelled" /\ jobs[j].checkpoint.state = "running"
          => jobTasks[j] = "aborted"

\* A daily review is only in the ledger for a job whose task started it: the
\* report was written by the running task of a running job.
ReviewedJobRan ==
  \A j \in reviews :
    jobTasks[j] \notin {"none", "queued"} /\ jobs[j].state \notin {"none", "queued"}

\* What cancel_maintenance_job's docstring promises: a cancelled job has no
\* task, or an aborted one.
CancelledJobIsIdle ==
  \A j \in Job : jobs[j].state = "cancelled" => jobTasks[j] \in {"none", "aborted"}

\* What test_conversation_memory_domain_api asserts: the completed read of an
\* active watch's current version is accepted as its observation.
FinalizedReadIsUsable ==
  \A r \in receipts :
    watches[r.watch].state = "active" /\ watches[r.watch].version = r.version
      => VerifyWatchObservation(r.watch, r, r.version)
=============================================================================
