----------------------------- MODULE MCWorkRecords -----------------------------
(* One instance of the receipts the Work store keeps beside its tasks, for    *)
(* TLC. The components share no state, so the variable desk picks the one     *)
(* that moves: the installation of one owner, dispatched operations, a skill  *)
(* action, the observations of two workflows, the digests of one, the calls   *)
(* of a plugin, or the inventories of a source.                               *)
EXTENDS PrivateInstallations, WorkOperations, WorkflowReceipts, ArtifactCalls, SourceInventories

VARIABLE desk

CONSTANTS k1, k2, k3, k4, t1, t2, l1, l2,                        \* operations
          f1, f2, p1, tg, a1, o1, o2, e1, e2, e3, e4, r1,        \* workflows
          q1, q2, c1, c2, y1, y2,                                \* requests, calls, writes
          m1, m2                                                 \* facts of a source

-----------------------------------------------------------------------------
(* Operations: k1 and k2 have a Task, k3 locks two targets; k4 locks nothing  *)
(* and is only a web.open receipt, never a dispatched one.                    *)
Keys == [k \in OpKey |->
  CASE k = k1 -> [task |-> t1, locks |-> {l1}, effect |-> "write"]
    [] k = k2 -> [task |-> t2, locks |-> {l1}, effect |-> "read"]
    [] k = k3 -> [task |-> NoOpTask, locks |-> {l1, l2}, effect |-> "write"]
    [] OTHER -> [task |-> NoOpTask, locks |-> {}, effect |-> "read"]]
Skills == [a \in Action |-> [task |-> t1, readback |-> t2]]
WebPages == [t \in OpTask |-> IF t = t1 THEN {k3} ELSE {k4}]

-----------------------------------------------------------------------------
(* Workflows: private and shared definitions of two workflows that poll tg.   *)
OwnerDefinition(f, auth, digest) ==
  [flow |-> f, version |-> 3, enabled |-> TRUE, targets |-> {tg}, polls |-> [p \in {p1} |-> {tg}],
   digest |-> digest, kind |-> "owner_private", destination |-> "owner_private",
   owner |-> a1, auth |-> auth, immediate |-> {"blocker"}, onFailure |-> TRUE, onRecovery |-> digest]
ThreadDefinition(f) ==
  [flow |-> f, version |-> 2, enabled |-> TRUE, targets |-> {tg}, polls |-> [p \in {p1} |-> {tg}],
   digest |-> TRUE, kind |-> "teams_thread", destination |-> "responsibility_thread",
   owner |-> a1, auth |-> o1, immediate |-> {}, onFailure |-> TRUE, onRecovery |-> TRUE]
Documents == {OwnerDefinition(f1, o1, TRUE), OwnerDefinition(f1, o2, TRUE),
              OwnerDefinition(f2, o1, FALSE), ThreadDefinition(f1), ThreadDefinition(f2)}

OccAt(f, p, s) == [flow |-> f, trigger |-> p, slot |-> s]
PollOccs == {OccAt(f1, p1, 1), OccAt(f2, p1, 1)}
DigestOccs == {OccAt(f1, p1, 1), OccAt(f1, p1, 2), OccAt(f1, p1, 3), OccAt(f1, Digest, 2),
               OccAt(f1, Digest, 4)}
Occurrences == PollOccs \cup DigestOccs

\* Two failures, their recovery, then another blocker, in this order at the source.
Fact(type, class, print, rank) ==
  [resource |-> r1, target |-> tg, type |-> type, class |-> class, print |-> print, rank |-> rank]
Facts == [e \in Seen |-> CASE e = e1 -> Fact("failure", "incident", 1, 1)
                           [] e = e2 -> Fact("failure", "incident", 1, 2)
                           [] e = e3 -> Fact("recovery", "healthy", 2, 3)
                           [] OTHER  -> Fact("blocker", "incident", 3, 4)]

Receipt(o, status, baseline, changed, cover) ==
  [occ |-> o, status |-> status, baseline |-> baseline, changed |-> changed, attention |-> "none",
   checkpoint |-> IF cover = {} THEN "none" ELSE "source_poll", cover |-> cover, left |-> {},
   complete |-> cover # {}, pages |-> 1]

\* A shared poll that has pages left and asks its owner something.
Partial(o) == [Receipt(o, "succeeded", FALSE, TRUE, {}) EXCEPT
                 !.attention = "user_decision", !.checkpoint = "issues", !.left = {tg}]

\* Observations of two workflows that poll one resource.
PollNext ==
  \/ \E d \in {x \in Definition : x.version = 3 /\ x.auth = o1} : ~Stored(d.flow) /\ PutWorkflow(d)
  \/ \E o \in PollOccs : StartOccurrence(o)
  \/ \E o \in PollOccs : observed = Seen /\ EndOccurrence(o, "failed")
  \/ \E o \in PollOccs, baseline \in BOOLEAN :
        AppendScheduleEvent(Receipt(o, "running", baseline, FALSE, {}))
  \/ ObservationNext

\* Changes, digests, and a definition that moves to another owner task.
DigestNext ==
  \/ \E d \in Definition : d.flow = f1 /\ PutWorkflow(d)
  \/ RouteChanges(a1) /\ digests = {}
  \/ ThreadChanges(o1) /\ digests = {} /\ notices = {}
  \/ \E o \in DigestOccs : StartOccurrence(o)
  \/ \E o \in DigestOccs : EndOccurrence(o, "completed")
  \/ \E o \in DigestOccs : AppendScheduleEvent(Receipt(o, "succeeded", FALSE, TRUE,
                              IF o.trigger = Digest THEN {} ELSE {tg}))
  \/ AppendScheduleEvent(Partial(OccAt(f1, p1, 1)))
  \/ Cardinality(notices) < 2 /\ NoticeNext

-----------------------------------------------------------------------------
\* Sources: a page lists nothing, one value of m1, both facts, or contradicts itself.
Contents == {{}, {<<m1, 0>>}, {<<m1, 1>>}, {<<m1, 0>>, <<m2, 0>>}, {<<m1, 0>>, <<m1, 1>>}}

-----------------------------------------------------------------------------
\* Requests, calls and writes are interchangeable: the second one never comes first.
InOrder ==
  /\ (\E d \in dispatches' \ dispatches : d.request = q2) => \E d \in dispatches : d.request = q1
  /\ host'[c2].at # "new" => host[c1].at # "new"
  /\ writing'[y2].at # "idle" => writing[y1].at # "idle"

MCInit ==
  /\ desk \in {"installation", "dispatch", "skill", "poll", "digest", "plugin", "source"}
  /\ Init /\ OperationInit /\ FlowInit /\ ArtifactInit /\ InventoryInit
  /\ desk # "installation" => row = Absent

OperationDesk == (desk = "dispatch" /\ DispatchNext) \/ (desk = "skill" /\ SkillNext)
WorkflowDesk == (desk = "poll" /\ PollNext) \/ (desk = "digest" /\ DigestNext)

MCNext ==
  /\ UNCHANGED desk
  /\ \/ desk = "installation" /\ Next /\ UNCHANGED <<opVars, flowVars, artifactVars, inventoryVars>>
     \/ OperationDesk /\ UNCHANGED <<vars, flowVars, artifactVars, inventoryVars>>
     \/ WorkflowDesk /\ UNCHANGED <<vars, opVars, artifactVars, inventoryVars>>
     \/ desk = "plugin" /\ ArtifactNext /\ UNCHANGED <<vars, opVars, flowVars, inventoryVars>>
     \/ desk = "source" /\ InventoryNext /\ UNCHANGED <<vars, opVars, flowVars, artifactVars>>
  /\ InOrder

MCSpec == MCInit /\ [][MCNext]_<<desk, vars, opVars, flowVars, artifactVars, inventoryVars>>
=============================================================================
