------------------------ MODULE ConversationMigration ------------------------
(***************************************************************************)
(* Offline import and rollback of one actor's conversation archive         *)
(* (work/conversation_migration).  The rows of an artifact are written one *)
(* by one through the canonical stores.  For every row a Work Operation    *)
(* records the intent, the entity is written and read back, the operation  *)
(* is completed with the evidence, and a checkpoint of the Work Task moves *)
(* the cursor.  A call may die between any two of these writes; the next   *)
(* apply or rollback finds only what was stored.  A batch is one approved  *)
(* plan: the plan's digest covers the host's authorization epoch, so a     *)
(* change of authorization starts another batch, and the old one can only  *)
(* be rolled back.  Calls of one host are taken one at a time.             *)
(***************************************************************************)
EXTENDS Naturals, FiniteSets, FiniteSetsExt

CONSTANTS
    Backup,         \* the archives tried: each a sequence of record kinds
    RowSources,     \* RowSources[i]: ordinals of the rows row i is derived from
    RowCount,       \* rows of every archive
    MaxPlan,        \* bound: authorization changes, and so plans
    Compensable     \* the kinds the host's capability preflight accepts; the
                    \* repository's own host accepts messages and memories only

RowKinds == {"message", "memory", "profile", "graph"}
Row == 1 .. RowCount
ImportBatch == 0 .. MaxPlan

ASSUME MigrationAssumption ==
    /\ RowCount \in Nat \ {0} /\ MaxPlan \in Nat /\ Compensable \subseteq RowKinds
    /\ Backup \subseteq [Row -> RowKinds \union {"bad"}]
    /\ RowSources \in [Row -> SUBSET Row]
    /\ \A i \in Row : \A j \in RowSources[i] : j < i

VARIABLES
    archive,        \* the kind of every row; "bad" does not normalize
    allowed,        \* rows the host's current authorization admits
    plan,           \* the authorization epoch: names the current plan
    intent,         \* [batch][row]: the projection operation and its evidence
    entity,         \* [batch][row]: the canonical entity
    provider,       \* [batch][row]: what the graph provider holds
    checkpoint,     \* [batch][row]: the record checkpoint of the Work Task
    undoing,        \* [batch][row]: the rollback operation
    undone,         \* [batch]: rows with a rollback checkpoint
    rolledBack,     \* batches with a batch_rollback checkpoint
    call            \* the running call and its local state

migVars == <<archive, allowed, plan, intent, entity, provider, checkpoint, undoing,
             undone, rolledBack, call>>
stored == <<intent, entity, provider, checkpoint, undoing, undone, rolledBack>>

Idle == [pc |-> "idle"]
At(pc, b, i, job) == [pc |-> pc, batch |-> b, row |-> i, job |-> job]

\* Rows whose checkpoint carries a projection: known_records of the progress.
Known(b) == {i \in Row : checkpoint[b][i] \in {"projected", "candidate"}}

\* The first row without a record checkpoint: ordinal and cursor of the progress.
NextRow(b) == 1 + Cardinality({i \in Row : checkpoint[b][i] # "none"})

\* normalize_record: a well-formed row whose sources were all imported before it.
Normalizes(b, i) ==
    /\ archive[i] # "bad"
    /\ RowSources[i] \subseteq Known(b)
    /\ archive[i] = "message" \/ RowSources[i] # {}

\* Sources resolve to imported messages and memories only, and the host finds
\* every one of them still current.
LineageCurrent(b, i) ==
    \A j \in RowSources[i] : archive[j] \in {"message", "memory"} /\ entity[b][j] = "live"

\* The checks before the intent; a graph also needs the approval the caller brings.
Admitted(b, i, approved) ==
    /\ i \in allowed
    /\ LineageCurrent(b, i)
    /\ archive[i] = "graph" => approved

\* _read_verified_operation: the evidence still describes the entity.
EvidenceCurrent(b, i) ==
    \/ intent[b][i] = "verified" /\ entity[b][i] = "live"
       /\ (archive[i] = "graph" => provider[b][i] = "exact")
    \/ intent[b][i] = "verifiedCandidate" /\ entity[b][i] = "candidate"

MigrationInit ==
    /\ archive \in Backup
    /\ allowed = Row /\ plan = 0
    /\ intent = [b \in ImportBatch |-> [i \in Row |-> "none"]]
    /\ entity = [b \in ImportBatch |-> [i \in Row |-> "absent"]]
    /\ provider = [b \in ImportBatch |-> [i \in Row |-> "absent"]]
    /\ checkpoint = [b \in ImportBatch |-> [i \in Row |-> "none"]]
    /\ undoing = [b \in ImportBatch |-> [i \in Row |-> "none"]]
    /\ undone = [b \in ImportBatch |-> {}]
    /\ rolledBack = {}
    /\ call = Idle

-----------------------------------------------------------------------------
(* Preview and apply.                                                      *)

\* preview: the rows the current plan accepts; a dependent of a rejected row is
\* rejected with it.
PlanAccepts ==
    LET accepts[i \in Row] == /\ archive[i] # "bad" /\ i \in allowed
                              /\ \A j \in RowSources[i] : accepts[j]
                              /\ archive[i] = "message" \/ RowSources[i] # {}
    IN {i \in Row : accepts[i]}

\* Every accepted kind must be compensable before the first write.
ApplyPreflight == \A i \in PlanAccepts : archive[i] \in Compensable

BeginApplyBatch(approved) ==
    LET b == plan  \* the preview recomputed now must be the approved plan
    IN /\ call = Idle
       /\ b \notin rolledBack
       /\ NextRow(b) <= RowCount
       /\ ApplyPreflight
       /\ call' = At("row", b, NextRow(b), IF approved THEN "approved" ELSE "plain")
       /\ UNCHANGED <<archive, allowed, plan, stored>>

\* A completed batch answers again only while every projection still reads back.
ReplayApply ==
    /\ call = Idle
    /\ plan \notin rolledBack
    /\ NextRow(plan) > RowCount
    /\ \A i \in Known(plan) : Normalizes(plan, i) /\ i \in allowed
                              /\ LineageCurrent(plan, i) /\ EvidenceCurrent(plan, i)
    /\ UNCHANGED migVars

Advance(b, i, job) ==
    IF job = "rollback" THEN At("undo", b, i, job)
    ELSE IF i < RowCount THEN At("row", b, i + 1, job) ELSE Idle

ApplyQuarantine ==
    /\ call.pc = "row"
    /\ LET b == call.batch  i == call.row
       IN /\ ~Normalizes(b, i) \/ ~Admitted(b, i, call.job = "approved")
          /\ checkpoint' = [checkpoint EXCEPT ![b][i] = "quarantined"]
          /\ call' = Advance(b, i, call.job)
    /\ UNCHANGED <<archive, allowed, plan, intent, entity, provider, undoing, undone, rolledBack>>

\* Mutant of IntentLeadsTo: any stored intent is projected again.
IntentAlwaysProjects(b, i, job) == At("write", b, i, job)

\* begin() returns a new intent, or the stored one: a started one is projected
\* again under the same keys, a verified one must still read back, and the one a
\* rollback completed as not applied is evidence of nothing.
IntentLeadsTo(b, i, job) ==
    CASE intent[b][i] \in {"none", "started"} -> At("write", b, i, job)
      [] EvidenceCurrent(b, i) -> At("checkpoint", b, i, job)
      [] OTHER -> Idle

ApplyIntent ==
    /\ call.pc = "row"
    /\ LET b == call.batch  i == call.row
       IN /\ Normalizes(b, i) /\ Admitted(b, i, call.job = "approved")
          /\ intent' = [intent EXCEPT ![b][i] = IF @ = "none" THEN "started" ELSE @]
          /\ call' = IntentLeadsTo(b, i, call.job)
    /\ UNCHANGED <<archive, allowed, plan, entity, provider, checkpoint, undoing, undone, rolledBack>>

-----------------------------------------------------------------------------
(* The canonical writers: idempotent by key, one store write per step.     *)

RowWriting(k) == call.pc = "write" /\ archive[call.row] = k

SetEntity(v) == entity' = [entity EXCEPT ![call.batch][call.row] = v]
Here == entity[call.batch][call.row]
Held == provider[call.batch][call.row]
Goto(pc) == call' = [call EXCEPT !.pc = pc]

\* create_message / create_memory and readback: a tombstone fails the readback.
WriteMemory ==
    /\ RowWriting("message") \/ RowWriting("memory")
    /\ \/ Here = "absent" /\ SetEntity("live") /\ Goto("complete")
       \/ Here = "live" /\ Goto("complete") /\ UNCHANGED entity
       \/ Here \notin {"absent", "live"} /\ call' = Idle /\ UNCHANGED entity
    /\ UNCHANGED <<archive, allowed, plan, intent, provider, checkpoint, undoing, undone, rolledBack>>

\* The candidate first; it is activated only under the separate host approval.
WriteProfile ==
    /\ RowWriting("profile")
    /\ \/ Here = "absent" /\ SetEntity("candidate") /\ UNCHANGED call
       \/ Here = "candidate" /\ call.job = "approved" /\ SetEntity("live") /\ Goto("complete")
       \/ Here = "candidate" /\ call.job # "approved" /\ Goto("candidate") /\ UNCHANGED entity
       \/ Here = "live" /\ Goto("complete") /\ UNCHANGED entity
       \/ Here \in {"gone", "superseded"} /\ call' = Idle /\ UNCHANGED entity
    /\ UNCHANGED <<archive, allowed, plan, intent, provider, checkpoint, undoing, undone, rolledBack>>

\* The changeset is proposed, then the provider inspected: absent admits the first
\* upsert, exact repairs the receipt without another, partial fails closed.
WriteGraph ==
    /\ RowWriting("graph")
    /\ \/ Here = "absent" /\ SetEntity("proposed") /\ UNCHANGED call
       \/ Here = "proposed" /\ Held = "absent" /\ Goto("upsert") /\ UNCHANGED entity
       \/ Here = "proposed" /\ Held = "exact" /\ SetEntity("live") /\ Goto("complete")
       \/ Here = "proposed" /\ Held = "partial" /\ call' = Idle /\ UNCHANGED entity
       \/ Here = "live" /\ call' = (IF Held = "exact" THEN [call EXCEPT !.pc = "complete"] ELSE Idle)
                        /\ UNCHANGED entity
       \/ Here = "gone" /\ call' = Idle /\ UNCHANGED entity
    /\ UNCHANGED <<archive, allowed, plan, intent, provider, checkpoint, undoing, undone, rolledBack>>

\* The provider stores node after node, edge after edge.
UpsertGraph ==
    /\ call.pc = "upsert"
    /\ \/ Held = "absent" /\ provider' = [provider EXCEPT ![call.batch][call.row] = "partial"]
          /\ UNCHANGED call
       \/ Held = "partial" /\ provider' = [provider EXCEPT ![call.batch][call.row] = "exact"]
          /\ Goto("write")
    /\ UNCHANGED <<archive, allowed, plan, intent, entity, checkpoint, undoing, undone, rolledBack>>

\* complete(): the evidence names what was read back.
CompleteIntent ==
    /\ call.pc \in {"complete", "candidate"}
    /\ intent' = [intent EXCEPT ![call.batch][call.row] =
                    IF call.pc = "candidate" THEN "verifiedCandidate" ELSE "verified"]
    /\ Goto("checkpoint")
    /\ UNCHANGED <<archive, allowed, plan, entity, provider, checkpoint, undoing, undone, rolledBack>>

AppendCheckpoint ==
    /\ call.pc = "checkpoint"
    /\ LET b == call.batch  i == call.row
       IN /\ checkpoint' = [checkpoint EXCEPT ![b][i] =
                    IF intent[b][i] = "verifiedCandidate" THEN "candidate" ELSE "projected"]
          /\ call' = Advance(b, i, call.job)
    /\ UNCHANGED <<archive, allowed, plan, intent, entity, provider, undoing, undone, rolledBack>>

-----------------------------------------------------------------------------
(* Rollback.                                                               *)

\* rollback does not recompute the plan: it may be of an older one.  Its preflight
\* reads the kinds of the artifact itself.
BeginUndo(b) ==
    /\ call = Idle
    /\ b <= plan /\ b \notin rolledBack
    /\ \A i \in Row : archive[i] # "bad" => archive[i] \in Compensable
    /\ call' = At("tail", b, 1, "rollback")
    /\ UNCHANGED <<archive, allowed, plan, stored>>

\* Mutant of TailNeeds: the in-flight row is forgotten.
TailForgotten(b, i) == "nothing"

\* What the one row after the last checkpoint needs before anything is undone: no
\* row or no record; no intent (begun, then completed as not applied, so that no
\* later apply can write it); a verified intent whose checkpoint was lost; or an unresolved
\* write, carried to its end without any approval.  The checkpoint of a verified
\* profile is refused: the rebuilt reference has no candidate version.
TailNeeds(b, i) ==
    IF i > RowCount \/ ~Normalizes(b, i) THEN "nothing"
    ELSE CASE intent[b][i] = "none" -> "fence"
           [] intent[b][i] = "notApplied" -> "nothing"
           [] intent[b][i] = "started" -> IF Admitted(b, i, FALSE) THEN "write" ELSE "host"
           [] OTHER -> IF EvidenceCurrent(b, i) /\ archive[i] # "profile" THEN "checkpoint" ELSE "host"

ReconcileTail ==
    /\ call.pc = "tail"
    /\ LET b == call.batch
           i == NextRow(b)
           need == TailNeeds(b, i)
       IN /\ intent' = IF need = "fence" THEN [intent EXCEPT ![b][i] = "started"] ELSE intent
          /\ call' = CASE need = "nothing" -> At("undo", b, 1, "rollback")
                       [] need \in {"fence", "write", "checkpoint"} -> At(need, b, i, "rollback")
                       [] need = "host" -> Idle
    /\ UNCHANGED <<archive, allowed, plan, entity, provider, checkpoint, undoing, undone, rolledBack>>

\* The intent this rollback began itself is completed with the evidence that nothing
\* was applied; a call that dies before leaves an intent like any other.
CompleteFence ==
    /\ call.pc = "fence"
    /\ intent' = [intent EXCEPT ![call.batch][call.row] = "notApplied"]
    /\ call' = At("undo", call.batch, 1, "rollback")
    /\ UNCHANGED <<archive, allowed, plan, entity, provider, checkpoint, undoing, undone, rolledBack>>

\* _rollback_snapshot: the entity reads back in its terminal state.
ReadsRolledBack(b, i) == entity[b][i] = "gone" /\ provider[b][i] = "absent"

\* Applied records are walked in reverse; a row rolled back before is verified.
Undo ==
    /\ call.pc = "undo"
    /\ LET b == call.batch
           left == Known(b) \ undone[b]
           i == Max(left)
       IN /\ left # {}
          /\ IF \A j \in undone[b] : j > i => ReadsRolledBack(b, j)
             THEN /\ undoing' = [undoing EXCEPT ![b][i] = IF @ = "none" THEN "started" ELSE @]
                  /\ call' = At(IF undoing[b][i] = "verified" THEN "receipt" ELSE "compensate",
                                b, i, "rollback")
             ELSE call' = Idle /\ UNCHANGED undoing
    /\ UNCHANGED <<archive, allowed, plan, intent, entity, provider, checkpoint, undone, rolledBack>>

\* revoke_source: the message, the messages derived from it, and every memory
\* derived from it, whatever state that memory was in.
Revoke(b, i) ==
    [j \in Row |->
        IF j = i \/ (archive[j] = "message" /\ i \in RowSources[j] /\ entity[b][j] # "absent")
        THEN "gone"
        ELSE IF archive[j] = "memory" /\ i \in RowSources[j] /\ entity[b][j] # "absent"
             THEN "invalidated" ELSE entity[b][j]]

\* What a profile's checkpoint names: rollback_profile takes back the active profile,
\* rollback_candidate the candidate, each at the version it was imported with.
ImportedProfile(b, i) == IF checkpoint[b][i] = "candidate" THEN "candidate" ELSE "live"

Compensate ==
    /\ call.pc = "compensate"
    /\ LET b == call.batch  i == call.row
       IN \/ /\ archive[i] = "message"
             /\ entity' = [entity EXCEPT ![b] = IF @[i] = "gone" THEN @ ELSE Revoke(b, i)]
             /\ Goto("snapshot") /\ UNCHANGED provider
          \/ /\ archive[i] = "memory"
             /\ IF Here \in {"live", "gone"} THEN SetEntity("gone") /\ Goto("snapshot")
                                             ELSE call' = Idle /\ UNCHANGED entity
             /\ UNCHANGED provider
          \/ /\ archive[i] = "profile"
             /\ IF Here \in {"gone", ImportedProfile(b, i)} THEN SetEntity("gone") /\ Goto("snapshot")
                                                            ELSE call' = Idle /\ UNCHANGED entity
             /\ UNCHANGED provider
          \/ /\ archive[i] = "graph" /\ Here = "gone"
             /\ Goto("snapshot") /\ UNCHANGED <<entity, provider>>
          \/ /\ archive[i] = "graph" /\ Here # "gone"   \* a projected graph is first read back
             /\ call' = (IF Held = "exact" THEN [call EXCEPT !.pc = "delete"] ELSE Idle)
             /\ UNCHANGED <<entity, provider>>
    /\ UNCHANGED <<archive, allowed, plan, intent, checkpoint, undoing, undone, rolledBack>>

\* Edges before nodes, one request each; then absence is read back and the domain
\* row follows in a write of its own.
DeleteGraph ==
    /\ call.pc = "delete"
    /\ \/ Held = "exact" /\ provider' = [provider EXCEPT ![call.batch][call.row] = "partial"]
          /\ UNCHANGED <<call, entity>>
       \/ Held = "partial" /\ provider' = [provider EXCEPT ![call.batch][call.row] = "absent"]
          /\ UNCHANGED <<call, entity>>
       \/ Held = "absent" /\ SetEntity("gone") /\ Goto("snapshot") /\ UNCHANGED provider
    /\ UNCHANGED <<archive, allowed, plan, intent, checkpoint, undoing, undone, rolledBack>>

CompleteUndo ==
    /\ call.pc = "snapshot"
    /\ IF ReadsRolledBack(call.batch, call.row)
       THEN /\ undoing' = [undoing EXCEPT ![call.batch][call.row] = "verified"]
            /\ Goto("receipt")
       ELSE call' = Idle /\ UNCHANGED undoing
    /\ UNCHANGED <<archive, allowed, plan, intent, entity, provider, checkpoint, undone, rolledBack>>

AppendUndone ==
    /\ call.pc = "receipt"
    /\ IF ReadsRolledBack(call.batch, call.row)
       THEN /\ undone' = [undone EXCEPT ![call.batch] = @ \union {call.row}]
            /\ Goto("undo")
       ELSE call' = Idle /\ UNCHANGED undone
    /\ UNCHANGED <<archive, allowed, plan, intent, entity, provider, checkpoint, undoing, rolledBack>>

\* The receipts cover every projection and each still reads back.
CompletedRollback(b) == undone[b] = Known(b) /\ \A i \in undone[b] : ReadsRolledBack(b, i)

EndRollback ==
    /\ call.pc = "undo"
    /\ Known(call.batch) \subseteq undone[call.batch]
    /\ rolledBack' = IF CompletedRollback(call.batch) THEN rolledBack \union {call.batch} ELSE rolledBack
    /\ call' = Idle
    /\ UNCHANGED <<archive, allowed, plan, intent, entity, provider, checkpoint, undoing, undone>>

\* A repeated rollback answers only while its receipts still read back.
ReplayRollback(b) ==
    /\ call = Idle
    /\ b \in rolledBack
    /\ CompletedRollback(b)
    /\ UNCHANGED migVars

-----------------------------------------------------------------------------
(* The environment.                                                        *)

\* The process dies, a port fails or a request is lost: the call ends where it is.
Crash ==
    /\ call # Idle
    /\ call' = Idle
    /\ UNCHANGED <<archive, allowed, plan, stored>>

\* The host grants or withdraws the authorization of a row; the plan changes.
ChangeAuthorization(i) ==
    /\ plan < MaxPlan
    /\ plan' = plan + 1
    /\ allowed' = IF i \in allowed THEN allowed \ {i} ELSE allowed \union {i}
    /\ UNCHANGED <<archive, stored, call>>

\* The owner revokes an imported message by hand.
OwnerRevokes(b, i) ==
    /\ archive[i] = "message" /\ entity[b][i] = "live"
    /\ entity' = [entity EXCEPT ![b] = Revoke(b, i)]
    /\ UNCHANGED <<archive, allowed, plan, intent, provider, checkpoint, undoing, undone,
                   rolledBack, call>>

\* The owner activates an imported candidate, replaces an imported profile by another
\* or rolls it back, by hand.  A superseded profile that is restored has a later
\* version, which every check refuses as well.
OwnerChangesProfile(b, i) ==
    /\ archive[i] = "profile"
    /\ \E to \in {"live", "superseded", "gone"} :
         /\ entity[b][i] = IF to = "live" THEN "candidate" ELSE "live"
         /\ entity' = [entity EXCEPT ![b][i] = to]
    /\ UNCHANGED <<archive, allowed, plan, intent, provider, checkpoint, undoing, undone,
                   rolledBack, call>>

MigrationNext ==
    \/ \E approved \in BOOLEAN : BeginApplyBatch(approved)
    \/ ReplayApply \/ ApplyQuarantine \/ ApplyIntent
    \/ WriteMemory \/ WriteProfile \/ WriteGraph \/ UpsertGraph \/ CompleteIntent \/ AppendCheckpoint
    \/ \E b \in ImportBatch : BeginUndo(b) \/ ReplayRollback(b)
    \/ ReconcileTail \/ CompleteFence \/ Undo \/ Compensate \/ DeleteGraph \/ CompleteUndo \/ AppendUndone \/ EndRollback
    \/ Crash
    \/ \E i \in Row : ChangeAuthorization(i)
    \/ \E b \in ImportBatch, i \in Row : OwnerRevokes(b, i) \/ OwnerChangesProfile(b, i)

MigrationSpec == MigrationInit /\ [][MigrationNext]_migVars

-----------------------------------------------------------------------------
(* Properties.                                                             *)

\* Something of the row is still visible in a canonical store or at the provider.
Visible(b, i) == entity[b][i] \in {"live", "candidate", "superseded"} \/ provider[b][i] # "absent"

\* A batch recorded as rolled back shows nothing it imported: not a row whose
\* checkpoint was lost in a crash, not a graph half deleted at the provider.  The
\* exception is a row quarantined by a later apply after an earlier one had died
\* between its write and its checkpoint: rollback does not look at it.
NothingLeftBehind ==
    \A b \in rolledBack : \A i \in Row :
        Visible(b, i) => checkpoint[b][i] = "quarantined" /\ intent[b][i] # "none"

\* A row that a rollback declared not applied is never written, by whatever apply
\* comes after an unfinished rollback.
NotAppliedIsFinal ==
    \A b \in ImportBatch : \A i \in Row :
        intent[b][i] = "notApplied" => entity[b][i] = "absent" /\ provider[b][i] = "absent"

\* _verify_completed_rollback: "Require every projected row to retain its exact
\* current rolled-back readback."
UndoneReadsBack == \A b \in ImportBatch : \A i \in undone[b] : ReadsRolledBack(b, i)
=============================================================================
