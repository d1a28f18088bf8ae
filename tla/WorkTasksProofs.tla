--------------------------- MODULE WorkTasksProofs ---------------------------
(***************************************************************************)
(* Proofs about Work tasks, for any principals, tasks, sessions and gates.  *)
(*                                                                         *)
(* The inductive invariant has four parts.  A task is at a gate (AtGate)    *)
(* when it has at most one pending gate and waits exactly for that one.     *)
(* Results name the status their task ended with.  The private owner and    *)
(* the verified Teams actor of a task are its creator, and a task that was  *)
(* never admitted has none.  A native mapping of an actor was made for a    *)
(* task that this actor created, and every mapping for a task of its        *)
(* session.  The event log is never read by these properties: it only adds  *)
(* guards.                                                                  *)
(***************************************************************************)
EXTENDS WorkTasks, FiniteSetTheorems, TLAPS

OpenApproval(g, t) == approvals[g].task = t /\ approvals[g].status = "pending"
OpenInput(g, t) == inputs[g].task = t /\ inputs[g].status = "pending"

TablesOK ==
  /\ task \in [Task -> TaskRow]
  /\ owner \in [Task -> Actor \cup {None}]
  /\ origin \in [Task -> OriginRow]
  /\ approvals \in [ApprovalId -> GateRow(Decision)]
  /\ inputs \in [InputId -> GateRow({"answered"})]

\* A gate that was made names its task.
GateNamesTask ==
  /\ \A g \in ApprovalId : approvals[g].status = "absent" <=> approvals[g].task = None
  /\ \A g \in InputId : inputs[g].status = "absent" <=> inputs[g].task = None

\* A task has at most one pending gate and waits exactly for that one.
AtGate(t) ==
  /\ \A g, h \in ApprovalId : OpenApproval(g, t) /\ OpenApproval(h, t) => g = h
  /\ \A g, h \in InputId : OpenInput(g, t) /\ OpenInput(h, t) => g = h
  /\ \A g \in ApprovalId, h \in InputId : ~(OpenApproval(g, t) /\ OpenInput(h, t))
  /\ task[t].status \notin Terminal =>
       /\ task[t].status = "waiting_approval" <=> \E g \in ApprovalId : OpenApproval(g, t)
       /\ task[t].status = "waiting_input" <=> \E g \in InputId : OpenInput(g, t)

AllAtGate == \A t \in Task : AtGate(t)

NotesNameTasks == \A n \in notes : n.task \in Task

AbsentHasNoCreator == \A t \in Task : ~Exists(t) => task[t].creator = None

\* Where the native mappings come from.
BindingsAreOwn ==
  \A b \in bound :
    /\ b.scope # None => b.creator = b.scope
    /\ \E t \in Task : Exists(t) /\ task[t].session = b.session /\ task[t].creator = b.creator

WorkInv ==
  /\ TablesOK /\ GateNamesTask /\ AllAtGate
  /\ NotesNameTasks /\ OneResultPerTask
  /\ AbsentHasNoCreator /\ ProvenanceAgrees /\ BindingsAreOwn

-----------------------------------------------------------------------------
\* The rows of tasks and gates that do not exist yet.
LEMMA InitialRows ==
  /\ NoTask \in TaskRow /\ NoOrigin \in OriginRow /\ NoMeta \in Meta
  /\ NoApproval \in GateRow(Decision) /\ NoInput \in GateRow({"answered"})
  /\ NoTask.status = "absent" /\ NoTask.creator = None /\ NoOrigin.actor = None
  /\ NoApproval.status = "absent" /\ NoApproval.task = None
  /\ NoInput.status = "absent" /\ NoInput.task = None
  BY DEF NoTask, NoMeta, TaskRow, Meta, NoOrigin, OriginRow, NoApproval, NoInput, GateRow

\* An empty Work database satisfies the invariant.
LEMMA Initially == Init => WorkInv
<1> SUFFICES ASSUME Init PROVE WorkInv
  OBVIOUS
<1>1. TablesOK
  BY InitialRows DEF Init, TablesOK
<1>2. /\ \A t \in Task : task[t] = NoTask /\ owner[t] = None /\ origin[t] = NoOrigin
      /\ \A g \in ApprovalId : approvals[g] = NoApproval
      /\ \A g \in InputId : inputs[g] = NoInput
      /\ notes = {} /\ bound = {}
  BY DEF Init
<1>3. GateNamesTask
  BY <1>2, InitialRows DEF GateNamesTask
<1>4. AllAtGate
  BY <1>2, InitialRows DEF AllAtGate, AtGate, OpenApproval, OpenInput
<1>5. NotesNameTasks /\ OneResultPerTask /\ BindingsAreOwn
  BY <1>2 DEF NotesNameTasks, OneResultPerTask, BindingsAreOwn
<1>6. AbsentHasNoCreator /\ ProvenanceAgrees
  BY <1>2, InitialRows DEF AbsentHasNoCreator, ProvenanceAgrees
<1> QED BY <1>1, <1>3, <1>4, <1>5, <1>6 DEF WorkInv

\* What GatesAgree counts.
LEMMA AtGateAgrees == WorkInv => GatesAgree
<1> SUFFICES ASSUME WorkInv, NEW t \in Task
             PROVE  /\ Cardinality(Pending(approvals, t)) + Cardinality(Pending(inputs, t)) <= 1
                    /\ task[t].status \notin Terminal =>
                         /\ (task[t].status = "waiting_approval") <=> (Pending(approvals, t) # {})
                         /\ (task[t].status = "waiting_input") <=> (Pending(inputs, t) # {})
  BY DEF GatesAgree
<1> DEFINE P == Pending(approvals, t)
           Q == Pending(inputs, t)
<1>1. /\ \A g : g \in P <=> g \in ApprovalId /\ OpenApproval(g, t)
      /\ \A g : g \in Q <=> g \in InputId /\ OpenInput(g, t)
  BY DEF Pending, OpenApproval, OpenInput, WorkInv, TablesOK
<1>2. AtGate(t)
  BY DEF WorkInv, AllAtGate
<1>3. P = {} \/ \E g : P = {g}
  <2> HIDE DEF P
  <2>1. \A g, h \in P : g = h
    BY <1>1, <1>2 DEF AtGate
  <2> QED BY <2>1
<1>4. Q = {} \/ \E g : Q = {g}
  <2> HIDE DEF Q
  <2>1. \A g, h \in Q : g = h
    BY <1>1, <1>2 DEF AtGate
  <2> QED BY <2>1
<1>5. P = {} \/ Q = {}
  <2> HIDE DEF P, Q
  <2> QED BY <1>1, <1>2 DEF AtGate
<1>6. Cardinality(P) + Cardinality(Q) <= 1
  <2> HIDE DEF P, Q
  <2>1. Cardinality({}) = 0
    BY FS_EmptySet
  <2>2. \A g : Cardinality({g}) = 1
    BY FS_Singleton
  <2>3. /\ Cardinality(P) = 0 \/ Cardinality(P) = 1
        /\ Cardinality(Q) = 0 \/ Cardinality(Q) = 1
        /\ Cardinality(P) = 0 \/ Cardinality(Q) = 0
    BY <1>3, <1>4, <1>5, <2>1, <2>2
  <2> QED BY <2>3
<1>7. /\ P # {} <=> \E g \in ApprovalId : OpenApproval(g, t)
      /\ Q # {} <=> \E g \in InputId : OpenInput(g, t)
  <2> HIDE DEF P, Q
  <2> QED BY <1>1
<1> QED BY <1>2, <1>6, <1>7 DEF AtGate

\* A running actor reads the mappings of its own tasks.
LEMMA MappingsAreOwn == WorkInv => NativeSessionNotForeign
<1> SUFFICES ASSUME WorkInv, NEW p \in Principal, NEW t \in Task,
                    NEW b \in get_backend_session(p, t), BindingScope(p, t) # None
             PROVE  b.creator = ActorOf[p]
  BY DEF NativeSessionNotForeign
<1>1. ActorOf[p] # None
  BY WorkAssumption
<1>2. /\ b \in bound
      /\ \/ b.scope = ActorOf[p]
         \/ /\ b.session = task[t].session
            /\ \A u \in Task : task[u].session = task[t].session => task[u].creator = ActorOf[p]
  BY DEF get_backend_session
<1> QED BY <1>1, <1>2 DEF WorkInv, BindingsAreOwn

-----------------------------------------------------------------------------
(* Admission.                                                              *)

\* A task is admitted, or admitted again by its creator.
AdmittedBy(t, a) ==
  \/ UNCHANGED task /\ Exists(t) /\ task[t].creator = a
  \/ /\ ~Exists(t)
     /\ \E row \in TaskRow : /\ row.status = "queued" /\ row.creator = a
                             /\ task' = [task EXCEPT ![t] = row]

\* A task admitted by its creator keeps every part of the invariant.
LEMMA AdmittedKeeps ==
  ASSUME WorkInv, NEW t \in Task, NEW a \in Actor, AdmittedBy(t, a),
         owner' = owner \/ owner' = [owner EXCEPT ![t] = a],
         origin' = origin \/ \E o \in OriginRow : o.actor = a /\ origin' = [origin EXCEPT ![t] = o],
         UNCHANGED <<approvals, inputs, bound>>,
         \A n \in notes' : n \in notes \/ (n.task \in Task /\ n.kind = "accepted")
  PROVE  WorkInv'
<1>1. /\ task' \in [Task -> TaskRow] /\ task'[t].creator = a
      /\ \A u \in Task \ {t} : task'[u] = task[u]
      /\ \/ task'[t] = task[t] /\ Exists(t)
         \/ task[t].status = "absent" /\ task'[t].status = "queued"
      /\ task'[t].status # "absent"
  BY DEF AdmittedBy, Exists, WorkInv, TablesOK
<1>2. /\ owner' \in [Task -> Actor \cup {None}]
      /\ \A u \in Task \ {t} : owner'[u] = owner[u]
      /\ owner'[t] \in {owner[t], a}
  BY DEF WorkInv, TablesOK
<1>3. /\ origin' \in [Task -> OriginRow]
      /\ \A u \in Task \ {t} : origin'[u] = origin[u]
      /\ origin'[t].actor \in {origin[t].actor, a}
  <2>1. CASE origin' = origin
    BY <2>1 DEF WorkInv, TablesOK
  <2>2. ASSUME NEW o \in OriginRow, o.actor = a, origin' = [origin EXCEPT ![t] = o]
        PROVE  /\ origin' \in [Task -> OriginRow]
               /\ \A u \in Task \ {t} : origin'[u] = origin[u]
               /\ origin'[t].actor \in {origin[t].actor, a}
    BY <2>2 DEF WorkInv, TablesOK
  <2> QED BY <2>1, <2>2
<1>4. owner[t] \in {None, a} /\ origin[t].actor \in {None, a}
  BY <1>1 DEF WorkInv, ProvenanceAgrees, AbsentHasNoCreator, Exists
<1>5. TablesOK' /\ GateNamesTask'
  BY <1>1, <1>2, <1>3 DEF WorkInv, TablesOK, GateNamesTask
<1>6. \A u \in Task : AtGate(u)'
  <2>1. \A g, u : (OpenApproval(g, u)' <=> OpenApproval(g, u)) /\ (OpenInput(g, u)' <=> OpenInput(g, u))
    BY DEF OpenApproval, OpenInput
  <2>2. ASSUME NEW u \in Task PROVE AtGate(u)'
    <3>1. task'[u].status = task[u].status \/ (task[u].status = "absent" /\ task'[u].status = "queued")
      BY <1>1
    <3> QED BY <2>1, <3>1 DEF WorkInv, AllAtGate, AtGate, Terminal
  <2> QED BY <2>2
<1>7. NotesNameTasks' /\ OneResultPerTask'
  <2>1. \A n \in notes' : n.kind = "result" => n \in notes
    OBVIOUS
  <2>2. ASSUME NEW n \in notes, n.kind = "result" PROVE task'[n.task].status = n.status
    BY <1>1, <2>2 DEF WorkInv, OneResultPerTask, NotesNameTasks, Terminal
  <2> QED BY <2>1, <2>2 DEF WorkInv, OneResultPerTask, NotesNameTasks
<1>8. AbsentHasNoCreator' /\ ProvenanceAgrees'
  BY <1>1, <1>2, <1>3, <1>4 DEF WorkInv, AbsentHasNoCreator, ProvenanceAgrees, Exists
<1>9. BindingsAreOwn'
  <2>1. ASSUME NEW b \in bound
        PROVE  \E u \in Task : Exists(u)' /\ task'[u].session = b.session /\ task'[u].creator = b.creator
    <3>1. PICK u \in Task : Exists(u) /\ task[u].session = b.session /\ task[u].creator = b.creator
      BY DEF WorkInv, BindingsAreOwn
    <3>2. task'[u] = task[u]
      BY <1>1, <3>1 DEF Exists
    <3> QED BY <3>1, <3>2 DEF Exists
  <2> QED BY <2>1 DEF WorkInv, BindingsAreOwn
<1> QED BY <1>5, <1>6, <1>7, <1>8, <1>9 DEF WorkInv, AllAtGate

\* Admit is such an admission.
LEMMA AdmitIsAdmission ==
  ASSUME WorkInv, NEW p \in Principal, NEW t \in Task, NEW s \in Session, NEW md \in Meta,
         NEW via \in {"api", "intake"}, Admit(p, t, s, md, via)
  PROVE  ActorOf[p] \in Actor /\ AdmittedBy(t, ActorOf[p])
<1>1. PICK a \in Actor : a = ActorOf[p]
  BY WorkAssumption
<1>2. CASE Exists(t)
  BY <1>1, <1>2 DEF Admit, SameRequest, AdmittedBy
<1>3. CASE ~Exists(t)
  <2> DEFINE row == [status |-> "queued", session |-> s, creator |-> a,
                     made |-> md, via |-> via, meta |-> md, started |-> FALSE, ended |-> FALSE]
  <2>1. row \in TaskRow /\ row.status = "queued" /\ row.creator = a
    BY DEF TaskRow, Status
  <2>2. task' = [task EXCEPT ![t] = row]
    BY <1>1, <1>3 DEF Admit
  <2> HIDE DEF row
  <2> QED BY <1>1, <1>3, <2>1, <2>2 DEF AdmittedBy
<1> QED BY <1>2, <1>3, <1>1

\* Nothing of these tables changes.
LEMMA TablesStay ==
  ASSUME WorkInv, UNCHANGED <<task, owner, origin, approvals, inputs, notes, bound>>
  PROVE  WorkInv'
<1>1. TablesOK' /\ GateNamesTask' /\ NotesNameTasks' /\ OneResultPerTask' /\ ProvenanceAgrees'
  BY DEF WorkInv, TablesOK, GateNamesTask, NotesNameTasks, OneResultPerTask, ProvenanceAgrees
<1>2. AllAtGate'
  BY DEF WorkInv, AllAtGate, AtGate, OpenApproval, OpenInput
<1>3. AbsentHasNoCreator' /\ BindingsAreOwn'
  BY DEF WorkInv, AbsentHasNoCreator, BindingsAreOwn, Exists
<1> QED BY <1>1, <1>2, <1>3 DEF WorkInv

\* Every route that admits a task: API, private chat, channel, continuation.
LEMMA AdmissionStep ==
  ASSUME WorkInv, NEW p \in Principal, Admission(p)
  PROVE  WorkInv'
<1>1. PICK a \in Actor : a = ActorOf[p]
  BY WorkAssumption
<1>2. Metas \subseteq Meta /\ \A md \in Meta : md.chat \in BOOLEAN
  BY WorkAssumption DEF Meta
<1>3. Root \subseteq Task /\ Child \subseteq Task
  BY DEF Task
<1>4. \A t : RecordOwner(p, t) => owner' = owner \/ owner' = [owner EXCEPT ![t] = a]
  BY <1>1 DEF RecordOwner
<1>5. ASSUME NEW t \in Root, NEW s \in Session, NEW md \in Metas, create_task(p, t, s, md)
      PROVE  WorkInv'
  <2>1. /\ Admit(p, t, s, md, "api") /\ RecordOwner(p, t)
        /\ UNCHANGED <<origin, approvals, inputs, bound, notes>>
    BY <1>5 DEF create_task
  <2>2. AdmittedBy(t, a)
    BY <1>1, <1>2, <1>3, <2>1, AdmitIsAdmission
  <2> QED BY <1>3, <1>4, <2>1, <2>2, AdmittedKeeps
<1>6. ASSUME NEW t \in Root, NEW s \in Session, NEW md \in Metas, NEW m \in MessageId,
             RegisterPrivate(p, m, t, s, md)
      PROVE  WorkInv'
  <2>1. PICK routed \in Meta : routed = [route |-> None, chat |-> md.chat]
    BY <1>2 DEF Meta
  <2>2. PICK o \in OriginRow : o = [actor |-> a, kind |-> "private", connector |-> TeamsV1, msg |-> m]
    BY WorkAssumption DEF OriginRow
  <2>3. /\ Admit(p, t, s, routed, "intake") /\ RecordOwner(p, t)
        /\ RecordOrigin(p, t, "private", TeamsV1, m)
        /\ UNCHANGED <<approvals, inputs, bound>>
        /\ notes' = notes \cup {[kind |-> "accepted", task |-> t, status |-> None, owner |-> a,
                                 route |-> "teams", hold |-> "none"]}
    BY <1>1, <1>6, <2>1 DEF RegisterPrivate
  <2>4. AdmittedBy(t, a)
    BY <1>1, <1>3, <2>1, <2>3, AdmitIsAdmission
  <2>5. o.actor = a /\ origin' = [origin EXCEPT ![t] = o]
    BY <1>1, <2>2, <2>3 DEF RecordOrigin
  <2>6. \A n \in notes' : n \in notes \/ (n.task \in Task /\ n.kind = "accepted")
    BY <1>3, <2>3
  <2> QED BY <1>3, <1>4, <2>3, <2>4, <2>5, <2>6, AdmittedKeeps
<1>7. ASSUME NEW c \in Connector, NEW m \in MessageId, NEW t \in Root \cup {None},
             NEW s \in Session, NEW md \in Metas, RegisterGeneric(p, c, m, t, s, md)
      PROVE  WorkInv'
  <2>1. UNCHANGED <<origin, approvals, inputs, bound, notes>>
    BY <1>7 DEF RegisterGeneric
  <2>2. CASE t = None
    BY <1>7, <2>1, <2>2, TablesStay DEF RegisterGeneric
  <2>3. CASE t # None
    <3>1. t \in Task /\ Admit(p, t, s, md, "intake") /\ RecordOwner(p, t)
      BY <1>3, <1>7, <2>3 DEF RegisterGeneric
    <3>2. AdmittedBy(t, a)
      BY <1>1, <1>2, <3>1, AdmitIsAdmission
    <3> QED BY <1>4, <2>1, <3>1, <3>2, AdmittedKeeps
  <2> QED BY <2>2, <2>3
<1>8. ASSUME NEW c \in Connector, NEW m \in MessageId, NEW t \in Root \cup {None},
             NEW s \in Session, NEW md \in Metas, NEW x \in Session \cup {None},
             RegisterChannel(p, c, m, t, s, md, x)
      PROVE  WorkInv'
  <2>1. UNCHANGED <<approvals, inputs, bound, notes>>
    BY <1>8 DEF RegisterChannel
  <2>2. CASE t = None
    BY <1>8, <2>1, <2>2, TablesStay DEF RegisterChannel
  <2>3. CASE t # None
    <3>1. PICK routed \in Meta : routed = [route |-> "teams", chat |-> md.chat]
      BY <1>2 DEF Meta, Route
    <3>2. PICK o \in OriginRow : o = [actor |-> a, kind |-> "channel", connector |-> c, msg |-> m]
      BY DEF OriginRow
    <3>3. /\ t \in Task /\ Admit(p, t, s, routed, "intake") /\ RecordOwner(p, t)
          /\ RecordOrigin(p, t, "channel", c, m)
      BY <1>3, <1>8, <2>3, <3>1 DEF RegisterChannel
    <3>4. AdmittedBy(t, a)
      BY <1>1, <3>1, <3>3, AdmitIsAdmission
    <3>5. o.actor = a /\ origin' = [origin EXCEPT ![t] = o]
      BY <1>1, <3>2, <3>3 DEF RecordOrigin
    <3> QED BY <1>4, <2>1, <3>3, <3>4, <3>5, AdmittedKeeps
  <2> QED BY <2>2, <2>3
<1>9. ASSUME NEW src \in Root, NEW k \in IdemKey, create_task_continuation(p, src, k)
      PROVE  WorkInv'
  <2>1. PICK c \in Child : c = <<src, ActorOf[p], k>>
    BY <1>1 DEF Child
  <2>2. PICK s \in Session \cup {None} : s = task[src].session
    BY <1>3 DEF WorkInv, TablesOK, TaskRow
  <2> DEFINE row == [status |-> "queued", session |-> s, creator |-> a, made |-> NoMeta, via |-> "child",
                     meta |-> NoMeta, started |-> FALSE, ended |-> FALSE]
  <2>3. row \in TaskRow /\ row.status = "queued" /\ row.creator = a
    BY InitialRows DEF TaskRow, Status
  <2>4. /\ ~Exists(c) /\ task' = [task EXCEPT ![c] = row]
        /\ owner' = [owner EXCEPT ![c] = a]
        /\ UNCHANGED <<origin, approvals, inputs, bound, notes>>
    BY <1>1, <1>9, <2>1, <2>2 DEF create_task_continuation
  <2> HIDE DEF row
  <2>5. AdmittedBy(c, a)
    BY <2>3, <2>4 DEF AdmittedBy
  <2> QED BY <1>3, <2>1, <2>4, <2>5, AdmittedKeeps
<1> QED BY <1>5, <1>6, <1>7, <1>8, <1>9 DEF Admission

-----------------------------------------------------------------------------
(* Execution and its gates.                                                *)

\* The gate tables after a step that concerns the gates of t alone.
GatesMove(t) ==
  /\ approvals' \in [ApprovalId -> GateRow(Decision)] /\ inputs' \in [InputId -> GateRow({"answered"})]
  /\ GateNamesTask' /\ AtGate(t)'
  /\ \A u \in Task \ {t} :
       /\ \A g \in ApprovalId : OpenApproval(g, u)' <=> OpenApproval(g, u)
       /\ \A g \in InputId : OpenInput(g, u)' <=> OpenInput(g, u)

\* The status of one task moves, with its gates and its result.
LEMMA TaskMoves ==
  ASSUME WorkInv, NEW t \in Task, Exists(t), NEW row \in TaskRow, task' = [task EXCEPT ![t] = row],
         row.session = task[t].session, row.creator = task[t].creator, row.status # "absent",
         task[t].status \in Terminal => row.status = task[t].status,
         UNCHANGED <<owner, origin, bound>>,
         GatesMove(t),
         NEW N, notes' = notes \cup N,
         \A n \in N : n.task = t /\ n.status = row.status /\ row.status \in Terminal
                        /\ task[t].status \notin Terminal,
         \A n, m \in N : n = m
  PROVE  WorkInv'
<1>1. /\ task' \in [Task -> TaskRow] /\ task'[t] = row /\ \A u \in Task \ {t} : task'[u] = task[u]
  BY DEF WorkInv, TablesOK
<1>2. TablesOK' /\ GateNamesTask'
  BY <1>1 DEF WorkInv, TablesOK, GatesMove
<1>3. ASSUME NEW u \in Task PROVE AtGate(u)'
  <2>1. CASE u = t
    BY <2>1 DEF GatesMove
  <2>2. CASE u # t
    BY <1>1, <2>2 DEF GatesMove, WorkInv, AllAtGate, AtGate
  <2> QED BY <2>1, <2>2
<1>4. NotesNameTasks'
  BY DEF WorkInv, NotesNameTasks
<1>5. OneResultPerTask'
  <2>1. ASSUME NEW n \in notes, n.kind = "result"
        PROVE  /\ n.task \in Task /\ task'[n.task].status = n.status /\ n.status \in Terminal
               /\ n.task = t => task[t].status \in Terminal
    BY <1>1, <2>1 DEF WorkInv, OneResultPerTask, NotesNameTasks
  <2>2. ASSUME NEW n \in notes', n.kind = "result"
        PROVE  task'[n.task].status = n.status /\ n.status \in Terminal
    BY <1>1, <2>1, <2>2
  <2>3. ASSUME NEW n \in notes', n.kind = "result", NEW m \in notes', m.kind = "result", m.task = n.task
        PROVE  m = n
    <3>1. CASE n \in notes /\ m \in notes
      BY <2>3, <3>1 DEF WorkInv, OneResultPerTask
    <3>2. CASE n \in N /\ m \in N
      BY <3>2
    <3>3. CASE n \in notes /\ m \in N
      BY <2>1, <2>3, <3>3
    <3>4. CASE n \in N /\ m \in notes
      BY <2>1, <2>3, <3>4
    <3> QED BY <3>1, <3>2, <3>3, <3>4
  <2> QED BY <2>2, <2>3 DEF OneResultPerTask
<1>6. AbsentHasNoCreator' /\ ProvenanceAgrees'
  BY <1>1 DEF WorkInv, AbsentHasNoCreator, ProvenanceAgrees, Exists
<1>7. BindingsAreOwn'
  <2>1. ASSUME NEW b \in bound
        PROVE  \E u \in Task : Exists(u)' /\ task'[u].session = b.session /\ task'[u].creator = b.creator
    <3>1. PICK u \in Task : Exists(u) /\ task[u].session = b.session /\ task[u].creator = b.creator
      BY DEF WorkInv, BindingsAreOwn
    <3> QED BY <1>1, <3>1 DEF Exists
  <2> QED BY <2>1 DEF WorkInv, BindingsAreOwn
<1> QED BY <1>2, <1>3, <1>4, <1>5, <1>6, <1>7 DEF WorkInv, AllAtGate

\* A move that leaves the gates alone: to the end, or between states without a gate.
LEMMA GatesStay ==
  ASSUME WorkInv, NEW t \in Task, Exists(t), NEW row \in TaskRow, task' = [task EXCEPT ![t] = row],
         UNCHANGED <<approvals, inputs>>,
         \/ row.status \in Terminal \/ row.status = task[t].status
         \/ /\ {row.status, task[t].status} \cap {"waiting_approval", "waiting_input"} = {}
            /\ task[t].status \notin Terminal
  PROVE  GatesMove(t)
<1>1. \A g, u : (OpenApproval(g, u)' <=> OpenApproval(g, u)) /\ (OpenInput(g, u)' <=> OpenInput(g, u))
  BY DEF OpenApproval, OpenInput
<1>2. task'[t] = row
  BY DEF WorkInv, TablesOK
<1>3. AtGate(t)'
  BY <1>1, <1>2 DEF WorkInv, AllAtGate, AtGate
<1>4. GateNamesTask'
  BY DEF WorkInv, GateNamesTask
<1> QED BY <1>1, <1>3, <1>4 DEF WorkInv, TablesOK, GatesMove

\* The row an UPDATE of the status writes.
LEMMA MovedRow ==
  ASSUME WorkInv, NEW t \in Task, NEW st \in Status
  PROVE  \E row \in TaskRow : /\ Moved(t, st) = [task EXCEPT ![t] = row]
                              /\ row.session = task[t].session /\ row.creator = task[t].creator
                              /\ row.status = st /\ row.status # "absent"
<1>1. PICK old \in TaskRow : old = task[t]
  BY DEF WorkInv, TablesOK
<1>2. PICK started \in BOOLEAN, ended \in BOOLEAN :
        started = (old.started \/ st = "running") /\ ended = (old.ended \/ st \in Terminal)
  BY DEF TaskRow
<1> DEFINE row == [status |-> st, session |-> old.session, creator |-> old.creator,
                   made |-> old.made, via |-> old.via, meta |-> old.meta,
                   started |-> started, ended |-> ended]
<1>3. row \in TaskRow /\ row.session = old.session /\ row.creator = old.creator /\ row.status = st
  BY DEF TaskRow
<1>4. Moved(t, st) = [task EXCEPT ![t] = row]
  BY <1>1, <1>2 DEF Moved
<1>5. st # "absent"
  BY DEF Status, Terminal
<1> HIDE DEF row
<1> QED BY <1>1, <1>3, <1>4, <1>5

\* At most one result, and of the status the task moves to.
LEMMA OneResult ==
  ASSUME NEW t, NEW st, NEW md
  PROVE  /\ \A n \in ResultNotes(t, st, md) : n.task = t /\ n.status = st
         /\ \A n, m \in ResultNotes(t, st, md) : n = m
         /\ owner[t] # None => \A n \in ResultNotes(t, st, md) : n.owner = owner[t]
  BY DEF ResultNotes

\* A claim moves a queued task to running (claim_task).
LEMMA ClaimStep ==
  ASSUME WorkInv, NEW p \in Principal, NEW t \in Task, claim_task(p, t)
  PROVE  WorkInv'
<1>1. /\ Exists(t) /\ task[t].status = "queued" /\ task' = Moved(t, "running")
      /\ UNCHANGED <<owner, origin, bound, approvals, inputs, notes>>
  BY DEF claim_task, Accessible
<1>2. PICK row \in TaskRow : /\ task' = [task EXCEPT ![t] = row]
                             /\ row.session = task[t].session /\ row.creator = task[t].creator
                             /\ row.status = "running" /\ row.status # "absent"
  BY <1>1, MovedRow DEF Status
<1>3. /\ task[t].status \notin Terminal
      /\ {row.status, task[t].status} \cap {"waiting_approval", "waiting_input"} = {}
  BY <1>1, <1>2 DEF Terminal
<1>4. PICK N : N = {} /\ notes' = notes \cup N
  <2>1. notes' = notes \cup {}
    BY <1>1
  <2> QED BY <2>1
<1>5. GatesMove(t)
  BY <1>1, <1>2, <1>3, GatesStay
<1> QED BY <1>1, <1>2, <1>3, <1>4, <1>5, TaskMoves

\* A patch moves the status forward and queues the result of a task that ends (patch_task).
LEMMA PatchStep ==
  ASSUME WorkInv, NEW p \in Principal, NEW t \in Task, NEW st \in Status, NEW md \in Meta,
         patch_task(p, t, st, md)
  PROVE  WorkInv'
<1>1. Exists(t) /\ UNCHANGED <<owner, origin, bound, approvals, inputs>>
  BY DEF patch_task, Accessible
<1>2. PICK old \in TaskRow : old = task[t]
  BY DEF WorkInv, TablesOK
<1>3. PICK row \in TaskRow : /\ task' = [task EXCEPT ![t] = row]
                             /\ row.session = old.session /\ row.creator = old.creator /\ row.status = st
  <2>1. PICK ended \in BOOLEAN :
          \/ st = old.status /\ ended = old.ended /\ task' = WithMeta(t, md)
          \/ st # old.status /\ ended = (old.ended \/ st \in Terminal)
             /\ task' = [task EXCEPT ![t] = [status |-> st, session |-> task[t].session,
                      creator |-> task[t].creator, made |-> task[t].made, via |-> task[t].via,
                      meta |-> md, started |-> task[t].started,
                      ended |-> task[t].ended \/ st \in Terminal]]
    <3>1. old.ended \in BOOLEAN
      BY DEF TaskRow
    <3> QED BY <1>2, <3>1 DEF patch_task
  <2> DEFINE row == [status |-> st, session |-> old.session, creator |-> old.creator,
                     made |-> old.made, via |-> old.via, meta |-> md,
                     started |-> old.started, ended |-> ended]
  <2>2. row \in TaskRow /\ row.session = old.session /\ row.creator = old.creator /\ row.status = st
    BY DEF TaskRow
  <2>3. task' = [task EXCEPT ![t] = row]
    BY <1>2, <2>1 DEF WithMeta
  <2> HIDE DEF row
  <2> QED BY <2>2, <2>3
<1>4. \/ st = old.status /\ notes' = notes
      \/ /\ st # old.status /\ PatchMayMove(old.status, st)
         /\ notes' = notes \cup (IF st \in Terminal THEN ResultNotes(t, st, md) ELSE {})
  BY <1>2 DEF patch_task
<1>5. st # "absent"
  BY DEF Status, Terminal
<1>6. \/ st = old.status
      \/ /\ old.status \notin Terminal
         /\ st \in Terminal \/ (old.status = "running" /\ st = "awaiting_user_authorization")
  BY <1>4 DEF PatchMayMove, Terminal
<1>7. \/ st \in Terminal \/ st = old.status
      \/ /\ {st, old.status} \cap {"waiting_approval", "waiting_input"} = {} /\ old.status \notin Terminal
  BY <1>6
<1>8. GatesMove(t)
  BY <1>1, <1>2, <1>3, <1>7, GatesStay
<1>9. PICK N : /\ notes' = notes \cup N
               /\ N = {} \/ (N = ResultNotes(t, st, md) /\ st \in Terminal /\ old.status \notin Terminal)
  BY <1>4, <1>6
<1>10. /\ \A n \in N : n.task = t /\ n.status = st /\ st \in Terminal /\ old.status \notin Terminal
       /\ \A n, m \in N : n = m
  BY <1>9, OneResult
<1> QED BY <1>1, <1>2, <1>3, <1>5, <1>6, <1>8, <1>9, <1>10, TaskMoves

\* A gate is opened for a task that has none, or its gate is answered.
LEMMA ApprovalGate ==
  ASSUME WorkInv, NEW t \in Task, NEW g \in ApprovalId, NEW gate \in GateRow(Decision),
         NEW row \in TaskRow, task' = [task EXCEPT ![t] = row],
         approvals' = [approvals EXCEPT ![g] = gate], UNCHANGED inputs,
         gate.task = t, gate.status # "absent",
         task[t].status \notin Terminal, row.status # "waiting_input",
         \/ /\ approvals[g].status = "absent" /\ gate.status = "pending"
            /\ task[t].status \notin {"waiting_approval", "waiting_input"}
            /\ row.status = "waiting_approval"
         \/ /\ approvals[g].task = t /\ approvals[g].status = "pending" /\ gate.status # "pending"
            /\ row.status # "waiting_approval"
  PROVE  GatesMove(t)
<1>1. /\ approvals' \in [ApprovalId -> GateRow(Decision)] /\ approvals'[g] = gate
      /\ \A h \in ApprovalId \ {g} : approvals'[h] = approvals[h]
      /\ task'[t] = row
  BY DEF WorkInv, TablesOK
<1>2. t # None
  BY WorkAssumption
<1>3. \A h, u : OpenInput(h, u)' <=> OpenInput(h, u)
  BY DEF OpenInput
<1>4. GateNamesTask'
  BY <1>1, <1>2 DEF WorkInv, GateNamesTask
<1>5. \A u \in Task \ {t} : \A h \in ApprovalId : OpenApproval(h, u)' <=> OpenApproval(h, u)
  <2>1. approvals[g].task \in {t, None}
    BY DEF WorkInv, GateNamesTask
  <2>2. \A u \in Task : u # None
    BY WorkAssumption
  <2> QED BY <1>1, <2>1, <2>2 DEF OpenApproval
<1>6. \A h \in ApprovalId \ {g} : ~OpenApproval(h, t) /\ ~OpenApproval(h, t)'
  <2>1. AtGate(t)
    BY DEF WorkInv, AllAtGate
  <2> QED BY <1>1, <2>1 DEF AtGate, OpenApproval
<1>7. \A h \in InputId : ~OpenInput(h, t)
  <2>1. AtGate(t)
    BY DEF WorkInv, AllAtGate
  <2> QED BY <2>1 DEF AtGate, OpenApproval
<1>8. OpenApproval(g, t)' <=> row.status = "waiting_approval"
  BY <1>1 DEF OpenApproval
<1>9. AtGate(t)'
  BY <1>1, <1>3, <1>6, <1>7, <1>8 DEF AtGate
<1> QED BY <1>1, <1>3, <1>4, <1>5, <1>9 DEF WorkInv, TablesOK, GatesMove

\* The same for an input request.
LEMMA InputGate ==
  ASSUME WorkInv, NEW t \in Task, NEW g \in InputId, NEW gate \in GateRow({"answered"}),
         NEW row \in TaskRow, task' = [task EXCEPT ![t] = row],
         inputs' = [inputs EXCEPT ![g] = gate], UNCHANGED approvals,
         gate.task = t, gate.status # "absent",
         task[t].status \notin Terminal, row.status # "waiting_approval",
         \/ /\ inputs[g].status = "absent" /\ gate.status = "pending"
            /\ task[t].status \notin {"waiting_approval", "waiting_input"}
            /\ row.status = "waiting_input"
         \/ /\ inputs[g].task = t /\ inputs[g].status = "pending" /\ gate.status # "pending"
            /\ row.status # "waiting_input"
  PROVE  GatesMove(t)
<1>1. /\ inputs' \in [InputId -> GateRow({"answered"})] /\ inputs'[g] = gate
      /\ \A h \in InputId \ {g} : inputs'[h] = inputs[h]
      /\ task'[t] = row
  BY DEF WorkInv, TablesOK
<1>2. t # None
  BY WorkAssumption
<1>3. \A h, u : OpenApproval(h, u)' <=> OpenApproval(h, u)
  BY DEF OpenApproval
<1>4. GateNamesTask'
  BY <1>1, <1>2 DEF WorkInv, GateNamesTask
<1>5. \A u \in Task \ {t} : \A h \in InputId : OpenInput(h, u)' <=> OpenInput(h, u)
  <2>1. inputs[g].task \in {t, None}
    BY DEF WorkInv, GateNamesTask
  <2>2. \A u \in Task : u # None
    BY WorkAssumption
  <2> QED BY <1>1, <2>1, <2>2 DEF OpenInput
<1>6. \A h \in InputId \ {g} : ~OpenInput(h, t) /\ ~OpenInput(h, t)'
  <2>1. AtGate(t)
    BY DEF WorkInv, AllAtGate
  <2> QED BY <1>1, <2>1 DEF AtGate, OpenInput
<1>7. \A h \in ApprovalId : ~OpenApproval(h, t)
  <2>1. AtGate(t)
    BY DEF WorkInv, AllAtGate
  <2> QED BY <2>1 DEF AtGate, OpenInput
<1>8. OpenInput(g, t)' <=> row.status = "waiting_input"
  BY <1>1 DEF OpenInput
<1>9. AtGate(t)'
  BY <1>1, <1>3, <1>6, <1>7, <1>8 DEF AtGate
<1> QED BY <1>1, <1>3, <1>4, <1>5, <1>9 DEF WorkInv, TablesOK, GatesMove

\* An approval is opened or resolved together with the status of its task.
LEMMA ApprovalStep ==
  ASSUME WorkInv, NEW p \in Principal,
         \/ \E t \in Task, mid \in MessageId \cup {None}, a \in ApprovalId : create_approval(p, t, a, mid)
         \/ \E a \in ApprovalId, d \in Decision : resolve_approval(p, a, d)
  PROVE  WorkInv'
<1>1. ASSUME NEW t \in Task, NEW mid \in MessageId \cup {None}, NEW a \in ApprovalId,
             create_approval(p, t, a, mid)
      PROVE  WorkInv'
  <2>1. /\ Exists(t) /\ task[t].status \in {"queued", "running"} /\ task' = Moved(t, "waiting_approval")
        /\ approvals[a].status = "absent" /\ UNCHANGED <<owner, origin, bound, inputs, notes>>
        /\ approvals' = [approvals EXCEPT ![a] = [task |-> t, status |-> "pending", mid |-> mid]]
    BY <1>1 DEF create_approval, Accessible
  <2>2. PICK row \in TaskRow : /\ task' = [task EXCEPT ![t] = row]
                               /\ row.session = task[t].session /\ row.creator = task[t].creator
                               /\ row.status = "waiting_approval" /\ row.status # "absent"
    BY <2>1, MovedRow DEF Status
  <2>3. PICK gate \in GateRow(Decision) : /\ approvals' = [approvals EXCEPT ![a] = gate]
                                          /\ gate.task = t /\ gate.status = "pending"
    <3> DEFINE gate == [task |-> t, status |-> "pending", mid |-> mid]
    <3>1. gate \in GateRow(Decision) /\ gate.task = t /\ gate.status = "pending"
      BY DEF GateRow
    <3>2. approvals' = [approvals EXCEPT ![a] = gate]
      BY <2>1
    <3> HIDE DEF gate
    <3> QED BY <3>1, <3>2
  <2>4. task[t].status \notin Terminal
    BY <2>1 DEF Terminal
  <2>5. PICK N : N = {} /\ notes' = notes \cup N
    <3>1. notes' = notes \cup {}
      BY <2>1
    <3> QED BY <3>1
  <2>6. GatesMove(t)
    BY <2>1, <2>2, <2>3, <2>4, ApprovalGate
  <2> QED BY <2>1, <2>2, <2>4, <2>5, <2>6, TaskMoves
<1>2. ASSUME NEW a \in ApprovalId, NEW d \in Decision, resolve_approval(p, a, d)
      PROVE  WorkInv'
  <2>1. approvals[a].status = "pending" /\ approvals[a].task \in Task \cup {None}
    BY <1>2 DEF resolve_approval, WorkInv, TablesOK, GateRow
  <2>2. PICK t \in Task : t = approvals[a].task
    BY <2>1 DEF WorkInv, GateNamesTask
  <2>3. PICK st \in {"running", "aborted"} : st = IF d = "approved" THEN "running" ELSE "aborted"
    OBVIOUS
  <2>4. PICK mid \in MessageId \cup {None} : mid = approvals[a].mid
    BY SMTT(40) DEF WorkInv, TablesOK, GateRow
  <2>5. /\ Exists(t) /\ task[t].status = "waiting_approval" /\ task' = Moved(t, st)
        /\ UNCHANGED <<owner, origin, bound, inputs>>
        /\ approvals' = [approvals EXCEPT ![a] = [task |-> t, status |-> d, mid |-> mid]]
    BY <1>2, <2>2, <2>3, <2>4 DEF resolve_approval, Accessible
  <2>6. notes' = notes \cup (IF st = "aborted" THEN ResultNotes(t, st, task[t].meta) ELSE {})
    BY <1>2, <2>2, <2>3 DEF resolve_approval
  <2>7. PICK row \in TaskRow : /\ task' = [task EXCEPT ![t] = row]
                               /\ row.session = task[t].session /\ row.creator = task[t].creator
                               /\ row.status = st /\ row.status # "absent"
    BY <2>5, MovedRow DEF Status, Terminal
  <2>8. PICK gate \in GateRow(Decision) : /\ approvals' = [approvals EXCEPT ![a] = gate]
                                          /\ gate.task = t /\ gate.status = d
    <3> DEFINE gate == [task |-> t, status |-> d, mid |-> mid]
    <3>1. gate \in GateRow(Decision) /\ gate.task = t /\ gate.status = d
      BY DEF GateRow
    <3>2. approvals' = [approvals EXCEPT ![a] = gate]
      BY <2>5
    <3> HIDE DEF gate
    <3> QED BY <3>1, <3>2
  <2>9. task[t].status \notin Terminal /\ d \notin {"absent", "pending"}
        /\ st \notin {"waiting_approval", "waiting_input"}
    BY <2>5 DEF Terminal, Decision
  <2>10. PICK N : notes' = notes \cup N
                  /\ (N = {} \/ (N = ResultNotes(t, st, task[t].meta) /\ st = "aborted"))
    BY <2>6
  <2>11. /\ \A n \in N : n.task = t /\ n.status = st /\ st \in Terminal
         /\ \A n, m \in N : n = m
    BY <2>10, OneResult DEF Terminal
  <2>12. GatesMove(t)
    BY <2>1, <2>2, <2>5, <2>7, <2>8, <2>9, ApprovalGate, ZenonT(60)
  <2>13. \A n \in N : n.task = t /\ n.status = row.status /\ row.status \in Terminal
                        /\ task[t].status \notin Terminal
    BY <2>7, <2>9, <2>11
  <2>14. notes' = notes \cup N /\ \A n, m \in N : n = m
    BY <2>10, <2>11
  <2> QED BY <2>5, <2>7, <2>9, <2>12, <2>13, <2>14, TaskMoves
<1> QED BY <1>1, <1>2

\* An input request is opened or answered together with the status of its task.
LEMMA InputStep ==
  ASSUME WorkInv, NEW p \in Principal,
         \/ \E t \in Task, mid \in MessageId \cup {None}, i \in InputId : create_input_request(p, t, i, mid)
         \/ \E i \in InputId : resolve_input_request(p, i)
  PROVE  WorkInv'
<1>1. ASSUME NEW t \in Task, NEW mid \in MessageId \cup {None}, NEW i \in InputId,
             create_input_request(p, t, i, mid)
      PROVE  WorkInv'
  <2>1. /\ Exists(t) /\ task[t].status = "running" /\ task' = Moved(t, "waiting_input")
        /\ inputs[i].status = "absent" /\ UNCHANGED <<owner, origin, bound, approvals, notes>>
        /\ inputs' = [inputs EXCEPT ![i] = [task |-> t, status |-> "pending", mid |-> mid]]
    BY <1>1 DEF create_input_request, Accessible
  <2>2. PICK row \in TaskRow : /\ task' = [task EXCEPT ![t] = row]
                               /\ row.session = task[t].session /\ row.creator = task[t].creator
                               /\ row.status = "waiting_input" /\ row.status # "absent"
    BY <2>1, MovedRow DEF Status
  <2>3. PICK gate \in GateRow({"answered"}) : /\ inputs' = [inputs EXCEPT ![i] = gate]
                                              /\ gate.task = t /\ gate.status = "pending"
    <3> DEFINE gate == [task |-> t, status |-> "pending", mid |-> mid]
    <3>1. gate \in GateRow({"answered"}) /\ gate.task = t /\ gate.status = "pending"
      BY DEF GateRow
    <3>2. inputs' = [inputs EXCEPT ![i] = gate]
      BY <2>1
    <3> HIDE DEF gate
    <3> QED BY <3>1, <3>2
  <2>4. task[t].status \notin Terminal
    BY <2>1 DEF Terminal
  <2>5. PICK N : N = {} /\ notes' = notes \cup N
    <3>1. notes' = notes \cup {}
      BY <2>1
    <3> QED BY <3>1
  <2>6. GatesMove(t)
    BY <2>1, <2>2, <2>3, <2>4, InputGate
  <2> QED BY <2>1, <2>2, <2>4, <2>5, <2>6, TaskMoves
<1>2. ASSUME NEW i \in InputId, resolve_input_request(p, i)
      PROVE  WorkInv'
  <2>1. inputs[i].status = "pending" /\ inputs[i].task \in Task \cup {None}
    BY <1>2 DEF resolve_input_request, WorkInv, TablesOK, GateRow
  <2>2. PICK t \in Task : t = inputs[i].task
    BY <2>1 DEF WorkInv, GateNamesTask
  <2>3. PICK mid \in MessageId \cup {None} : mid = inputs[i].mid
    BY DEF WorkInv, TablesOK, GateRow
  <2>4. /\ Exists(t) /\ task[t].status = "waiting_input" /\ task' = Moved(t, "running")
        /\ UNCHANGED <<owner, origin, bound, approvals, notes>>
        /\ inputs' = [inputs EXCEPT ![i] = [task |-> t, status |-> "answered", mid |-> mid]]
    BY <1>2, <2>2, <2>3 DEF resolve_input_request, Accessible
  <2>5. PICK row \in TaskRow : /\ task' = [task EXCEPT ![t] = row]
                               /\ row.session = task[t].session /\ row.creator = task[t].creator
                               /\ row.status = "running" /\ row.status # "absent"
    BY <2>4, MovedRow DEF Status
  <2>6. PICK gate \in GateRow({"answered"}) : /\ inputs' = [inputs EXCEPT ![i] = gate]
                                              /\ gate.task = t /\ gate.status = "answered"
    <3> DEFINE gate == [task |-> t, status |-> "answered", mid |-> mid]
    <3>1. gate \in GateRow({"answered"}) /\ gate.task = t /\ gate.status = "answered"
      BY DEF GateRow
    <3>2. inputs' = [inputs EXCEPT ![i] = gate]
      BY <2>4
    <3> HIDE DEF gate
    <3> QED BY <3>1, <3>2
  <2>7. task[t].status \notin Terminal
    BY <2>4 DEF Terminal
  <2>8. PICK N : N = {} /\ notes' = notes \cup N
    <3>1. notes' = notes \cup {}
      BY <2>4
    <3> QED BY <3>1
  <2>9. GatesMove(t)
    BY <2>1, <2>2, <2>4, <2>5, <2>6, <2>7, InputGate
  <2> QED BY <2>4, <2>5, <2>7, <2>8, <2>9, TaskMoves
<1> QED BY <1>1, <1>2

\* A mapping of an actor is made for a task it created.
LEMMA BindStep ==
  ASSUME WorkInv, NEW p \in Principal, NEW t \in Task, NEW n \in Native, bind_backend_session(p, t, n)
  PROVE  WorkInv'
<1>1. /\ UNCHANGED <<task, owner, origin, approvals, inputs, notes>> /\ Accessible(p, t)
      /\ bound' = bound \cup {[scope |-> BindingScope(p, t), session |-> task[t].session, native |-> n,
                               creator |-> task[t].creator]}
  BY DEF bind_backend_session
<1>2. BindingScope(p, t) # None => task[t].creator = BindingScope(p, t)
  <2>1. ActorOf[p] # None
    BY WorkAssumption
  <2>2. IsTeamsTask(t) \/ p \in PrivateScope => task[t].creator = ActorOf[p]
    BY <1>1, <2>1 DEF Accessible, IsTeamsTask, WorkInv, ProvenanceAgrees
  <2> QED BY <2>2 DEF BindingScope
<1>3. BindingsAreOwn'
  <2>1. PICK b : b = [scope |-> BindingScope(p, t), session |-> task[t].session, native |-> n,
                      creator |-> task[t].creator]
    OBVIOUS
  <2>2. /\ b.scope # None => b.creator = b.scope
        /\ Exists(t) /\ task[t].session = b.session /\ task[t].creator = b.creator
    BY <1>1, <1>2, <2>1 DEF Accessible
  <2>3. \A c \in bound' : c \in bound \/ c = b
    BY <1>1, <2>1
  <2> QED BY <1>1, <2>2, <2>3 DEF WorkInv, BindingsAreOwn, Exists
<1>4. TablesOK' /\ GateNamesTask' /\ NotesNameTasks' /\ OneResultPerTask' /\ ProvenanceAgrees'
  BY <1>1 DEF WorkInv, TablesOK, GateNamesTask, NotesNameTasks, OneResultPerTask, ProvenanceAgrees
<1>5. AllAtGate'
  BY <1>1 DEF WorkInv, AllAtGate, AtGate, OpenApproval, OpenInput
<1>6. AbsentHasNoCreator'
  BY <1>1 DEF WorkInv, AbsentHasNoCreator, Exists
<1> QED BY <1>3, <1>4, <1>5, <1>6 DEF WorkInv

\* Every route of the Work API keeps the invariant.
LEMMA WorkStep == WorkInv /\ [Next]_vars => WorkInv'
<1> SUFFICES ASSUME WorkInv, [Next]_vars PROVE WorkInv'
  OBVIOUS
<1>1. CASE UNCHANGED vars
  BY <1>1, TablesStay DEF vars
<1>2. CASE \E a \in Actor : InstallationChanges(a)
  BY <1>2, TablesStay DEF InstallationChanges
<1>3. ASSUME NEW p \in Principal, Admission(p) PROVE WorkInv'
  BY <1>3, AdmissionStep
<1>4. ASSUME NEW p \in Principal, Execution(p) PROVE WorkInv'
  <2>1. ASSUME NEW t \in Task, claim_task(p, t) PROVE WorkInv'
    BY <2>1, ClaimStep
  <2>2. ASSUME NEW t \in Task, NEW st \in Status, NEW md \in Metas, patch_task(p, t, st, md) PROVE WorkInv'
    <3>1. md \in Meta
      BY WorkAssumption
    <3> QED BY <2>2, <3>1, PatchStep
  <2>3. ASSUME NEW t \in Task, NEW mid \in MessageId \cup {None}, append_task_event(p, t, mid) PROVE WorkInv'
    BY <2>3, TablesStay DEF append_task_event
  <2>4. ASSUME NEW t \in Task, NEW mid \in MessageId \cup {None}, NEW a \in ApprovalId,
               create_approval(p, t, a, mid)
        PROVE  WorkInv'
    BY <2>4, ApprovalStep
  <2>5. ASSUME NEW t \in Task, NEW mid \in MessageId \cup {None}, NEW i \in InputId,
               create_input_request(p, t, i, mid)
        PROVE  WorkInv'
    BY <2>5, InputStep
  <2>6. ASSUME NEW t \in Task, NEW n \in Native, bind_backend_session(p, t, n) PROVE WorkInv'
    BY <2>6, BindStep
  <2> QED BY <1>4, <2>1, <2>2, <2>3, <2>4, <2>5, <2>6 DEF Execution
<1>5. ASSUME NEW p \in Principal, Answers(p) PROVE WorkInv'
  BY <1>5, ApprovalStep, InputStep DEF Answers
<1> QED BY <1>1, <1>2, <1>3, <1>4, <1>5 DEF Next

\* The inductive invariant of the task tables, for any principals and tasks.
THEOREM WorkInvariant == Spec => []WorkInv
  BY Initially, WorkStep, PTL DEF Spec

\* A task waits at a gate exactly while that gate, and no other, is pending
\* (create_approval, create_input_request and their answers against patch_task).
THEOREM WorkGates == Spec => []GatesAgree
  BY WorkInvariant, AtGateAgrees, PTL

\* A task has at most one result notification, of the status it ended with.
THEOREM WorkOneResult == Spec => []OneResultPerTask
<1>1. WorkInv => OneResultPerTask
  BY DEF WorkInv
<1> QED BY <1>1, WorkInvariant, PTL

\* The private owner and the verified Teams actor of a task are its creator.
THEOREM WorkProvenance == Spec => []ProvenanceAgrees
<1>1. WorkInv => ProvenanceAgrees
  BY DEF WorkInv
<1> QED BY <1>1, WorkInvariant, PTL

\* get_backend_session answers a private or Teams task only with a native
\* conversation that was started for a task of the same actor.
THEOREM WorkNativeSession == Spec => []NativeSessionNotForeign
  BY WorkInvariant, MappingsAreOwn, PTL

-----------------------------------------------------------------------------
(* What a step may not do.                                                 *)

\* The notes a step adds, of a task that is private when it is taken.
NewNotesArePrivate ==
  \A t \in Task : owner[t] # None => \A n \in notes' \ notes : n.task = t => n.owner = owner[t]

\* A result queued for a private task is queued for its owner.
LEMMA NotesStayPrivate == WorkInv /\ [Next]_vars => NewNotesArePrivate
<1> SUFFICES ASSUME WorkInv, [Next]_vars, NEW t \in Task, owner[t] # None,
                    NEW n \in notes' \ notes, n.task = t
             PROVE  n.owner = owner[t]
  BY DEF NewNotesArePrivate
<1>1. PICK p \in Principal : Admission(p) \/ Execution(p) \/ Answers(p)
  BY DEF Next, vars, InstallationChanges
<1>2. CASE Admission(p)
  <2>1. PICK u \in Root, s \in Session, md \in Metas, m \in MessageId : RegisterPrivate(p, m, u, s, md)
    <3>1. notes' # notes
      OBVIOUS
    <3>2. \A u, c, m, s, md, x :
            /\ ~create_task(p, u, s, md) /\ ~RegisterGeneric(p, c, m, u, s, md)
            /\ ~RegisterChannel(p, c, m, u, s, md, x) /\ ~create_task_continuation(p, u, x)
      BY <3>1 DEF create_task, RegisterGeneric, RegisterChannel, create_task_continuation
    <3> QED BY <1>2, <3>2, Zenon DEF Admission
  <2>2. p \in PrivateScope /\ RecordOwner(p, u)
    BY <2>1 DEF RegisterPrivate
  <2>3. n = [kind |-> "accepted", task |-> u, status |-> None, owner |-> ActorOf[p],
             route |-> "teams", hold |-> "none"]
    BY <2>1 DEF RegisterPrivate
  <2>4. n.owner = ActorOf[p] /\ u = t
    BY <2>3
  <2> QED BY <2>2, <2>4 DEF RecordOwner
<1>3. CASE Execution(p)
  <2>1. PICK u \in Task, st \in Status, md \in Metas : patch_task(p, u, st, md)
    <3>1. notes' # notes
      OBVIOUS
    <3>2. \A u, mid, a :
            /\ ~claim_task(p, u) /\ ~append_task_event(p, u, mid) /\ ~create_approval(p, u, a, mid)
            /\ ~create_input_request(p, u, a, mid) /\ ~bind_backend_session(p, u, a)
      BY <3>1 DEF claim_task, append_task_event, create_approval, create_input_request,
                  bind_backend_session
    <3> QED BY <1>3, <3>2, Zenon DEF Execution
  <2>2. notes' = notes \cup (IF st \in Terminal THEN ResultNotes(u, st, md) ELSE {})
    BY <2>1 DEF patch_task
  <2>3. n \in ResultNotes(u, st, md)
    BY <2>2
  <2> QED BY <2>3, OneResult
<1>4. CASE Answers(p)
  <2>1. PICK a \in ApprovalId, d \in Decision : resolve_approval(p, a, d)
    BY <1>4 DEF Answers, resolve_input_request
  <2>2. PICK u : u = approvals[a].task
    OBVIOUS
  <2>3. n \in ResultNotes(u, "aborted", task[u].meta)
    BY <2>1, <2>2 DEF resolve_approval
  <2> QED BY <2>3, OneResult
<1> QED BY <1>1, <1>2, <1>3, <1>4

\* The result of a task that is private when it ends enters the outbox for its owner
\* alone, whatever the metadata says by then (_queue_task_result_notification).
THEOREM WorkPrivateResult == Spec => PrivateResultStaysPrivate
<1>1. WorkInv /\ [Next]_vars =>
        [\A t \in Task : owner[t] # None =>
           \A n \in notes' \ notes : n.task = t => n.owner = owner[t]]_vars
  BY NotesStayPrivate DEF NewNotesArePrivate
<1> QED BY <1>1, WorkInvariant, PTL DEF Spec, PrivateResultStaysPrivate

\* A step of a task that has ended.
EndedStep ==
  \A t \in Task : task[t].status \in Terminal =>
    /\ task'[t].status = task[t].status
    /\ \A a \in ApprovalId : approvals[a].task = t => approvals'[a] = approvals[a]
    /\ \A i \in InputId : inputs[i].task = t => inputs'[i] = inputs[i]

\* No route changes the status or a gate of a task that ended.
LEMMA EndedStays == WorkInv /\ [Next]_vars => EndedStep
<1> SUFFICES ASSUME WorkInv, [Next]_vars, NEW t \in Task, task[t].status \in Terminal
             PROVE  /\ task'[t].status = task[t].status
                    /\ \A a \in ApprovalId : approvals[a].task = t => approvals'[a] = approvals[a]
                    /\ \A i \in InputId : inputs[i].task = t => inputs'[i] = inputs[i]
  BY DEF EndedStep
<1>1. task'[t].status = task[t].status
  <2>1. task \in [Task -> TaskRow]
    BY DEF WorkInv, TablesOK
  <2>2. \A u, st : /\ task' = Moved(u, st) => u = t \/ task'[t] = task[t]
                   /\ u = t /\ task' = Moved(u, st) => task'[t].status = st
    BY <2>1 DEF Moved
  <2>3. CASE UNCHANGED vars \/ \E a \in Actor : InstallationChanges(a)
    BY <2>3 DEF vars, InstallationChanges
  <2>4. ASSUME NEW p \in Principal, Admission(p) PROVE task'[t].status = task[t].status
    <3>1. \A u, s, md, via : Admit(p, u, s, md, via) => task'[t] = task[t]
      BY <2>1 DEF Admit, Exists, Terminal
    <3>2. \A src, k : create_task_continuation(p, src, k) => task'[t] = task[t]
      BY <2>1 DEF create_task_continuation, Exists, Terminal
    <3>3. \A u, s, md : create_task(p, u, s, md) => task'[t] = task[t]
      BY <3>1 DEF create_task
    <3>4. \A m, u, s, md : RegisterPrivate(p, m, u, s, md) => task'[t] = task[t]
      BY <3>1 DEF RegisterPrivate
    <3>5. \A c, m, u, s, md : RegisterGeneric(p, c, m, u, s, md) => task'[t] = task[t]
      BY <3>1 DEF RegisterGeneric
    <3>6. \A c, m, u, s, md, x : RegisterChannel(p, c, m, u, s, md, x) => task'[t] = task[t]
      BY <3>1 DEF RegisterChannel
    <3>7. task'[t] = task[t]
      BY <2>4, <3>2, <3>3, <3>4, <3>5, <3>6, Zenon DEF Admission
    <3> QED BY <3>7
  <2>5. ASSUME NEW p \in Principal, Execution(p) PROVE task'[t].status = task[t].status
    <3>1. ASSUME NEW u \in Task, NEW st \in Status, NEW md \in Metas, patch_task(p, u, st, md)
          PROVE  task'[t].status = task[t].status
      <4>1. CASE u # t
        BY <2>1, <3>1, <4>1 DEF patch_task, WithMeta
      <4>2. CASE u = t
        BY <2>1, <3>1, <4>2 DEF patch_task, WithMeta, PatchMayMove, Terminal
      <4> QED BY <4>1, <4>2
    <3>2. ASSUME NEW u \in Task, claim_task(p, u) PROVE task'[t].status = task[t].status
      BY <2>2, <3>2 DEF claim_task, Terminal
    <3>3. ASSUME NEW u \in Task, NEW mid \in MessageId \cup {None}, NEW a \in ApprovalId,
                 create_approval(p, u, a, mid)
          PROVE  task'[t].status = task[t].status
      BY <2>2, <3>3 DEF create_approval, Terminal
    <3>4. ASSUME NEW u \in Task, NEW mid \in MessageId \cup {None}, NEW i \in InputId,
                 create_input_request(p, u, i, mid)
          PROVE  task'[t].status = task[t].status
      BY <2>2, <3>4 DEF create_input_request, Terminal
    <3> QED BY <2>5, <3>1, <3>2, <3>3, <3>4 DEF Execution, append_task_event, bind_backend_session
  <2>6. ASSUME NEW p \in Principal, Answers(p) PROVE task'[t].status = task[t].status
    <3>1. ASSUME NEW a \in ApprovalId, NEW d \in Decision, resolve_approval(p, a, d)
          PROVE  task'[t].status = task[t].status
      BY <2>2, <3>1 DEF resolve_approval, Terminal
    <3>2. ASSUME NEW i \in InputId, resolve_input_request(p, i) PROVE task'[t].status = task[t].status
      BY <2>2, <3>2 DEF resolve_input_request, Terminal
    <3> QED BY <2>6, <3>1, <3>2 DEF Answers
  <2> QED BY <2>3, <2>4, <2>5, <2>6 DEF Next
<1>2. \A a \in ApprovalId : approvals[a].task = t => approvals'[a] = approvals[a]
  <2> SUFFICES ASSUME NEW a \in ApprovalId, approvals[a].task = t, approvals' # approvals
               PROVE  approvals'[a] = approvals[a]
    OBVIOUS
  <2>1. approvals \in [ApprovalId -> GateRow(Decision)] /\ approvals[a].status # "absent"
    BY WorkAssumption DEF WorkInv, TablesOK, GateNamesTask
  <2>2. PICK b, gate :
          /\ b \in ApprovalId
          /\ approvals' = [approvals EXCEPT ![b] = gate]
          /\ approvals[b].status = "absent" \/ task[approvals[b].task].status = "waiting_approval"
    <3>1. \A p : ~Admission(p)
      <4>1. \A p, c, m, u, s, md, x :
              /\ ~create_task(p, u, s, md) /\ ~RegisterPrivate(p, m, u, s, md)
              /\ ~RegisterGeneric(p, c, m, u, s, md) /\ ~RegisterChannel(p, c, m, u, s, md, x)
              /\ ~create_task_continuation(p, u, s)
        BY DEF create_task, RegisterPrivate, RegisterGeneric, RegisterChannel, create_task_continuation
      <4> QED BY <4>1, Zenon DEF Admission
    <3>2. \A p, u, mid, g, st, md :
            /\ ~claim_task(p, u) /\ ~append_task_event(p, u, mid) /\ ~patch_task(p, u, st, md)
            /\ ~create_input_request(p, u, g, mid) /\ ~bind_backend_session(p, u, g)
            /\ ~resolve_input_request(p, g)
      BY DEF claim_task, append_task_event, patch_task, create_input_request, bind_backend_session, resolve_input_request
    <3>3. ~UNCHANGED vars /\ \A c : ~InstallationChanges(c)
      BY DEF vars, InstallationChanges
    <3>4. PICK p \in Principal : Execution(p) \/ Answers(p)
      BY <3>1, <3>3 DEF Next
    <3>5. \/ \E u \in Task, mid \in MessageId \cup {None}, g \in ApprovalId : create_approval(p, u, g, mid)
          \/ \E g \in ApprovalId : \E d \in Decision : resolve_approval(p, g, d)
      BY <3>2, <3>4, Zenon DEF Execution, Answers
    <3> QED BY <3>5 DEF create_approval, resolve_approval
  <2>3. b # a
    BY <2>1, <2>2 DEF Terminal
  <2> QED BY <2>1, <2>2, <2>3
<1>3. \A i \in InputId : inputs[i].task = t => inputs'[i] = inputs[i]
  <2> SUFFICES ASSUME NEW a \in InputId, inputs[a].task = t, inputs' # inputs
               PROVE  inputs'[a] = inputs[a]
    OBVIOUS
  <2>1. inputs \in [InputId -> GateRow({"answered"})] /\ inputs[a].status # "absent"
    BY WorkAssumption DEF WorkInv, TablesOK, GateNamesTask
  <2>2. PICK b, gate :
          /\ b \in InputId
          /\ inputs' = [inputs EXCEPT ![b] = gate]
          /\ inputs[b].status = "absent" \/ task[inputs[b].task].status = "waiting_input"
    <3>1. \A p : ~Admission(p)
      <4>1. \A p, c, m, u, s, md, x :
              /\ ~create_task(p, u, s, md) /\ ~RegisterPrivate(p, m, u, s, md)
              /\ ~RegisterGeneric(p, c, m, u, s, md) /\ ~RegisterChannel(p, c, m, u, s, md, x)
              /\ ~create_task_continuation(p, u, s)
        BY DEF create_task, RegisterPrivate, RegisterGeneric, RegisterChannel, create_task_continuation
      <4> QED BY <4>1, Zenon DEF Admission
    <3>2. \A p, u, mid, g, st, md :
            /\ ~claim_task(p, u) /\ ~append_task_event(p, u, mid) /\ ~patch_task(p, u, st, md)
            /\ ~create_approval(p, u, g, mid) /\ ~bind_backend_session(p, u, g)
            /\ ~resolve_approval(p, g, st)
      BY DEF claim_task, append_task_event, patch_task, create_approval, bind_backend_session, resolve_approval
    <3>3. ~UNCHANGED vars /\ \A c : ~InstallationChanges(c)
      BY DEF vars, InstallationChanges
    <3>4. PICK p \in Principal : Execution(p) \/ Answers(p)
      BY <3>1, <3>3 DEF Next
    <3>5. \/ \E u \in Task, mid \in MessageId \cup {None}, g \in InputId : create_input_request(p, u, g, mid)
          \/ \E g \in InputId : resolve_input_request(p, g)
      BY <3>2, <3>4, Zenon DEF Execution, Answers
    <3> QED BY <3>5 DEF create_input_request, resolve_input_request
  <2>3. b # a
    BY <2>1, <2>2 DEF Terminal
  <2> QED BY <2>1, <2>2, <2>3
<1> QED BY <1>1, <1>2, <1>3

\* An ended task keeps its status, and a gate it left open is never decided.
THEOREM WorkEndedStays == Spec => EndedStaysEnded
<1>1. WorkInv /\ [Next]_vars =>
        [\A t \in Task : task[t].status \in Terminal =>
           /\ task'[t].status = task[t].status
           /\ \A a \in ApprovalId : approvals[a].task = t => approvals'[a] = approvals[a]
           /\ \A i \in InputId : inputs[i].task = t => inputs'[i] = inputs[i]]_vars
  BY EndedStays DEF EndedStep
<1> QED BY <1>1, WorkInvariant, PTL DEF Spec, EndedStaysEnded
=============================================================================
