----------------------------- MODULE MCWorkTasks -----------------------------
(* One instance of WorkTasks for TLC, with two questions of different bounds. *)
(* The variable about names the one a behaviour is for: one task with its     *)
(* continuation and their gates, or two tasks of three principals and who may *)
(* see their results and native sessions.                                     *)
EXTENDS WorkTasks, TLC

VARIABLE about

CONSTANTS p1, p2, p3, a1, a2, t1, k1

\* p1 and p2 are tokens of one actor, p3 of another.
MCActorOf  == [p \in Principal |-> IF p = p3 THEN a2 ELSE a1]
\* A plain task, a task with a Teams channel route, and a conversation task with one.
RoutedOrNot == {[route |-> None, chat |-> FALSE]} \cup [route : {"teams"}, chat : BOOLEAN]
Routed == [route |-> "teams", chat |-> FALSE]
GateIds == Permutations(ApprovalId) \cup Permutations(InputId)

\* One principal, one task and its continuation, no message ids and no installation.
GatesNext ==
  \/ \E s \in Session, md \in Metas : create_task(p2, t1, s, md)
  \/ create_task_continuation(p2, t1, k1)
  \/ \E t \in {t1, <<t1, a1, k1>>} :
       \/ claim_task(p2, t)
       \/ \E st \in Status, md \in Metas : patch_task(p2, t, st, md)
       \/ append_task_event(p2, t, None)
       \/ \E a \in ApprovalId : create_approval(p2, t, a, None)
       \/ \E i \in InputId : create_input_request(p2, t, i, None)
  \/ Answers(p2)

\* No gates and no continuations, tasks with a Teams route, and logs of two events.
PrivacyNext ==
  /\ \/ \E p \in Principal, t \in Root, s \in Session :
          \/ create_task(p, t, s, Routed)
          \/ \E m \in MessageId : RegisterPrivate(p, m, t, s, Routed)
     \/ \E p \in Principal, c \in Connector, m \in MessageId, t \in Root \cup {None}, s \in Session :
          \/ RegisterGeneric(p, c, m, t, s, Routed)
          \/ \E x \in Session \cup {None} : RegisterChannel(p, c, m, t, s, Routed, x)
     \/ \E p \in Principal, t \in Root :
          \/ claim_task(p, t)
          \/ \E st \in Status : patch_task(p, t, st, Routed)
          \/ \E mid \in MessageId \cup {None} : append_task_event(p, t, mid)
          \/ \E n \in Native : bind_backend_session(p, t, n)
     \/ \E a \in Actor : InstallationChanges(a)
  /\ \A t \in Root : Len(log'[t]) <= 2

MCInit == Init /\ about \in {"gates", "privacy"}

MCNext ==
  /\ UNCHANGED about
  /\ \/ about = "gates" /\ GatesNext
     \/ about = "privacy" /\ PrivacyNext

MCSpec == MCInit /\ [][MCNext]_<<vars, about>>
=============================================================================
