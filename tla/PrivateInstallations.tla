------------------------ MODULE PrivateInstallations -------------------------
(***************************************************************************)
(* The personal Teams installation of one owner:                           *)
(* WorkStore.apply_private_installation in work/store.py, which decides     *)
(* whether private results may be sent to that owner's chat.               *)
(*                                                                         *)
(* Teams activities ("add" and "remove") arrive late, repeated and in any   *)
(* order.  The store remembers recent activity ids and purges the oldest:   *)
(* which prefix of the remembered ones goes at a call is left open here     *)
(* (30 days, or more than 10,000 rows in the Workspace).                    *)
(***************************************************************************)
EXTENDS Naturals, Sequences

CONSTANTS
  Id,          \* activity ids
  Route,       \* conversation and service URL of an activity
  None,        \* SQL NULL
  MaxTime,     \* bound on activity time stamps
  MaxRevision  \* bound on applied changes

Activity == [id : Id, action : {"add", "remove"}, at : 0..MaxTime, route : Route]

ASSUME InstallAssumption ==
  None \notin Nat /\ None \notin Route /\ MaxTime \in Nat /\ MaxRevision \in Nat

VARIABLES
  row,        \* work_private_installations
  seen,       \* work_private_installation_events, oldest first
  delivered,  \* every activity the store has processed
  legacy      \* the owner's row predates activity times

vars == <<row, seen, delivered, legacy>>

Absent == [present |-> FALSE, active |-> FALSE, at |-> None, route |-> None, revision |-> 0]
\* A row written before activities carried a time; _initialize deactivates it.
Migrated(r) == [present |-> TRUE, active |-> FALSE, at |-> None, route |-> r, revision |-> 1]

Init ==
  /\ \/ legacy = FALSE /\ row = Absent
     \/ legacy = TRUE /\ \E r \in Route : row = Migrated(r)
  /\ seen = << >>
  /\ delivered = {}

\* Mutant: a removal is ignored when nothing is active.
IgnoredInactive(a) ==
  row.present /\ \/ row.at = None /\ a.action = "add"
                 \/ row.at # None /\ (a.at <= row.at \/ (a.action = "add" /\ ~row.active))

\* An older activity, an add without a baseline, or the loser of a tie: arrival
\* order cannot break equal time stamps, revocation wins them.
Ignored(a) ==
  row.present /\ \/ row.at = None /\ a.action = "add"
                 \/ /\ row.at # None
                    /\ a.at < row.at \/ (a.at = row.at /\ (a.action = "add" \/ ~row.active))

\* persist_event: append, then purge some prefix of the older rows.
Persist(a) ==
  \E n \in 0..Len(seen) : seen' = Append(SubSeq(seen, n + 1, Len(seen)), a)

\* A remembered id is answered from its receipt, or refused when its content differs;
\* otherwise the activity is either ignored or becomes the state of the row.  A removal
\* keeps the stored route.
apply_private_installation(a) ==
  /\ \A i \in DOMAIN seen : seen[i].id # a.id
  /\ delivered' = delivered \cup {a}
  /\ Persist(a)
  /\ \/ Ignored(a) /\ UNCHANGED row
     \/ /\ ~Ignored(a)
        /\ row.revision < MaxRevision
        /\ row' = [present  |-> TRUE,
                   active   |-> a.action = "add",
                   at       |-> a.at,
                   route    |-> IF a.action = "remove" /\ row.present THEN row.route ELSE a.route,
                   revision |-> row.revision + 1]
  /\ UNCHANGED legacy

Next == \E a \in Activity : apply_private_installation(a)

Spec == Init /\ [][Next]_vars

-----------------------------------------------------------------------------
(* Properties.                                                             *)

\* The row is a well-formed row and the receipts are activities.
InstallTypeOK ==
  /\ row \in [present : BOOLEAN, active : BOOLEAN, at : Nat \cup {None},
              route : Route \cup {None}, revision : Nat]
  /\ row.present => row.route \in Route
  /\ seen \in Seq(Activity)
  /\ delivered \subseteq Activity
  /\ legacy \in BOOLEAN

\* An active private route was added after every removal processed so far: whatever
\* the order, the repetitions and the purged receipts, a revocation is never undone by
\* an older or an equal add (apply_private_installation: "revocation wins ties").
ActiveIsNewest ==
  row.active =>
    /\ \E a \in delivered : a.action = "add" /\ a.at = row.at /\ a.route = row.route
    /\ \A b \in delivered : b.action = "remove" => b.at < row.at

\* The converse, for an owner whose row is not a migrated one: a route that is not
\* active was revoked by an activity no add is newer than.  With ActiveIsNewest this
\* makes the result independent of the order of arrival.
InactiveIsRevoked ==
  (~legacy /\ delivered # {} /\ ~row.active) =>
    \E a \in delivered : a.action = "remove" /\ \A b \in delivered : b.at <= a.at

\* A migrated row is trusted again only after a removal gave it a time
\* (apply_private_installation: "add must wait until that removal establishes a
\* timestamped baseline").
LegacyNeedsRemoval ==
  (legacy /\ row.active) => \E a \in delivered : a.action = "remove" /\ a.at < row.at
=============================================================================
