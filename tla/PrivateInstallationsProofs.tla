--------------------- MODULE PrivateInstallationsProofs ---------------------
(***************************************************************************)
(* Proofs about PrivateInstallations, for every set of activities, times    *)
(* and routes.  The invariants of the model are inductive together with the *)
(* bookkeeping of Baseline: what the row's time means for the activities    *)
(* processed so far.                                                       *)
(***************************************************************************)
EXTENDS PrivateInstallations, TLAPS

\* The row's time is that of a processed activity; before it has one nothing is active;
\* an inactive row with a time was removed then; and unless the row was a migrated one,
\* no processed activity is newer than the row.
Baseline ==
  /\ row.at # None => \E a \in delivered : a.at = row.at
  /\ row.at = None => ~row.active
  /\ ~row.present => ~legacy /\ row.at = None /\ delivered = {}
  /\ (row.at # None /\ ~row.active) => \E a \in delivered : a.action = "remove" /\ a.at = row.at
  /\ (row.present /\ row.at = None) => legacy /\ \A a \in delivered : a.action = "add"
  /\ ~legacy => \A b \in delivered : row.at # None /\ b.at <= row.at
  /\ row.at # None => \A b \in delivered : b.action = "remove" => b.at <= row.at
  /\ (legacy /\ row.at # None) => \E a \in delivered : a.action = "remove" /\ a.at <= row.at

Inv == InstallTypeOK /\ Baseline /\ ActiveIsNewest /\ InactiveIsRevoked /\ LegacyNeedsRemoval

\* The state a fresh or a migrated row starts from satisfies the invariant.
LEMMA InstallInit == Init => Inv
<1> SUFFICES ASSUME Init PROVE Inv
  OBVIOUS
<1>1. CASE legacy = FALSE /\ row = Absent
  <2>1. InstallTypeOK
    <3>1. row \in [present : BOOLEAN, active : BOOLEAN, at : Nat \cup {None},
                   route : Route \cup {None}, revision : Nat]
      BY <1>1 DEF Absent
    <3>2. ~row.present
      BY <1>1 DEF Absent
    <3>3. seen \in Seq(Activity) /\ delivered \subseteq Activity
      BY DEF Init
    <3> QED
      BY <1>1, <3>1, <3>2, <3>3 DEF InstallTypeOK
  <2>2. Baseline /\ ActiveIsNewest /\ InactiveIsRevoked /\ LegacyNeedsRemoval
    BY <1>1, InstallAssumption
    DEF Init, Baseline, ActiveIsNewest, InactiveIsRevoked, LegacyNeedsRemoval, Absent
  <2> QED
    BY <2>1, <2>2 DEF Inv
<1>2. ASSUME NEW r \in Route, legacy = TRUE, row = Migrated(r) PROVE Inv
  BY <1>2, InstallAssumption
  DEF Init, Inv, InstallTypeOK, Baseline, ActiveIsNewest, InactiveIsRevoked, LegacyNeedsRemoval,
      Migrated
<1> QED
  BY <1>1, <1>2 DEF Init

\* An activity, ignored or applied, preserves the invariant.
LEMMA InstallStep ==
  ASSUME Inv, NEW a \in Activity, apply_private_installation(a)
  PROVE  Inv'
<1> USE DEF Inv
<1> a.at \in Nat /\ a.action \in {"add", "remove"} /\ a.route \in Route
  BY InstallAssumption DEF Activity
<1>1. delivered' = delivered \cup {a} /\ legacy' = legacy
  BY DEF apply_private_installation
<1>2. seen' \in Seq(Activity)
  BY DEF apply_private_installation, Persist, InstallTypeOK
<1>3. CASE Ignored(a) /\ UNCHANGED row
  <2>1. InstallTypeOK'
    BY <1>1, <1>2, <1>3 DEF InstallTypeOK
  <2>2. row.present
    BY <1>3 DEF Ignored
  <2>3. Baseline'
    BY <1>1, <1>3, <2>2, InstallAssumption DEF Baseline, Ignored, InstallTypeOK, Activity
  <2>4. ActiveIsNewest'
    BY <1>1, <1>3, InstallAssumption DEF ActiveIsNewest, Ignored, InstallTypeOK, Baseline
  <2>5. InactiveIsRevoked'
    BY <1>1, <1>3, <2>3, InstallAssumption
    DEF InactiveIsRevoked, Ignored, InstallTypeOK, Baseline, Activity
  <2>6. LegacyNeedsRemoval'
    BY <1>1, <1>3 DEF LegacyNeedsRemoval
  <2> QED
    BY <2>1, <2>3, <2>4, <2>5, <2>6
<1>4. CASE ~Ignored(a) /\ row' = [present |-> TRUE, active |-> a.action = "add", at |-> a.at,
              route |-> IF a.action = "remove" /\ row.present THEN row.route ELSE a.route,
              revision |-> row.revision + 1]
  <2>1. InstallTypeOK'
    BY <1>1, <1>2, <1>4, InstallAssumption DEF InstallTypeOK
  <2>2. row'.present /\ row'.at = a.at /\ (row'.active <=> a.action = "add") /\ row'.at # None
    BY <1>4, InstallAssumption
  <2>3. row.at # None => row.at <= a.at /\ (row.at = a.at => a.action = "remove" /\ row.active)
    BY <1>4, InstallAssumption DEF Ignored, InstallTypeOK, Baseline
  <2>4. row.at = None => ~row.present \/ a.action = "remove"
    BY <1>4 DEF Ignored
  <2>5. \A b \in delivered : b.action = "remove" => b.at <= a.at /\ (a.action = "add" => b.at < a.at)
    BY <2>3, <2>4, InstallAssumption DEF Baseline, InstallTypeOK, Activity
  <2>6. ~legacy => \A b \in delivered : b.at <= a.at
    BY <2>3, InstallAssumption DEF Baseline, InstallTypeOK, Activity
  <2>7. Baseline'
    <3>1. \E b \in delivered' : b.at = row'.at /\ (~row'.active => b.action = "remove")
      BY <1>1, <2>2
    <3>2. (~legacy => \A b \in delivered' : b.at <= row'.at)
          /\ \A b \in delivered' : b.action = "remove" => b.at <= row'.at
      BY <1>1, <2>2, <2>5, <2>6
    <3>3. legacy => \E b \in delivered' : b.action = "remove" /\ b.at <= row'.at
      <4>1. CASE a.action = "remove"
        BY <1>1, <2>2, <4>1
      <4>2. ASSUME legacy, a.action = "add"
            PROVE  \E b \in delivered : b.action = "remove" /\ b.at <= a.at
        BY <2>3, <2>4, <2>5, <4>2 DEF Baseline
      <4> QED
        BY <1>1, <2>2, <4>1, <4>2
    <3> QED
      BY <1>1, <2>2, <3>1, <3>2, <3>3 DEF Baseline
  <2>8. ActiveIsNewest'
    <3> SUFFICES ASSUME a.action = "add" PROVE ActiveIsNewest'
      BY <2>2 DEF ActiveIsNewest
    <3>1. row'.route = a.route
      BY <1>4
    <3>2. \A b \in delivered' : b.action = "remove" => b.at < row'.at
      BY <1>1, <2>2, <2>5
    <3> QED
      BY <1>1, <2>2, <3>1, <3>2 DEF ActiveIsNewest
  <2>9. InactiveIsRevoked'
    BY <1>1, <2>2, <2>6 DEF InactiveIsRevoked
  <2>10. LegacyNeedsRemoval'
    <3> SUFFICES ASSUME legacy, a.action = "add"
                 PROVE  \E b \in delivered : b.action = "remove" /\ b.at < a.at
      BY <1>1, <2>2 DEF LegacyNeedsRemoval
    <3>1. row.at # None
      BY <2>4 DEF Baseline
    <3>2. PICK b \in delivered : b.action = "remove" /\ b.at <= row.at
      BY <3>1 DEF Baseline
    <3> QED
      BY <3>1, <3>2, <2>5
  <2> QED
    BY <2>1, <2>7, <2>8, <2>9, <2>10
<1> QED
  BY <1>3, <1>4 DEF apply_private_installation

\* Stuttering preserves the invariant.
LEMMA InstallStutter == Inv /\ UNCHANGED vars => Inv'
  BY DEF Inv, vars, InstallTypeOK, Baseline, ActiveIsNewest, InactiveIsRevoked, LegacyNeedsRemoval

\* The invariant holds in every behaviour of apply_private_installation.
THEOREM InstallInvariant == Spec => []Inv
<1>1. Inv /\ [Next]_vars => Inv'
  BY InstallStep, InstallStutter DEF Next
<1> QED
  BY InstallInit, <1>1, PTL DEF Spec

\* The installation row and its receipts stay well formed.
THEOREM InstallTypes == Spec => []InstallTypeOK
  BY InstallInvariant, PTL DEF Inv

\* No active route survives a removal that is not older than its add, in any order of
\* arrival, with any repetition and any purge of receipts.
THEOREM InstallActiveIsNewest == Spec => []ActiveIsNewest
  BY InstallInvariant, PTL DEF Inv

\* A route that is not active was revoked by an activity that nothing is newer than.
THEOREM InstallInactiveIsRevoked == Spec => []InactiveIsRevoked
  BY InstallInvariant, PTL DEF Inv

\* A migrated installation is active again only after a removal.
THEOREM InstallLegacyNeedsRemoval == Spec => []LegacyNeedsRemoval
  BY InstallInvariant, PTL DEF Inv
=============================================================================
