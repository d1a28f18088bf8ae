------------------------------ MODULE MCOutbox ------------------------------
(* Small instances of Outbox for TLC.                                      *)
EXTENDS Outbox, TLC

VARIABLE row   \* the one notification that is created

CONSTANTS k1, k2

\* One row for a shared channel, one for its owner.
MixedRows   == [k \in Key |-> IF k = k1 THEN "notice" ELSE "privateNotice"]

MCInit == Init /\ row \in Key
MCNext ==
  /\ Next
  /\ UNCHANGED row
  /\ \A k \in Key \ {row} : note'[k].status = "absent"
MCSpec == MCInit /\ [][MCNext]_<<vars, row>> /\ Fairness
=============================================================================
