-------------------------- MODULE MCSessionProtocol --------------------------
(* Small instances of SessionProtocol for TLC.                             *)
EXTENDS SessionProtocol, TLC

CONSTANTS a1, a2

MCActorOf == [p \in Principal |-> IF p \in Runtime THEN a1 ELSE a2]
MCOrgOf   == [p \in Principal |-> NoOrg]
MCBatchId == BoundedBatch
=============================================================================
