--------------------------- MODULE MCSessionStore ---------------------------
(* Small instances of SessionStore for TLC.                                *)
EXTENDS SessionStore, TLC

CONSTANTS p1, p2, p3, a1, a2

\* p1 and p3 are the same actor with and without actor_private_scope; p2 is an
\* administrator acting for somebody else.
MCActorOf == [p \in Principal |-> IF p = p2 THEN a2 ELSE a1]
MCOrgOf   == [p \in Principal |-> NoOrg]
MCLegacy  == {NoOrg} \X Session
=============================================================================
