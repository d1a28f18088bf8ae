--------------------------- MODULE MCSessionScenes ---------------------------
(* SessionProtocol in two scenes of different bounds, for TLC.  The variable  *)
(* scene names the one a behaviour is of: handles that are opened, taken over *)
(* and closed beside another writer, with one event and no tools; or one      *)
(* handle with tools, whose backlog is full at the second event.              *)
EXTENDS MCSessionProtocol

VARIABLE scene

EventsWithin(n) ==
  /\ \A h \in DOMAIN hs' : hs'[h].produced <= n
  /\ \A k \in Key : row'[k].count <= n

NoTools == \A h \in DOMAIN hs' : \A i \in DOMAIN hs'[h].ops : hs'[h].ops[i].name # "tool"

MCInit == ProtocolInit /\ scene \in {"takeover", "backlog"}

MCNext ==
  /\ UNCHANGED scene
  /\ \/ scene = "takeover" /\ ProtocolNext /\ EventsWithin(1) /\ NoTools
     \/ /\ scene = "backlog"
        /\ \/ \E rt \in Runtime : RuntimeStep(rt)
           \/ \E h \in DOMAIN hs : HandleStep(h)
           \/ \E q \in strays : ServeStray(q)
           \/ ProtocolTick
        /\ Len(hs') <= 1

MCSpec == MCInit /\ [][MCNext]_<<allVars, scene>>
=============================================================================
