---------------------------- MODULE ArtifactCalls ----------------------------
(***************************************************************************)
(* Attachment access bound to one provider call: the in-memory registry of *)
(* live calls (conversation_artifact_bridge/registry.py), the read and     *)
(* write routes a plugin uses while its call is open (routes.py of the     *)
(* bridge), and the host that opens a call under a Work operation or a     *)
(* Task, checks what comes back and settles the operation                  *)
(* (conversation_peripheral/routes.py).                                    *)
(*                                                                         *)
(* A call is found by the exact arguments and signed context it was        *)
(* registered with, so its provider can reach no other entry; two calls    *)
(* may carry the same request id when they name different tools; a tool    *)
(* either reads its input or writes its output, so its mode stands for it. *)
(***************************************************************************)
EXTENDS Integers, FiniteSets

CONSTANTS
  Call,        \* provider calls the host makes
  NoCall,
  RequestId,   \* request ids
  Writing,     \* write requests a plugin makes
  ArtifactDigest, \* attachment digests
  NoDigest,
  MaxOutputs,  \* outputs of one call (4 in the code)
  MaxCalls     \* calls the registry holds (2048 in the code)

ASSUME ArtifactAssumption ==
  NoCall \notin Call /\ NoDigest \notin ArtifactDigest /\ MaxOutputs \in Nat /\ MaxCalls \in Nat

VARIABLES
  host,     \* call -> where its host stands, its request id, anchor kind and mode
  anchor,   \* call -> state of the Work operation or Task it is anchored in
  entry,    \* call -> the registry's record: revoked, recorded outputs, reservations
  calls,    \* request id -> the call registered under it
  lapsed,   \* calls whose lease has expired
  sources,  \* the source authorization epoch the read grants were made under is current
  writing,  \* write request -> where it stands, its call and its digest
  shelf     \* digests stored as attachments

artifactVars == <<host, anchor, entry, calls, lapsed, sources, writing, shelf>>

NewHost == [at |-> "new", request |-> NoCall, kind |-> "none", mode |-> "none", digest |-> NoDigest]
NewEntry == [revoked |-> FALSE, outputs |-> {}, pending |-> {}]
NewWriting == [at |-> "idle", call |-> NoCall, digest |-> NoDigest]

ArtifactInit ==
  /\ host = [c \in Call |-> NewHost]
  /\ anchor = [c \in Call |-> "none"]
  /\ entry = [c \in Call |-> NewEntry]
  /\ calls = [r \in RequestId |-> NoCall]
  /\ lapsed = {}
  /\ sources = TRUE
  /\ writing = [w \in Writing |-> NewWriting]
  /\ shelf = {}

-----------------------------------------------------------------------------
(* The registry.                                                           *)

Dropped(c) == c \in lapsed \/ (c \in Call /\ entry[c].revoked)
Purged(t) == [r \in RequestId |-> IF Dropped(t[r]) THEN NoCall ELSE t[r]]
Registered(c) == host[c].request \in RequestId /\ calls[host[c].request] = c /\ ~entry[c].revoked

\* The Task is running, or the operation is started with these arguments.
AnchorHolds(c) == anchor[c] = "live"

\* _assert_current
Current(c) == Registered(c) /\ c \notin lapsed /\ AnchorHolds(c)

\* _assert_current with a read grant: a Task's grant asks the sources again, a
\* human's selection does not.
MayRead(c) == Current(c) /\ host[c].mode = "read" /\ (host[c].kind = "task" => sources)

\* The first look, at the recorded outputs alone.
Room(e) == Cardinality(e.outputs) < MaxOutputs

\* A reservation is granted while recorded and reserved outputs leave room.
HasRoom(e) == Cardinality(e.outputs) + Cardinality(e.pending) < MaxOutputs

\* A revocation by request id alone.
RevokesAny(c) == calls[host[c].request] # NoCall

\* revoke: by a lease, only the entry of that lease.
Revokes(c) == calls[host[c].request] = c

-----------------------------------------------------------------------------
(* The host.                                                               *)

HostOnly == UNCHANGED <<sources, writing, shelf>>
HostAt(c, at) == host' = [host EXCEPT ![c].at = at]

\* A media call records its operation first, once for a request id and tool.
OpenOperation(c, r, mode) ==
  /\ host[c].at = "new"
  /\ ~\E b \in Call : host[b].kind = "operation" /\ host[b].request = r /\ host[b].mode = mode
  /\ host' = [host EXCEPT ![c] = [@ EXCEPT !.at = "opened", !.request = r, !.kind = "operation", !.mode = mode]]
  /\ anchor' = [anchor EXCEPT ![c] = "live"]
  /\ UNCHANGED <<entry, calls, lapsed>> /\ HostOnly

\* A call of the research runtime is anchored in its running Task, under a new id.
OpenTaskCall(c, r) ==
  /\ host[c].at = "new"
  /\ \A b \in Call : host[b].request # r
  /\ host' = [host EXCEPT ![c] = [@ EXCEPT !.at = "opened", !.request = r, !.kind = "task", !.mode = "read"]]
  /\ anchor' = [anchor EXCEPT ![c] = "live"]
  /\ UNCHANGED <<entry, calls, lapsed>> /\ HostOnly

MayRegister(c, t) ==
  /\ AnchorHolds(c)
  /\ t[host[c].request] = NoCall
  /\ Cardinality({r \in RequestId : t[r] # NoCall}) < MaxCalls

Register(c) ==
  /\ host[c].at = "opened"
  /\ LET t == Purged(calls) IN
     /\ MayRegister(c, t)
     /\ calls' = [t EXCEPT ![host[c].request] = c]
  /\ HostAt(c, "registered")
  /\ UNCHANGED <<anchor, entry, lapsed>> /\ HostOnly

\* The operation of a call is settled; a Task goes on.
Settled(c) == [anchor EXCEPT ![c] = IF host[c].kind = "operation" THEN "ended" ELSE @]

\* A refused registration settles the operation as rejected.
RegisterRefused(c) ==
  /\ host[c].at = "opened"
  /\ ~MayRegister(c, Purged(calls))
  /\ calls' = Purged(calls)
  /\ anchor' = Settled(c)
  /\ HostAt(c, "rejected")
  /\ UNCHANGED <<entry, lapsed>> /\ HostOnly

\* The provider answers, naming any attachment it likes.
ProviderReturns(c, d) ==
  /\ host[c].at = "registered"
  /\ host' = [host EXCEPT ![c] = [@ EXCEPT !.at = "returned", !.digest = d]]
  /\ UNCHANGED <<anchor, entry, calls, lapsed>> /\ HostOnly

\* A digest that is stored, whoever stored it.
StoredOutput(c) == host[c].digest \in shelf

\* What a returned digest must be: bytes this very call wrote.
OwnOutput(c) == host[c].digest \in entry[c].outputs

AssertOutput(c) ==
  /\ host[c].at = "returned" /\ host[c].mode = "write"
  /\ Current(c)
  /\ OwnOutput(c)
  /\ HostAt(c, "asserted")
  /\ UNCHANGED <<anchor, entry, calls, lapsed>> /\ HostOnly

AssertCallCurrent(c) ==
  /\ \/ host[c].at = "asserted"
     \/ host[c].at = "returned" /\ host[c].mode = "read"
  /\ Current(c)
  /\ HostAt(c, "confirmed")
  /\ UNCHANGED <<anchor, entry, calls, lapsed>> /\ HostOnly

Publish(c) ==
  /\ host[c].at = "confirmed" /\ (host[c].kind = "operation" => AnchorHolds(c))
  /\ anchor' = Settled(c)
  /\ HostAt(c, "published")
  /\ UNCHANGED <<entry, calls, lapsed>> /\ HostOnly

\* Any error, timeout or cancellation after admission: the result is unknown.
CallFails(c) ==
  /\ host[c].at \in {"registered", "returned", "asserted", "confirmed"}
  /\ anchor' = Settled(c)
  /\ HostAt(c, "unknown")
  /\ UNCHANGED <<entry, calls, lapsed>> /\ HostOnly

Close(c) ==
  /\ host[c].at \in {"published", "unknown"}
  /\ LET hit == Revokes(c) b == calls[host[c].request] IN
     /\ entry' = IF hit THEN [entry EXCEPT ![b].revoked = TRUE] ELSE entry
     /\ calls' = IF hit THEN [calls EXCEPT ![host[c].request] = NoCall] ELSE calls
  /\ HostAt(c, IF host[c].at = "published" THEN "closed" ELSE "failed")
  /\ UNCHANGED <<anchor, lapsed>> /\ HostOnly

\* The Task of a call ends; revoke_task_calls drops its entry.
TaskEnds(c) ==
  /\ host[c].kind = "task" /\ anchor[c] = "live"
  /\ anchor' = [anchor EXCEPT ![c] = "ended"]
  /\ UNCHANGED <<host, entry, calls, lapsed>> /\ HostOnly

RevokeTaskCalls(c) ==
  /\ host[c].kind = "task" /\ anchor[c] = "ended" /\ calls[host[c].request] = c
  /\ entry' = [entry EXCEPT ![c].revoked = TRUE]
  /\ calls' = [calls EXCEPT ![host[c].request] = NoCall]
  /\ UNCHANGED <<host, anchor, lapsed>> /\ HostOnly

Lapse(c) ==
  /\ host[c].at \in {"registered", "returned", "asserted"} /\ c \notin lapsed
  /\ lapsed' = lapsed \union {c}
  /\ UNCHANGED <<host, anchor, entry, calls>> /\ HostOnly

SourcesChange ==
  /\ sources /\ sources' = FALSE
  /\ UNCHANGED <<host, anchor, entry, calls, lapsed, writing, shelf>>

-----------------------------------------------------------------------------
(* The bridge routes. Each check and the step after it are apart.          *)

BridgeOnly == UNCHANGED <<host, anchor, lapsed, sources>>
Moves(w, at) == writing' = [writing EXCEPT ![w].at = at]

\* A read is authorized, the bytes are read, and they leave after one more check.
AuthorizeRead(w, c, d) ==
  /\ writing[w].at = "idle"
  /\ MayRead(c) /\ d \in shelf
  /\ writing' = [writing EXCEPT ![w] = [at |-> "reading", call |-> c, digest |-> d]]
  /\ calls' = Purged(calls)
  /\ UNCHANGED <<entry, shelf>> /\ BridgeOnly

ReadArtifact(w) ==
  /\ writing[w].at = "reading"
  /\ Moves(w, IF MayRead(writing[w].call) THEN "read" ELSE "failed")
  /\ UNCHANGED <<entry, calls, shelf>> /\ BridgeOnly

AuthorizeWrite(w, c, d) ==
  /\ writing[w].at = "idle"
  /\ host[c].mode = "write" /\ Current(c)
  /\ Room(entry[c])
  /\ writing' = [writing EXCEPT ![w] = [at |-> "authorized", call |-> c, digest |-> d]]
  /\ calls' = Purged(calls)
  /\ UNCHANGED <<entry, shelf>> /\ BridgeOnly

Reserve(w) ==
  LET c == writing[w].call IN
  /\ writing[w].at = "authorized"
  /\ Registered(c) /\ HasRoom(entry[c])
  /\ entry' = [entry EXCEPT ![c].pending = @ \union {w}]
  /\ Moves(w, "reserved")
  /\ UNCHANGED <<calls, shelf>> /\ BridgeOnly

WriteArtifact(w) ==
  /\ writing[w].at = "reserved"
  /\ Current(writing[w].call)
  /\ Moves(w, "checked")
  /\ UNCHANGED <<entry, calls, shelf>> /\ BridgeOnly

PutAttachment(w) ==
  /\ writing[w].at = "checked"
  /\ shelf' = shelf \union {writing[w].digest}
  /\ Moves(w, "stored")
  /\ UNCHANGED <<entry, calls>> /\ BridgeOnly

\* The reservation is used up even when the output is refused.
OutputRecorded(e, w, d) ==
  [e EXCEPT !.pending = @ \ {w},
            !.outputs = IF Cardinality(@) < MaxOutputs THEN @ \union {d} ELSE @]

RecordOutput(w) ==
  LET c == writing[w].call IN
  /\ writing[w].at = "stored"
  /\ Current(c) /\ w \in entry[c].pending
  /\ entry' = [entry EXCEPT ![c] = OutputRecorded(@, w, writing[w].digest)]
  /\ Moves(w, IF writing[w].digest \in entry'[c].outputs THEN "recorded" ELSE "failed")
  /\ UNCHANGED <<calls, shelf>> /\ BridgeOnly

\* A failed write gives its reservation back.
ReleaseOutput(w) ==
  LET c == writing[w].call IN
  /\ writing[w].at \in {"authorized", "reserved", "checked", "stored"}
  /\ entry' = [entry EXCEPT ![c].pending = @ \ {w}]
  /\ Moves(w, "failed")
  /\ UNCHANGED <<calls, shelf>> /\ BridgeOnly

\* Someone stores an attachment outside any call.
StoreElsewhere(d) ==
  /\ d \notin shelf
  /\ shelf' = shelf \union {d}
  /\ UNCHANGED <<entry, calls, writing>> /\ BridgeOnly

HostNext ==
  \E c \in Call :
    \/ \E r \in RequestId :
         \/ \E mode \in {"read", "write"} : OpenOperation(c, r, mode)
         \/ OpenTaskCall(c, r)
    \/ Register(c) \/ RegisterRefused(c)
    \/ \E d \in ArtifactDigest : ProviderReturns(c, d)
    \/ AssertOutput(c) \/ AssertCallCurrent(c) \/ Publish(c) \/ CallFails(c) \/ Close(c)
    \/ TaskEnds(c) \/ RevokeTaskCalls(c) \/ Lapse(c)

BridgeNext ==
  \/ \E w \in Writing :
       \/ \E c \in Call, d \in ArtifactDigest : AuthorizeRead(w, c, d) \/ AuthorizeWrite(w, c, d)
       \/ ReadArtifact(w) \/ Reserve(w) \/ WriteArtifact(w) \/ PutAttachment(w)
       \/ RecordOutput(w) \/ ReleaseOutput(w)
  \/ SourcesChange
  \/ \E d \in ArtifactDigest : StoreElsewhere(d)

ArtifactNext == HostNext \/ BridgeNext
ArtifactSpec == ArtifactInit /\ [][ArtifactNext]_artifactVars

-----------------------------------------------------------------------------
(* Properties.                                                             *)

\* Concurrent writes of one call never fill more than its output slots, counting
\* the writes that hold a reservation: authorize_write looks at the recorded outputs
\* before it asks the store and reserves after it, with the lock released between.
SlotsHold ==
  \A c \in Call : Cardinality(entry[c].outputs) + Cardinality(entry[c].pending) <= MaxOutputs

\* A published media result names an attachment that a write of the same call
\* stored and recorded, never one that merely exists.
PublishedIsOwn ==
  \A c \in Call : (host[c].mode = "write" /\ host[c].at \in {"published", "closed"}) =>
    /\ host[c].digest \in shelf
    /\ \E w \in Writing : writing[w] = [at |-> "recorded", call |-> c, digest |-> host[c].digest]

\* An open call is only taken from the registry by its own host, its Task or its
\* expiry. The late close of an earlier call with the same request id leaves it
\* alone (revoke compares the lease).
OpenCallStays ==
  \A c \in Call :
    (host[c].at \in {"registered", "returned", "asserted", "confirmed"} /\ AnchorHolds(c) /\ c \notin lapsed)
      => Registered(c)
=============================================================================
