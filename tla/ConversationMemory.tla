------------------------- MODULE ConversationMemory -------------------------
(***************************************************************************)
(* The conversation memory authority,                                       *)
(* src/cyrene_navigator/work/conversation_memory/store.py, and the routes   *)
(* of work/api.py that keep its external vector index.                      *)
(*                                                                         *)
(* Messages and memories cite one another: a message cites messages and     *)
(* exact memory versions, a memory cites at least one message and perhaps   *)
(* memories.  Reading follows the citations; revoking a source, correcting  *)
(* or deleting a memory cascades along them; every such change advances one *)
(* Workspace-wide authorization epoch.                                      *)
(*                                                                         *)
(* Every store operation is one BEGIN IMMEDIATE transaction and one action; *)
(* an exact replay or a refused request commits nothing.  The vector index  *)
(* is another service: its calls are steps of their own.                    *)
(*                                                                         *)
(* Abstractions: one Workspace; texts are left out; the immutable fields of *)
(* a message or memory are a constant function of its identity, which also  *)
(* stands for its event id or idempotency key; a revoked grant is the       *)
(* absence of a grant; the 32-deep bound on lineages is not reached.        *)
(***************************************************************************)
EXTENDS Naturals, FiniteSets

CONSTANTS
  Actor, Conv,
  KindOf,        \* [Conv -> {"direct", "group", "channel"}], bound by the host
  Persona,
  Msg,           \* event ids of messages
  Mem,           \* idempotency keys of memories
  MsgInfo,       \* owner, conversation, persona, visibility, role, artifacts
  MemInfo,       \* owner, conversation, persona, visibility
  Artifact,      \* digests of attachments
  Reader,        \* contexts [actor, conv, persona] that read
  MaxCites,      \* messages cited by one record
  MaxVersion,    \* revisions of a memory
  MaxMemClock,   \* instants
  Indexed,       \* memories whose vectors are followed
  MaxIndexCalls, \* index calls in flight
  MaxEpoch,      \* authorization epochs
  Lifetimes,     \* expiry instants that requests choose
  Grantable,     \* sources and targets that owners share
  Workspace,     \* target of a Workspace-wide grant
  NoPersona

VARIABLES
  msgs,          \* conversation_memory_messages with their source tables
  mems,          \* conversation_memory_items with their source tables
  grants,        \* active rows: [Msg -> [target -> expiry]], a partial function
  memEpoch,      \* conversation_memory_epochs
  memClock,
  vectors,       \* external: the revision whose vector the provider holds, 0
                 \* for none, and the revisions it ever took
  indexCalls,    \* index_conversation_memory calls in flight
  removals       \* memory_provider.delete calls in flight

memVars == <<msgs, mems, grants, memEpoch, memClock, vectors, indexCalls, removals>>

Visibility == {"private", "conversation", "workspace"}
Target     == Conv \cup {Workspace}
Never      == MaxMemClock + 1            \* expires_at IS NULL
Instant    == 1 .. Never
Context    == [actor : Actor, conv : Conv, persona : Persona \cup {NoPersona}]
MemRef     == Mem \X (1 .. MaxVersion)

ASSUME MemoryAssumption ==
  /\ KindOf \in [Conv -> {"direct", "group", "channel"}]
  /\ MsgInfo \in [Msg -> [actor : Actor, conv : Conv, visibility : Visibility,
                          persona : Persona \cup {NoPersona},
                          role : {"user", "assistant"}, artifacts : SUBSET Artifact]]
  /\ MemInfo \in [Mem -> [actor : Actor, conv : Conv, visibility : Visibility,
                          persona : Persona \cup {NoPersona}]]
  /\ Reader \subseteq Context /\ Indexed \subseteq Mem
  /\ Workspace \notin Conv /\ NoPersona \notin Persona
  /\ {MaxCites, MaxVersion, MaxMemClock, MaxIndexCalls, MaxEpoch} \subseteq Nat
  /\ MaxVersion > 0
  /\ Lifetimes \subseteq Instant /\ Grantable \subseteq Msg \X Target

\* The rows of a table; the loops of the cascades end because there are only so many.
ASSUME FiniteAssumption == IsFiniteSet(Msg) /\ IsFiniteSet(Mem)

(***************************************************************************)
(* Reading                                                                  *)
(***************************************************************************)
Active(m)   == msgs[m].status = "active"
Live(until) == until > memClock

\* A grant for this conversation or for the Workspace that has not expired.
Granted(s, conv) ==
  \E t \in DOMAIN grants[s] : t \in {conv, Workspace} /\ Live(grants[s][t])

PersonaFits(c, persona) ==
  \/ c.persona = NoPersona
  \/ persona = NoPersona
  \/ persona = c.persona

CanAccessSource(c, s) ==
  LET info == MsgInfo[s] IN
  /\ Active(s)
  /\ PersonaFits(c, info.persona)
  /\ \/ /\ info.actor = c.actor
        /\ info.visibility = "private" => KindOf[c.conv] = "direct"
        /\ info.visibility = "conversation" => info.conv = c.conv
     \/ Granted(s, c.conv)

\* The memory revisions that m rests on, m's current one included.
Ancestry(m) ==
  LET up[k \in 0 .. Cardinality(Mem)] ==
        IF k = 0 THEN {<<m, mems[m].version>>}
        ELSE up[k - 1] \cup UNION {mems[r[1]].parents : r \in up[k - 1]}
  IN up[Cardinality(Mem)]

\* One revision, its parents apart.
RevisionAccessible(c, r) ==
  LET info == MemInfo[r[1]] row == mems[r[1]] IN
  /\ row.state = "active" /\ row.version = r[2] /\ Live(row.until)
  /\ info.visibility = "conversation" => info.conv = c.conv
  /\ info.visibility = "private" => info.actor = c.actor /\ KindOf[c.conv] = "direct"
  /\ PersonaFits(c, info.persona)
  /\ \A s \in row.sources : CanAccessSource(c, s)

CanAccessMemory(c, m) == \A r \in Ancestry(m) : RevisionAccessible(c, r)

\* A cited memory must be accessible at the cited version.
RefAccessible(c, r) == mems[r[1]].version = r[2] /\ CanAccessMemory(c, r[1])

MessageLineageAccessible(c, m) ==
  /\ CanAccessSource(c, m)
  /\ \A s \in msgs[m].sources : CanAccessSource(c, s)
  /\ \A r \in msgs[m].memories : RefAccessible(c, r)

\* list_messages and get_message return the actor's own messages of the conversation.
VisibleMessages(c) ==
  {m \in Msg : /\ MsgInfo[m].actor = c.actor /\ MsgInfo[m].conv = c.conv
               /\ MessageLineageAccessible(c, m)}

\* Owners whose sources are granted to this conversation, and the reader.
QueryOwners(c) == {c.actor} \cup {MsgInfo[s].actor : s \in {t \in Msg : Granted(t, c.conv)}}

\* list_memories; a reader with a persona is shown that persona's memories only.
VisibleMemories(c) ==
  {m \in Mem : /\ MemInfo[m].actor \in QueryOwners(c)
               /\ c.persona # NoPersona => MemInfo[m].persona = c.persona
               /\ mems[m].state = "active" /\ CanAccessMemory(c, m)}

\* A reference of a turn: messages, and perhaps the memory revision they were read from.
SourceRef(sources, memory) == [sources |-> sources, memory |-> memory]

\* authorize_sources: the caller's epoch first, then every source and memory again; the
\* messages cited with a memory must be sources of that memory.
AuthorizeSources(c, e, refs) ==
  /\ e = memEpoch
  /\ \A ref \in refs :
       /\ \A s \in ref.sources : CanAccessSource(c, s)
       /\ \A r \in ref.memory : RefAccessible(c, r) /\ ref.sources \subseteq mems[r[1]].sources

\* authorize_artifact: the attachment must hang on one of the authorized sources, the
\* sources of a cited memory included.
AuthorizeArtifact(c, e, refs, a) ==
  /\ e = memEpoch
  /\ \A ref \in refs : /\ \A s \in ref.sources : CanAccessSource(c, s)
                       /\ \A r \in ref.memory : RefAccessible(c, r)
  /\ \E ref \in refs : \E s \in ref.sources \cup UNION {mems[r[1]].sources : r \in ref.memory} :
       a \in MsgInfo[s].artifacts

(***************************************************************************)
(* Cascades                                                                 *)
(***************************************************************************)
MessagesCiting(ss)         == {m \in Msg : msgs[m].sources \cap ss # {}}
MessagesCitingMemories(ks) == {m \in Msg : \E r \in msgs[m].memories : r[1] \in ks}
MemoriesCiting(ss)         == {k \in Mem : mems[k].sources \cap ss # {}}
MemoriesDerivedFrom(ks)    == {k \in Mem : \E r \in mems[k].parents : r[1] \in ks}

\* A single round, without the loop.
SourceRoundOnce(st) ==
  [visited |-> st.visited, pending |-> {}, messages |-> MessagesCiting(st.pending) \cup st.messages,
   memories |-> MemoriesCiting(st.pending) \cup st.memories]

\* One round of the loop of _invalidate_source_dependents.
SourceRound(st) ==
  LET current  == st.pending \ st.visited
      visited  == st.visited \cup current
      memories == MemoriesCiting(current) \ st.memories
      messages == (MessagesCiting(current) \cup MessagesCitingMemories(memories))
                    \ (st.messages \cup visited)
  IN [visited  |-> visited,
      pending  |-> messages,
      messages |-> st.messages \cup messages,
      memories |-> st.memories \cup memories \cup MemoriesDerivedFrom(memories)]

SourceDependents(s) ==
  LET round[k \in 0 .. Cardinality(Msg)] ==
        IF k = 0 THEN [visited |-> {}, pending |-> {s}, messages |-> {}, memories |-> {}]
        ELSE SourceRound(round[k - 1])
  IN round[Cardinality(Msg)]

\* _invalidate_version_dependents: memories derived from the memory, at any
\* version and any depth, and the messages that cite one of them.
DerivedMemories(k) ==
  LET down[n \in 0 .. Cardinality(Mem)] ==
        IF n = 0 THEN {k} ELSE down[n - 1] \cup MemoriesDerivedFrom(down[n - 1])
  IN down[Cardinality(Mem)] \ {k}

VersionDependents(k) ==
  [messages |-> MessagesCitingMemories({k} \cup DerivedMemories(k)),
   memories |-> DerivedMemories(k)]

Revoked(ms) == [m \in Msg |-> IF m \in ms THEN [msgs[m] EXCEPT !.status = "revoked"] ELSE msgs[m]]
Invalidated(ks) ==
  [k \in Mem |-> IF k \in ks THEN [mems[k] EXCEPT !.state = "invalidated", !.index = "pending"]
                 ELSE mems[k]]

BumpEpoch == memEpoch < MaxEpoch /\ memEpoch' = memEpoch + 1

(***************************************************************************)
(* Operations of the store                                                  *)
(***************************************************************************)
MsgContext(m) == [actor |-> MsgInfo[m].actor, conv |-> MsgInfo[m].conv, persona |-> MsgInfo[m].persona]
MemContext(k) == [actor |-> MemInfo[k].actor, conv |-> MemInfo[k].conv, persona |-> MemInfo[k].persona]

Citable(c) ==
  {ss \in SUBSET {s \in Msg : CanAccessSource(c, s)} : Cardinality(ss) <= MaxCites}
CitableMemories(c) ==
  {{}} \cup {{<<k, mems[k].version>>} : k \in {j \in Mem : mems[j].state = "active"
                                                         /\ CanAccessMemory(c, j)}}

\* Related events are the actor's own messages and join the sources.
CreateMessage(m) ==
  /\ msgs[m].status = "absent"
  /\ \E ss \in Citable(MsgContext(m)), rs \in CitableMemories(MsgContext(m)) :
       /\ MsgInfo[m].role = "user" => ss = {} /\ rs = {}
       /\ msgs' = [msgs EXCEPT ![m] = [status |-> "active", sources |-> ss, memories |-> rs]]
  /\ UNCHANGED <<mems, grants, memEpoch, memClock, vectors, indexCalls, removals>>

\* create_memory needs a source message; the route then indexes the record.
CreateMemory(k) ==
  /\ mems[k].state = "absent"
  /\ \E ss \in Citable(MemContext(k)) \ {{}}, rs \in CitableMemories(MemContext(k)),
        until \in Lifetimes :
       mems' = [mems EXCEPT ![k] = [state |-> "active", version |-> 1, index |-> "pending",
                                    epoch |-> memEpoch, until |-> until,
                                    sources |-> ss, parents |-> rs]]
  /\ UNCHANGED <<msgs, grants, memEpoch, memClock, vectors, indexCalls, removals>>

UpdateMemory(k) ==
  LET dep == VersionDependents(k) IN
  /\ mems[k].state = "active" /\ mems[k].version < MaxVersion
  /\ msgs' = Revoked(dep.messages)
  /\ \E until \in {mems[k].until, Never} :
       mems' = [Invalidated(dep.memories) EXCEPT
                  ![k] = [mems[k] EXCEPT !.version = @ + 1, !.index = "pending",
                                         !.epoch = memEpoch + 1, !.until = until]]
  /\ BumpEpoch
  /\ removals' = removals \cup (Indexed \cap dep.memories)
  /\ UNCHANGED <<grants, memClock, vectors, indexCalls>>

DeleteMemory(k) ==
  LET dep == VersionDependents(k) IN
  /\ mems[k].state = "active"
  /\ msgs' = Revoked(dep.messages)
  /\ mems' = [Invalidated(dep.memories) EXCEPT
                ![k] = [mems[k] EXCEPT !.state = "deleted", !.index = "pending",
                                       !.epoch = memEpoch + 1]]
  /\ BumpEpoch
  /\ removals' = removals \cup (Indexed \cap (dep.memories \cup {k}))
  /\ UNCHANGED <<grants, memClock, vectors, indexCalls>>

\* A grant that expired is replaced, a live one with another expiry conflicts.
GrantSource(s, t) ==
  /\ Active(s)
  /\ t \in DOMAIN grants[s] => ~Live(grants[s][t])
  /\ \E until \in Lifetimes :
       grants' = [grants EXCEPT ![s] = [x \in DOMAIN grants[s] \cup {t} |->
                                          IF x = t THEN until ELSE grants[s][x]]]
  /\ BumpEpoch
  /\ UNCHANGED <<msgs, mems, memClock, vectors, indexCalls, removals>>

WithoutGrant(s, t) == [grants EXCEPT ![s] = [x \in DOMAIN grants[s] \ {t} |-> grants[s][x]]]

\* The grant is revoked and the epoch kept.
RevokeSourceGrantQuietly(s, t) ==
  /\ t \in DOMAIN grants[s]
  /\ grants' = WithoutGrant(s, t)
  /\ UNCHANGED <<msgs, mems, memEpoch, memClock, vectors, indexCalls, removals>>

RevokeSourceGrant(s, t) ==
  /\ t \in DOMAIN grants[s]
  /\ grants' = WithoutGrant(s, t)
  /\ BumpEpoch
  /\ UNCHANGED <<msgs, mems, memClock, vectors, indexCalls, removals>>

\* The last update of the transaction stamps every memory that cites the source,
\* whatever its state.
RevokeSource(s) ==
  LET dep == SourceDependents(s)
      out == dep.memories \cup MemoriesCiting({s})
  IN
  /\ Active(s)
  /\ msgs' = Revoked({s} \cup dep.messages \cup MessagesCiting({s}))
  /\ mems' = [k \in Mem |->
                IF k \in MemoriesCiting({s}) THEN [Invalidated(out)[k] EXCEPT !.epoch = memEpoch + 1]
                ELSE Invalidated(out)[k]]
  /\ grants' = [grants EXCEPT ![s] = [x \in {} |-> Never]]
  /\ BumpEpoch
  /\ removals' = removals \cup (Indexed \cap dep.memories)
  /\ UNCHANGED <<memClock, vectors, indexCalls>>

(***************************************************************************)
(* The vector index                                                         *)
(***************************************************************************)
\* get_memory_for_index reads the current revision, outside any transaction.
\* A repeated create and every update start such a call.
BeginIndex(k) ==
  /\ mems[k].state = "active"
  /\ k \in Indexed /\ Cardinality(indexCalls) < MaxIndexCalls
  /\ indexCalls' = indexCalls \cup {[mem |-> k, version |-> mems[k].version, sent |-> FALSE]}
  /\ UNCHANGED <<msgs, mems, grants, memEpoch, memClock, vectors, removals>>

\* external: provider.upsert replaces whatever vector the memory had.
Upsert(call) ==
  /\ ~call.sent
  /\ vectors' = [vectors EXCEPT ![call.mem] =
                   [now |-> call.version, taken |-> vectors[call.mem].taken \cup {call.version}]]
  /\ indexCalls' = (indexCalls \ {call}) \cup {[call EXCEPT !.sent = TRUE]}
  /\ UNCHANGED <<msgs, mems, grants, memEpoch, memClock, removals>>

SetIndexStateAnyVersion(k, version, state) ==
  IF mems[k].state = "active" THEN [mems EXCEPT ![k] = [mems[k] EXCEPT !.index = state]] ELSE mems

\* set_index_state writes only the exact version, and only while it is active.
SetIndexState(k, version, state) ==
  IF mems[k].version = version /\ mems[k].state = "active"
    THEN [mems EXCEPT ![k] = [mems[k] EXCEPT !.index = state]]
    ELSE mems

\* A call that did not reach the provider ends as failed or unavailable; one whose
\* answer was lost ends as failed although the provider took the vector.
EndIndex(call) ==
  /\ \E state \in {"failed"} \cup IF call.sent THEN {"indexed"} ELSE {"unavailable"} :
       mems' = SetIndexState(call.mem, call.version, state)
  /\ indexCalls' = indexCalls \ {call}
  /\ UNCHANGED <<msgs, grants, memEpoch, memClock, vectors, removals>>

\* The delete calls of the routes; a failure is only logged.
ProviderDelete(k) ==
  /\ k \in removals
  /\ removals' = removals \ {k}
  /\ vectors' \in {vectors, [vectors EXCEPT ![k].now = 0]}
  /\ UNCHANGED <<msgs, mems, grants, memEpoch, memClock, indexCalls>>

MemoryTick ==
  /\ memClock < MaxMemClock
  /\ memClock' = memClock + 1
  /\ UNCHANGED <<msgs, mems, grants, memEpoch, vectors, indexCalls, removals>>

MemoryInit ==
  /\ msgs = [m \in Msg |-> [status |-> "absent", sources |-> {}, memories |-> {}]]
  /\ mems = [k \in Mem |-> [state |-> "absent", version |-> 0, index |-> "pending", epoch |-> 0,
                            until |-> Never, sources |-> {}, parents |-> {}]]
  /\ grants = [m \in Msg |-> [x \in {} |-> Never]]
  /\ memEpoch = 0 /\ memClock = 0
  /\ vectors = [k \in Mem |-> [now |-> 0, taken |-> {}]]
  /\ indexCalls = {} /\ removals = {}

MemoryNext ==
  \/ \E m \in Msg : CreateMessage(m) \/ RevokeSource(m)
  \/ \E g \in Grantable : GrantSource(g[1], g[2]) \/ RevokeSourceGrant(g[1], g[2])
  \/ \E k \in Mem : CreateMemory(k) \/ UpdateMemory(k) \/ DeleteMemory(k)
                    \/ BeginIndex(k) \/ ProviderDelete(k)
  \/ \E call \in indexCalls : Upsert(call) \/ EndIndex(call)
  \/ MemoryTick

MemorySpec == MemoryInit /\ [][MemoryNext]_memVars

(***************************************************************************)
(* Properties                                                               *)
(***************************************************************************)
MemoryTypeOK ==
  /\ msgs \in [Msg -> [status : {"absent", "active", "revoked"},
                       sources : SUBSET Msg, memories : SUBSET MemRef]]
  /\ mems \in [Mem -> [state : {"absent", "active", "invalidated", "deleted"},
                       version : 0 .. MaxVersion,
                       index : {"pending", "indexed", "failed", "unavailable"},
                       epoch : Nat, until : Instant, sources : SUBSET Msg, parents : SUBSET MemRef]]
  /\ \A s \in Msg : DOMAIN grants[s] \subseteq Target /\ \A t \in DOMAIN grants[s] : grants[s][t] \in Instant
  /\ memEpoch \in Nat /\ memClock \in 0 .. MaxMemClock
  /\ vectors \in [Mem -> [now : 0 .. MaxVersion, taken : SUBSET (1 .. MaxVersion)]]
  /\ indexCalls \subseteq [mem : Mem, version : 1 .. MaxVersion, sent : BOOLEAN]
  /\ removals \subseteq Mem

\* What a reader may cite, is shown, and may open.
Usable(c) ==
  {s \in Msg : AuthorizeSources(c, memEpoch, {SourceRef({s}, {})})}
    \cup {k \in Mem : AuthorizeSources(c, memEpoch, {SourceRef(mems[k].sources, {<<k, mems[k].version>>})})}
Shown(c) == VisibleMessages(c) \cup VisibleMemories(c)
Openable(c) ==
  {a \in Artifact : \E s \in Msg : AuthorizeArtifact(c, memEpoch, {SourceRef({s}, {})}, a)}

\* The epoch a turn was assembled under stands for everything it read: whatever takes
\* a source, a memory or an attachment away from a reader, or hides a message it was
\* shown, other than the passing of time, advances the epoch, so that
\* authorize_sources refuses the older one.
EpochGuards ==
  [][\/ UNCHANGED <<msgs, mems, grants, memClock>>
     \/ memEpoch' > memEpoch \/ memClock' > memClock
     \/ \A c \in Reader : /\ Usable(c) \subseteq Usable(c)' /\ Shown(c) \subseteq Shown(c)'
                         /\ Openable(c) \subseteq Openable(c)']_memVars

\* The messages that rest on s through messages alone.
RestsOn(s) ==
  LET down[n \in 0 .. Cardinality(Msg)] ==
        IF n = 0 THEN {s} ELSE down[n - 1] \cup MessagesCiting(down[n - 1])
  IN down[Cardinality(Msg)]

\* Revoking a message that cites no memory reaches everything that rests on it
\* through messages: no such message and no memory citing one stays active,
\* however the chain grew and whatever was revoked before.
RevocationReaches ==
  \A s \in Msg : msgs[s].status = "revoked" /\ msgs[s].memories = {} =>
    /\ \A m \in RestsOn(s) : ~Active(m)
    /\ \A k \in MemoriesCiting(RestsOn(s)) : mems[k].state # "active"

\* A record says indexed only if the provider took that very revision: a call that
\* was overtaken by a correction is not credited to the corrected text, and no late
\* delete call removes the vector of an active record.
IndexIsHonest ==
  \A k \in Mem : mems[k].state = "active" /\ mems[k].index = "indexed" =>
    mems[k].version \in vectors[k].taken /\ vectors[k].now # 0

Cites(x) ==
  IF x \in Msg THEN msgs[x].sources \cup {r[1] : r \in msgs[x].memories}
  ELSE mems[x].sources \cup {r[1] : r \in mems[x].parents}

\* Everything a record rests on, through messages and memories.
Evidence(x) ==
  LET n == Cardinality(Msg) + Cardinality(Mem)
      up[i \in 0 .. n] == IF i = 0 THEN {x} ELSE up[i - 1] \cup UNION {Cites(y) : y \in up[i - 1]}
  IN up[n]

\* "Revoke one owned source and recursively invalidate its derived content."
\* (revoke_source): no message that is shown rests on a user's message that was revoked.
RevocationIsRecursive ==
  \A c \in Reader : \A m \in VisibleMessages(c) : \A s \in Evidence(m) \cap Msg :
    ~(MsgInfo[s].role = "user" /\ msgs[s].status = "revoked")
=============================================================================
