-------------------------- MODULE ConversationProofs --------------------------
(***************************************************************************)
(* Proofs about the conversation stores, for any messages, memories,        *)
(* candidates, jobs and archives.  The components share no state, so each   *)
(* has an inductive invariant of its own.                                   *)
(***************************************************************************)
EXTENDS ConversationMemory, ConversationDomains, BackgroundJobs, ConversationMigration,
        BilibiliSubscriptions, FiniteSetTheorems, WellFoundedInduction, TLAPS

(***************************************************************************)
(* Memory and its vector index                                              *)
(*                                                                         *)
(* A cascade only ever takes records away: whatever set it computes, a      *)
(* record is left as it was or loses its state for good.  So the proof of   *)
(* MemInv does not follow the cascade, only what it writes; the last two    *)
(* sections do, for what a revocation reaches and what a reader keeps.      *)
(***************************************************************************)
MsgRow == [status : {"absent", "active", "revoked"}, sources : SUBSET Msg, memories : SUBSET MemRef]
MemRow == [state : {"absent", "active", "invalidated", "deleted"}, version : 0 .. MaxVersion,
           index : {"pending", "indexed", "failed", "unavailable"}, epoch : Nat, until : Instant,
           sources : SUBSET Msg, parents : SUBSET MemRef]

\* A delete call is only under way for a record that will never be active again.
RemovalsOfTheDead == \A k \in removals : mems[k].state \in {"invalidated", "deleted"}

\* A call that reached the provider left its revision there, unless the record died.
SentWasTaken ==
  \A c \in indexCalls :
    /\ mems[c.mem].state # "absent"
    /\ c.sent => /\ c.version \in vectors[c.mem].taken
                 /\ mems[c.mem].state = "active" => vectors[c.mem].now # 0

\* A record that is active has a revision.
ActiveHasVersion == \A k \in Mem : mems[k].state = "active" => mems[k].version > 0

MemInv ==
  /\ MemoryTypeOK /\ DOMAIN grants = Msg /\ ActiveHasVersion
  /\ RemovalsOfTheDead /\ SentWasTaken /\ IndexIsHonest

\* An invalidated row keeps its shape.
LEMMA InvalidatedRow ==
  ASSUME NEW row \in MemRow
  PROVE  /\ [row EXCEPT !.state = "invalidated", !.index = "pending"] \in MemRow
         /\ [row EXCEPT !.state = "invalidated", !.index = "pending"].state = "invalidated"
         /\ [row EXCEPT !.state = "invalidated", !.index = "pending"].index = "pending"
  BY DEF MemRow

\* Invalidating a set of memories touches exactly these.
LEMMA InvalidatedRows ==
  ASSUME mems \in [Mem -> MemRow], NEW ks
  PROVE  /\ Invalidated(ks) \in [Mem -> MemRow]
         /\ \A j \in Mem \cap ks : Invalidated(ks)[j].state = "invalidated"
                                   /\ Invalidated(ks)[j].index = "pending"
         /\ \A j \in Mem \ ks : Invalidated(ks)[j] = mems[j]
<1>1. \A j \in Mem : mems[j] \in MemRow
  OBVIOUS
<1>2. \A j \in Mem : j \in ks => /\ Invalidated(ks)[j] \in MemRow
                                /\ Invalidated(ks)[j].state = "invalidated"
                                /\ Invalidated(ks)[j].index = "pending"
  BY <1>1, InvalidatedRow DEF Invalidated
<1>3. \A j \in Mem : j \notin ks => Invalidated(ks)[j] = mems[j]
  BY DEF Invalidated
<1>4. Invalidated(ks) = [j \in Mem |-> Invalidated(ks)[j]]
  BY DEF Invalidated
<1> QED BY <1>1, <1>2, <1>3, <1>4

\* Revoking a set of messages keeps the table's shape.
LEMMA RevokedRows ==
  ASSUME msgs \in [Msg -> MsgRow], NEW ms
  PROVE  Revoked(ms) \in [Msg -> MsgRow]
  BY DEF Revoked, MsgRow

\* The tables in parts, as the steps below use them.
LEMMA MemTypes ==
  MemoryTypeOK <=>
    /\ msgs \in [Msg -> MsgRow] /\ mems \in [Mem -> MemRow]
    /\ \A s \in Msg : DOMAIN grants[s] \subseteq Target /\ \A t \in DOMAIN grants[s] : grants[s][t] \in Instant
    /\ memEpoch \in Nat /\ memClock \in 0 .. MaxMemClock
    /\ vectors \in [Mem -> [now : 0 .. MaxVersion, taken : SUBSET (1 .. MaxVersion)]]
    /\ indexCalls \subseteq [mem : Mem, version : 1 .. MaxVersion, sent : BOOLEAN]
    /\ removals \subseteq Mem
  BY DEF MemoryTypeOK, MsgRow, MemRow

\* An empty store satisfies the invariant.
LEMMA MemInitially == MemoryInit => MemInv
  BY MemoryAssumption
  DEF MemoryInit, MemInv, MemoryTypeOK, ActiveHasVersion, RemovalsOfTheDead, SentWasTaken,
      IndexIsHonest, Instant, Never, Target

\* The rows a cascade and a change of k leave: k's new row, and the others as they
\* were or invalidated.  Delete calls start for dead records only.
LEMMA CascadeStep ==
  ASSUME MemInv, MemoryTypeOK', DOMAIN grants' = Msg,
         UNCHANGED <<vectors, indexCalls>>,
         \A j \in Mem : \/ mems'[j] = mems[j]
                        \/ mems'[j].state \in {"invalidated", "deleted"}
                        \/ /\ mems[j].state \in {"absent", "active"} /\ mems'[j].state = "active"
                           /\ mems'[j].index = "pending" /\ mems'[j].version > 0,
         \A j \in removals' \ removals : mems'[j].state \in {"invalidated", "deleted"}
  PROVE  MemInv'
<1>1. RemovalsOfTheDead'
  BY DEF MemInv, MemoryTypeOK, RemovalsOfTheDead
<1>2. SentWasTaken'
  BY SMTT(40) DEF MemInv, MemoryTypeOK, SentWasTaken
<1>3. IndexIsHonest' /\ ActiveHasVersion'
  BY DEF MemInv, IndexIsHonest, ActiveHasVersion
<1> QED BY <1>1, <1>2, <1>3 DEF MemInv

\* What a request may cite has the shape of citations.
LEMMA CitableTypes ==
  ASSUME MemInv, NEW c
  PROVE  Citable(c) \subseteq SUBSET Msg /\ CitableMemories(c) \subseteq SUBSET MemRef
<1>1. Citable(c) \subseteq SUBSET Msg
  BY DEF Citable
<1>2. \A j \in Mem : mems[j].state = "active" => <<j, mems[j].version>> \in MemRef
  BY MemoryAssumption DEF MemInv, MemoryTypeOK, ActiveHasVersion, MemRef
<1>3. CitableMemories(c) \subseteq SUBSET MemRef
  BY <1>2 DEF CitableMemories
<1> QED BY <1>1, <1>3

\* A new message is no memory and starts no call (create_message).
LEMMA CreateMessageStep ==
  ASSUME MemInv, NEW m \in Msg, CreateMessage(m)
  PROVE  MemInv'
<1>1. PICK new \in MsgRow : msgs' = [msgs EXCEPT ![m] = new]
  BY CitableTypes, ZenonT(60) DEF CreateMessage, MsgRow
<1>2. MemoryTypeOK'
  BY <1>1, MemTypes DEF MemInv, CreateMessage, MemoryTypeOK, MsgRow
<1> QED BY <1>2, CascadeStep DEF CreateMessage, MemInv

\* A new memory is pending in the index at version 1 (create_memory).
LEMMA CreateMemoryStep ==
  ASSUME MemInv, NEW k \in Mem, CreateMemory(k)
  PROVE  MemInv'
<1>1. PICK new \in MemRow : /\ mems' = [mems EXCEPT ![k] = new]
                            /\ new.state = "active" /\ new.index = "pending" /\ new.version > 0
  <2>1. PICK ss \in Citable(MemContext(k)) \ {{}}, rs \in CitableMemories(MemContext(k)),
             until \in Lifetimes :
          mems' = [mems EXCEPT ![k] = [state |-> "active", version |-> 1, index |-> "pending",
                                       epoch |-> memEpoch, until |-> until,
                                       sources |-> ss, parents |-> rs]]
    BY DEF CreateMemory
  <2>2. /\ ss \in SUBSET Msg /\ rs \in SUBSET MemRef /\ until \in Instant
        /\ memEpoch \in Nat /\ 1 \in 0 .. MaxVersion
    BY CitableTypes, MemoryAssumption DEF MemInv, MemoryTypeOK
  <2> DEFINE new == [state |-> "active", version |-> 1, index |-> "pending", epoch |-> memEpoch,
                     until |-> until, sources |-> ss, parents |-> rs]
  <2>3. new \in MemRow /\ new.state = "active" /\ new.index = "pending" /\ new.version > 0
    BY <2>2 DEF MemRow
  <2>4. mems' = [mems EXCEPT ![k] = new]
    BY <2>1
  <2> HIDE DEF new
  <2> QED BY <2>3, <2>4
<1>2. MemoryTypeOK'
  BY <1>1 DEF MemInv, CreateMemory, MemoryTypeOK, MemRow
<1>3. mems[k].state = "absent" /\ mems \in [Mem -> MemRow] /\ UNCHANGED <<vectors, indexCalls, removals, grants>>
  BY MemTypes DEF MemInv, CreateMemory
<1>4. \A j \in Mem \ {k} : mems'[j] = mems[j]
  BY <1>1, <1>3
<1>5. mems'[k] = new
  BY <1>1, <1>3
<1> QED BY <1>1, <1>2, <1>3, <1>4, <1>5, CascadeStep DEF MemInv

\* A correction makes a new revision pending and takes its dependents away (update_memory).
LEMMA UpdateMemoryStep ==
  ASSUME MemInv, NEW k \in Mem, UpdateMemory(k)
  PROVE  MemInv'
<1> DEFINE dep == VersionDependents(k)
           lost == Invalidated(dep.memories)
<1>1. /\ mems \in [Mem -> MemRow] /\ msgs \in [Msg -> MsgRow] /\ memEpoch \in Nat /\ removals \subseteq Mem
      /\ mems[k].state = "active" /\ mems[k].version < MaxVersion /\ mems[k].version > 0
  BY MemTypes DEF MemInv, UpdateMemory, ActiveHasVersion
<1>2. Revoked(dep.messages) \in [Msg -> MsgRow]
  BY <1>1, RevokedRows
<1>3. /\ lost \in [Mem -> MemRow]
      /\ \A j \in Mem \cap dep.memories : lost[j].state = "invalidated"
      /\ \A j \in Mem \ dep.memories : lost[j] = mems[j]
  BY <1>1, InvalidatedRows
<1>4. k \notin dep.memories
  BY DEF VersionDependents, DerivedMemories
<1>5. PICK new \in MemRow :
        /\ mems' = [lost EXCEPT ![k] = new]
        /\ new.state = "active" /\ new.index = "pending" /\ new.version > 0
  <2>1. PICK until \in {mems[k].until, Never} :
          mems' = [lost EXCEPT ![k] = [mems[k] EXCEPT !.version = @ + 1, !.index = "pending",
                                         !.epoch = memEpoch + 1, !.until = until]]
    BY DEF UpdateMemory
  <2>2. until \in Instant /\ mems[k] \in MemRow /\ mems[k].version + 1 \in 0 .. MaxVersion /\ memEpoch + 1 \in Nat
    <3>1. mems[k] \in MemRow
      BY <1>1
    <3>2. mems[k].until \in Instant /\ mems[k].version \in 0 .. MaxVersion
      BY <3>1 DEF MemRow
    <3>3. MaxMemClock \in Nat /\ MaxVersion \in Nat
      BY MemoryAssumption
    <3>4. Never \in Instant
      BY <3>3 DEF Instant, Never
    <3> QED BY <1>1, <2>1, <3>1, <3>2, <3>3, <3>4
  <2>3. PICK v \in 0 .. MaxVersion, e \in Nat : v = mems[k].version + 1 /\ e = memEpoch + 1
    BY <2>2
  <2>4. PICK row \in MemRow : row = mems[k]
    BY <2>2
  <2> DEFINE new == [row EXCEPT !.version = v, !.index = "pending", !.epoch = e, !.until = until]
  <2>5. new \in MemRow /\ new.state = row.state /\ new.index = "pending" /\ new.version = v
    BY ONLY <2>2 DEF MemRow
  <2>6. mems' = [lost EXCEPT ![k] = new]
    BY <2>1, <2>3, <2>4
  <2> HIDE DEF new
  <2>7. v > 0
    BY <1>1, <2>2, <2>3, MemoryAssumption DEF MemRow
  <2> QED BY <1>1, <2>4, <2>5, <2>6, <2>7
<1> HIDE DEF dep, lost
<1>6. /\ msgs' = Revoked(dep.messages) /\ memEpoch' = memEpoch + 1
      /\ removals' = removals \cup (Indexed \cap dep.memories)
      /\ UNCHANGED <<grants, memClock, vectors, indexCalls>>
  BY DEF UpdateMemory, BumpEpoch, dep
<1>7. mems'[k] = new /\ \A j \in Mem \ {k} : mems'[j] = lost[j]
  BY <1>5, <1>3
<1>8. removals' \subseteq Mem /\ \A j \in removals' \ removals : mems'[j].state \in {"invalidated", "deleted"}
  BY <1>1, <1>3, <1>4, <1>6, <1>7, MemoryAssumption
<1>9. mems' \in [Mem -> MemRow] /\ msgs' \in [Msg -> MsgRow]
  BY <1>2, <1>3, <1>5, <1>6
<1>10. MemoryTypeOK'
  BY <1>1, <1>6, <1>8, <1>9 DEF MemInv, MemoryTypeOK, MemRow, MsgRow
<1>11. \A j \in Mem : \/ mems'[j] = mems[j]
                      \/ mems'[j].state \in {"invalidated", "deleted"}
                      \/ /\ mems[j].state \in {"absent", "active"} /\ mems'[j].state = "active"
                         /\ mems'[j].index = "pending" /\ mems'[j].version > 0
  BY <1>1, <1>3, <1>5, <1>7
<1> QED BY <1>6, <1>8, <1>10, <1>11, CascadeStep DEF MemInv

\* A deletion is final for the memory and its dependents (delete_memory).
LEMMA DeleteMemoryStep ==
  ASSUME MemInv, NEW k \in Mem, DeleteMemory(k)
  PROVE  MemInv'
<1> DEFINE dep == VersionDependents(k)
           lost == Invalidated(dep.memories)
<1>1. /\ mems \in [Mem -> MemRow] /\ msgs \in [Msg -> MsgRow] /\ memEpoch \in Nat /\ removals \subseteq Mem
      /\ mems[k].state = "active"
  BY MemTypes DEF MemInv, DeleteMemory
<1>2. Revoked(dep.messages) \in [Msg -> MsgRow]
  BY <1>1, RevokedRows
<1>3. /\ lost \in [Mem -> MemRow]
      /\ \A j \in Mem \cap dep.memories : lost[j].state = "invalidated"
      /\ \A j \in Mem \ dep.memories : lost[j] = mems[j]
  BY <1>1, InvalidatedRows
<1>5. PICK new \in MemRow : mems' = [lost EXCEPT ![k] = new] /\ new.state = "deleted"
  <2>1. mems[k] \in MemRow /\ memEpoch + 1 \in Nat
    BY <1>1
  <2> DEFINE new == [mems[k] EXCEPT !.state = "deleted", !.index = "pending", !.epoch = memEpoch + 1]
  <2>2. new \in MemRow /\ new.state = "deleted"
    BY <2>1 DEF MemRow
  <2>3. mems' = [lost EXCEPT ![k] = new]
    BY DEF DeleteMemory
  <2> QED BY <2>2, <2>3
<1> HIDE DEF dep, lost
<1>6. /\ msgs' = Revoked(dep.messages) /\ memEpoch' = memEpoch + 1
      /\ removals' = removals \cup (Indexed \cap (dep.memories \cup {k}))
      /\ UNCHANGED <<grants, memClock, vectors, indexCalls>>
  BY DEF DeleteMemory, BumpEpoch, dep
<1>7. mems'[k] = new /\ \A j \in Mem \ {k} : mems'[j] = lost[j]
  BY <1>5, <1>3
<1>8. removals' \subseteq Mem /\ \A j \in removals' \ removals : mems'[j].state \in {"invalidated", "deleted"}
  BY <1>1, <1>3, <1>5, <1>6, <1>7, MemoryAssumption
<1>9. mems' \in [Mem -> MemRow] /\ msgs' \in [Msg -> MsgRow]
  BY <1>2, <1>3, <1>5, <1>6
<1>10. MemoryTypeOK'
  BY <1>1, <1>6, <1>8, <1>9 DEF MemInv, MemoryTypeOK, MemRow, MsgRow
<1>11. \A j \in Mem : mems'[j] = mems[j] \/ mems'[j].state \in {"invalidated", "deleted"}
  BY <1>1, <1>3, <1>5, <1>7
<1> QED BY <1>6, <1>8, <1>10, <1>11, CascadeStep DEF MemInv

\* Granting and revoking a grant change neither records nor vectors.
LEMMA GrantStep ==
  ASSUME MemInv, NEW s \in Msg, NEW t \in Target, GrantSource(s, t) \/ RevokeSourceGrant(s, t)
  PROVE  MemInv'
<1>1. /\ DOMAIN grants = Msg
      /\ DOMAIN grants[s] \subseteq Target /\ \A x \in DOMAIN grants[s] : grants[s][x] \in Instant
  BY DEF MemInv, MemoryTypeOK
<1>2. PICK g : /\ grants' = [grants EXCEPT ![s] = g]
               /\ DOMAIN g \subseteq Target /\ \A x \in DOMAIN g : g[x] \in Instant
  <2>1. CASE GrantSource(s, t)
    <3>1. PICK until \in Lifetimes :
            grants' = [grants EXCEPT ![s] = [x \in DOMAIN grants[s] \cup {t} |->
                                               IF x = t THEN until ELSE grants[s][x]]]
      BY <2>1 DEF GrantSource
    <3>2. until \in Instant
      BY MemoryAssumption
    <3> DEFINE g == [x \in DOMAIN grants[s] \cup {t} |-> IF x = t THEN until ELSE grants[s][x]]
    <3>3. DOMAIN g \subseteq Target /\ \A x \in DOMAIN g : g[x] \in Instant
      BY <1>1, <3>2
    <3>4. grants' = [grants EXCEPT ![s] = g]
      BY <3>1
    <3> HIDE DEF g
    <3> QED BY <3>3, <3>4
  <2>2. CASE RevokeSourceGrant(s, t)
    <3> DEFINE g == [x \in DOMAIN grants[s] \ {t} |-> grants[s][x]]
    <3>1. DOMAIN g \subseteq Target /\ \A x \in DOMAIN g : g[x] \in Instant
      BY <1>1
    <3>2. grants' = [grants EXCEPT ![s] = g]
      BY <2>2 DEF RevokeSourceGrant, WithoutGrant
    <3> HIDE DEF g
    <3> QED BY <3>1, <3>2
  <2> QED BY <2>1, <2>2
<1>3. /\ memEpoch' = memEpoch + 1 /\ UNCHANGED <<msgs, mems, memClock, vectors, indexCalls, removals>>
  BY DEF GrantSource, RevokeSourceGrant, BumpEpoch
<1>4. /\ DOMAIN grants' = Msg
      /\ \A m \in Msg : /\ DOMAIN grants'[m] \subseteq Target
                        /\ \A x \in DOMAIN grants'[m] : grants'[m][x] \in Instant
  <2>1. DOMAIN grants' = Msg /\ grants'[s] = g /\ \A m \in Msg \ {s} : grants'[m] = grants[m]
    BY <1>1, <1>2
  <2> QED BY <2>1, <1>2 DEF MemInv, MemoryTypeOK
<1>5. MemoryTypeOK'
  BY <1>3, <1>4 DEF MemInv, MemoryTypeOK
<1> QED BY <1>3, <1>4, <1>5, CascadeStep

\* A revocation invalidates memories; the last stamp leaves their state alone (revoke_source).
LEMMA RevokeSourceStep ==
  ASSUME MemInv, NEW s \in Msg, RevokeSource(s)
  PROVE  MemInv'
<1> DEFINE dep == SourceDependents(s)
           citing == MemoriesCiting({s})
           lost == Invalidated(dep.memories \cup citing)
<1>1. /\ mems \in [Mem -> MemRow] /\ msgs \in [Msg -> MsgRow] /\ memEpoch \in Nat /\ removals \subseteq Mem
      /\ DOMAIN grants = Msg
  BY MemTypes DEF MemInv
<1>2. Revoked({s} \cup dep.messages \cup MessagesCiting({s})) \in [Msg -> MsgRow]
  BY <1>1, RevokedRows
<1>3. /\ lost \in [Mem -> MemRow]
      /\ \A j \in Mem \cap (dep.memories \cup citing) : lost[j].state = "invalidated"
      /\ \A j \in Mem \ (dep.memories \cup citing) : lost[j] = mems[j]
  BY <1>1, InvalidatedRows
<1>4. /\ msgs' = Revoked({s} \cup dep.messages \cup MessagesCiting({s}))
      /\ mems' = [k \in Mem |-> IF k \in citing THEN [lost[k] EXCEPT !.epoch = memEpoch + 1] ELSE lost[k]]
      /\ grants' = [grants EXCEPT ![s] = [x \in {} |-> Never]]
      /\ memEpoch' = memEpoch + 1
      /\ removals' = removals \cup (Indexed \cap dep.memories)
      /\ UNCHANGED <<memClock, vectors, indexCalls>>
  BY DEF RevokeSource, BumpEpoch
<1>5. citing \subseteq Mem
  BY DEF MemoriesCiting
<1> HIDE DEF dep, citing, lost
<1>6. ASSUME NEW j \in Mem
      PROVE  /\ mems'[j] \in MemRow
             /\ j \in dep.memories \cup citing => mems'[j].state = "invalidated"
             /\ j \notin dep.memories \cup citing => mems'[j] = mems[j]
  <2>1. CASE j \in citing
    <3>1. PICK row \in MemRow : row = lost[j]
      BY <1>3
    <3>2. PICK e \in Nat : e = memEpoch + 1
      BY <1>1
    <3>3. mems'[j] = [row EXCEPT !.epoch = e]
      BY <2>1, <1>4, <3>1, <3>2
    <3>4. [row EXCEPT !.epoch = e] \in MemRow /\ [row EXCEPT !.epoch = e].state = row.state
      BY ONLY TRUE DEF MemRow
    <3>5. row.state = "invalidated"
      BY <1>3, <2>1, <3>1
    <3> QED BY <2>1, <3>3, <3>4, <3>5
  <2>2. CASE j \notin citing
    BY <2>2, <1>3, <1>4
  <2> QED BY <2>1, <2>2
<1>7. mems' \in [Mem -> MemRow] /\ msgs' \in [Msg -> MsgRow]
  BY <1>2, <1>4, <1>6
<1>8. removals' \subseteq Mem /\ \A j \in removals' \ removals : mems'[j].state \in {"invalidated", "deleted"}
  BY <1>1, <1>4, <1>6, MemoryAssumption
<1>9. /\ DOMAIN grants' = Msg
      /\ \A m \in Msg : /\ DOMAIN grants'[m] \subseteq Target
                        /\ \A x \in DOMAIN grants'[m] : grants'[m][x] \in Instant
  <2>1. /\ DOMAIN grants' = Msg /\ DOMAIN grants'[s] = {}
        /\ \A m \in Msg \ {s} : grants'[m] = grants[m]
    BY <1>1, <1>4
  <2> QED BY <2>1 DEF MemInv, MemoryTypeOK
<1>10. MemoryTypeOK'
  <2>1. /\ memClock' \in 0 .. MaxMemClock /\ memEpoch' \in Nat
        /\ vectors' \in [Mem -> [now : 0 .. MaxVersion, taken : SUBSET (1 .. MaxVersion)]]
        /\ indexCalls' \subseteq [mem : Mem, version : 1 .. MaxVersion, sent : BOOLEAN]
    BY <1>1, <1>4 DEF MemInv, MemoryTypeOK
  <2> QED BY ONLY <2>1, <1>7, <1>8, <1>9 DEF MemoryTypeOK, MemRow, MsgRow
<1>11. \A j \in Mem : mems'[j] = mems[j] \/ mems'[j].state \in {"invalidated", "deleted"}
  BY <1>6
<1> QED BY <1>4, <1>8, <1>9, <1>10, <1>11, CascadeStep

\* An index call carries the current revision and has not reached the provider.
LEMMA BeginIndexStep ==
  ASSUME MemInv, NEW k \in Mem, BeginIndex(k)
  PROVE  MemInv'
<1>1. /\ mems[k].state = "active" /\ mems[k].version \in 1 .. MaxVersion
      /\ UNCHANGED <<msgs, mems, grants, memEpoch, memClock, vectors, removals>>
      /\ indexCalls' = indexCalls \cup {[mem |-> k, version |-> mems[k].version, sent |-> FALSE]}
  <2>1. mems[k].version \in 0 .. MaxVersion /\ MaxVersion \in Nat
    BY MemoryAssumption DEF MemInv, MemoryTypeOK
  <2>2. mems[k].version > 0
    BY DEF MemInv, BeginIndex, ActiveHasVersion
  <2> QED BY <2>1, <2>2 DEF BeginIndex
<1>2. MemoryTypeOK'
  <2>1. indexCalls' \subseteq [mem : Mem, version : 1 .. MaxVersion, sent : BOOLEAN]
    <3>1. indexCalls \subseteq [mem : Mem, version : 1 .. MaxVersion, sent : BOOLEAN]
      BY DEF MemInv, MemoryTypeOK
    <3>2. [mem |-> k, version |-> mems[k].version, sent |-> FALSE]
            \in [mem : Mem, version : 1 .. MaxVersion, sent : BOOLEAN]
      BY <1>1
    <3> QED BY ONLY <1>1, <3>1, <3>2
  <2> QED BY <1>1, <2>1 DEF MemInv, MemoryTypeOK
<1>3. SentWasTaken'
  BY <1>1 DEF MemInv, SentWasTaken
<1> QED BY <1>1, <1>2, <1>3 DEF MemInv, RemovalsOfTheDead, IndexIsHonest, ActiveHasVersion

\* The provider takes a revision; it had none of an absent record.
LEMMA UpsertStep ==
  ASSUME MemInv, NEW c \in indexCalls, Upsert(c)
  PROVE  MemInv'
<1>1. /\ c.mem \in Mem /\ c.version \in 1 .. MaxVersion /\ mems[c.mem].state # "absent"
      /\ c \in [mem : Mem, version : 1 .. MaxVersion, sent : BOOLEAN]
      /\ vectors \in [Mem -> [now : 0 .. MaxVersion, taken : SUBSET (1 .. MaxVersion)]]
  BY DEF MemInv, MemoryTypeOK, SentWasTaken
<1>2. /\ UNCHANGED <<msgs, mems, grants, memEpoch, memClock, removals>>
      /\ vectors' = [vectors EXCEPT ![c.mem] =
                       [now |-> c.version, taken |-> vectors[c.mem].taken \cup {c.version}]]
      /\ indexCalls' = (indexCalls \ {c}) \cup {[c EXCEPT !.sent = TRUE]}
  BY DEF Upsert
<1>3. PICK d \in [mem : Mem, version : 1 .. MaxVersion, sent : BOOLEAN] :
         d = [c EXCEPT !.sent = TRUE] /\ d.mem = c.mem /\ d.version = c.version
  <2> DEFINE d == [c EXCEPT !.sent = TRUE]
  <2>1. d \in [mem : Mem, version : 1 .. MaxVersion, sent : BOOLEAN] /\ d.mem = c.mem /\ d.version = c.version
    BY ONLY <1>1
  <2> HIDE DEF d
  <2>2. \E e \in [mem : Mem, version : 1 .. MaxVersion, sent : BOOLEAN] :
          e = d /\ e.mem = c.mem /\ e.version = c.version
    BY <2>1
  <2> QED BY <2>2 DEF d
<1>4. /\ vectors'[c.mem].now = c.version /\ c.version # 0
      /\ vectors'[c.mem].taken = vectors[c.mem].taken \cup {c.version}
      /\ \A j \in Mem \ {c.mem} : vectors'[j] = vectors[j]
      /\ vectors' \in [Mem -> [now : 0 .. MaxVersion, taken : SUBSET (1 .. MaxVersion)]]
  BY <1>1, <1>2, MemoryAssumption
<1>5. MemoryTypeOK'
  BY <1>2, <1>3, <1>4 DEF MemInv, MemoryTypeOK
<1>6. SentWasTaken'
  BY <1>1, <1>2, <1>3, <1>4 DEF MemInv, MemoryTypeOK, SentWasTaken
<1>7. IndexIsHonest'
  BY <1>2, <1>4 DEF MemInv, MemoryTypeOK, IndexIsHonest
<1> QED BY <1>2, <1>5, <1>6, <1>7 DEF MemInv, RemovalsOfTheDead, ActiveHasVersion

\* The answer is credited to the revision it is of, and to no other.
LEMMA EndIndexStep ==
  ASSUME MemInv, NEW c \in indexCalls, EndIndex(c)
  PROVE  MemInv'
<1>1. /\ c.mem \in Mem /\ mems \in [Mem -> MemRow]
      /\ c.sent => /\ c.version \in vectors[c.mem].taken
                   /\ mems[c.mem].state = "active" => vectors[c.mem].now # 0
  BY MemTypes DEF MemInv, MemoryTypeOK, SentWasTaken
<1>2. PICK state \in {"indexed", "failed", "unavailable"} :
        /\ state = "indexed" => c.sent
        /\ mems' = SetIndexState(c.mem, c.version, state)
  BY DEF EndIndex
<1>3. /\ indexCalls' = indexCalls \ {c}
      /\ UNCHANGED <<msgs, grants, memEpoch, memClock, vectors, removals>>
  BY DEF EndIndex
<1>4. CASE mems' = mems
  BY <1>3, <1>4
  DEF MemInv, MemoryTypeOK, RemovalsOfTheDead, SentWasTaken, IndexIsHonest, ActiveHasVersion
<1>5. CASE mems[c.mem].version = c.version /\ mems[c.mem].state = "active"
  <2>1. PICK row \in MemRow : row = mems[c.mem]
    BY <1>1
  <2>2. PICK new \in MemRow : /\ new = [row EXCEPT !.index = state]
                              /\ new.state = row.state /\ new.version = row.version
                              /\ new.index = state
    <3> DEFINE new == [row EXCEPT !.index = state]
    <3>1. new \in MemRow /\ new.state = row.state /\ new.version = row.version /\ new.index = state
      BY ONLY TRUE DEF MemRow
    <3> HIDE DEF new
    <3>2. \E e \in MemRow : e = new /\ e.state = row.state /\ e.version = row.version /\ e.index = state
      BY <3>1
    <3> QED BY <3>2 DEF new
  <2>3. mems' = [mems EXCEPT ![c.mem] = new]
    BY <1>2, <1>5, <2>1, <2>2 DEF SetIndexState
  <2>4. /\ mems'[c.mem] = new /\ mems' \in [Mem -> MemRow]
        /\ \A j \in Mem \ {c.mem} : mems'[j] = mems[j]
    BY <1>1, <2>3
  <2>5. \A j \in Mem : mems'[j].state = mems[j].state /\ mems'[j].version = mems[j].version
    BY <2>1, <2>2, <2>4
  <2>6. MemoryTypeOK'
    BY <1>3, <2>4 DEF MemInv, MemoryTypeOK, MemRow
  <2>7. RemovalsOfTheDead' /\ SentWasTaken' /\ ActiveHasVersion'
    BY <1>3, <2>5 DEF MemInv, MemoryTypeOK, RemovalsOfTheDead, SentWasTaken, ActiveHasVersion
  <2>8. IndexIsHonest'
    <3>1. new.index = "indexed" => row.version \in vectors[c.mem].taken /\ vectors[c.mem].now # 0
      BY <1>1, <1>2, <1>5, <2>1, <2>2
    <3>2. \A j \in Mem \ {c.mem} : mems[j].state = "active" /\ mems[j].index = "indexed"
                                     => mems[j].version \in vectors[j].taken /\ vectors[j].now # 0
      BY DEF MemInv, IndexIsHonest
    <3>3. vectors' = vectors
      BY <1>3
    <3> QED BY <2>2, <2>4, <3>1, <3>2, <3>3 DEF IndexIsHonest
  <2> QED BY <1>3, <2>6, <2>7, <2>8 DEF MemInv
<1> QED BY <1>2, <1>4, <1>5 DEF SetIndexState

\* A vector is only removed for a record that is gone.
LEMMA ProviderDeleteStep ==
  ASSUME MemInv, NEW k \in Mem, ProviderDelete(k)
  PROVE  MemInv'
<1>1. /\ k \in removals /\ removals' = removals \ {k} /\ mems[k].state \in {"invalidated", "deleted"}
      /\ UNCHANGED <<msgs, mems, grants, memEpoch, memClock, indexCalls>>
      /\ vectors \in [Mem -> [now : 0 .. MaxVersion, taken : SUBSET (1 .. MaxVersion)]]
      /\ vectors' \in {vectors, [vectors EXCEPT ![k].now = 0]}
  BY DEF MemInv, MemoryTypeOK, ProviderDelete, RemovalsOfTheDead
<1>2. /\ vectors' \in [Mem -> [now : 0 .. MaxVersion, taken : SUBSET (1 .. MaxVersion)]]
      /\ vectors'[k].taken = vectors[k].taken
      /\ \A j \in Mem \ {k} : vectors'[j] = vectors[j]
  <2> DEFINE new == [vectors[k] EXCEPT !.now = 0]
  <2>1. /\ new \in [now : 0 .. MaxVersion, taken : SUBSET (1 .. MaxVersion)]
        /\ new.taken = vectors[k].taken
    BY <1>1, MemoryAssumption
  <2>2. vectors' = vectors \/ vectors' = [vectors EXCEPT ![k] = new]
    BY <1>1
  <2> HIDE DEF new
  <2> QED BY <1>1, <2>1, <2>2
<1>3. MemoryTypeOK'
  BY <1>1, <1>2 DEF MemInv, MemoryTypeOK
<1>4. SentWasTaken'
  BY <1>1, <1>2 DEF MemInv, MemoryTypeOK, SentWasTaken
<1>5. IndexIsHonest'
  BY <1>1, <1>2 DEF MemInv, IndexIsHonest
<1> QED BY <1>1, <1>3, <1>4, <1>5 DEF MemInv, RemovalsOfTheDead, ActiveHasVersion

\* Every step of the memory authority and of its index keeps the invariant: index
\* calls that correction, revocation and deletion overtake, in any order.
LEMMA MemStep == MemInv /\ [MemoryNext]_memVars => MemInv'
<1> SUFFICES ASSUME MemInv, [MemoryNext]_memVars PROVE MemInv'
  OBVIOUS
<1>1. CASE UNCHANGED memVars
  BY <1>1 DEF memVars, MemInv, MemoryTypeOK, RemovalsOfTheDead, SentWasTaken, IndexIsHonest,
              ActiveHasVersion
<1>2. CASE MemoryTick
  <2>1. memClock' \in 0 .. MaxMemClock
    BY <1>2, MemoryAssumption DEF MemoryTick, MemInv, MemoryTypeOK
  <2> QED
    BY <1>2, <2>1 DEF MemoryTick, MemInv, MemoryTypeOK, RemovalsOfTheDead, SentWasTaken,
                      IndexIsHonest, ActiveHasVersion
<1>3. ASSUME NEW m \in Msg, CreateMessage(m) \/ RevokeSource(m) PROVE MemInv'
  BY <1>3, CreateMessageStep, RevokeSourceStep
<1>4. ASSUME NEW g \in Grantable, GrantSource(g[1], g[2]) \/ RevokeSourceGrant(g[1], g[2]) PROVE MemInv'
  <2>1. g[1] \in Msg /\ g[2] \in Target
    BY MemoryAssumption
  <2> QED BY <1>4, <2>1, GrantStep
<1>5. ASSUME NEW k \in Mem, CreateMemory(k) \/ UpdateMemory(k) \/ DeleteMemory(k)
                            \/ BeginIndex(k) \/ ProviderDelete(k)
      PROVE  MemInv'
  BY <1>5, CreateMemoryStep, UpdateMemoryStep, DeleteMemoryStep, BeginIndexStep, ProviderDeleteStep
<1>6. ASSUME NEW c \in indexCalls, Upsert(c) \/ EndIndex(c) PROVE MemInv'
  BY <1>6, UpsertStep, EndIndexStep
<1> QED BY <1>1, <1>2, <1>3, <1>4, <1>5, <1>6 DEF MemoryNext

\* The invariant of the memory authority and its index holds throughout.
THEOREM MemoryInvariant == MemorySpec => []MemInv
  BY MemInitially, MemStep, PTL DEF MemorySpec

\* The tables of the memory authority keep their declared shapes.
THEOREM MemoryTypes == MemorySpec => []MemoryTypeOK
<1>1. MemInv => MemoryTypeOK
  BY DEF MemInv
<1> QED BY <1>1, MemoryInvariant, PTL

\* A record says indexed only if the provider took that very revision, and its
\* vector is still there while the record is active, whatever calls were overtaken.
THEOREM MemoryIndexIsHonest == MemorySpec => []IndexIsHonest
<1>1. MemInv => IndexIsHonest
  BY DEF MemInv
<1> QED BY <1>1, MemoryInvariant, PTL

(***************************************************************************)
(* Profiles and changesets                                                  *)
(*                                                                         *)
(* The profiles of a slot form a chain: each predecessor that waits to be   *)
(* restored has one successor that still stands, and a profile that has one *)
(* is superseded.  That is what a rollback relies on, and more than         *)
(* ProfileChain says.                                                       *)
(***************************************************************************)
Succeeds(q, p) == profiles[q].prev = p /\ profiles[q].state # "rolled_back"

CandRow    == [state : {"none", "candidate", "active", "rolled_back"}, version : Nat]
ProfileRow == [state : ProfileState, version : Nat, prev : Candidate \cup {NoProfile}]
ChangeRow  == [state : {"none", "proposed", "projected"}, version : Nat]

DomTables ==
  /\ cands \in [Candidate -> CandRow] /\ profiles \in [Candidate -> ProfileRow]
  /\ changesets \in [Change -> ChangeRow]

\* A call names a record of the table it writes; a changeset on its way to be
\* recorded is held by the provider.
CallsNameRecords ==
  \A c \in domCalls :
    /\ c = [op |-> c.op, id |-> c.id, expected |-> c.expected]
    /\ c.op \in {"candidate", "activate", "rollback"} => c.id \in Candidate
    /\ c.op \in {"propose", "apply", "project"} => c.id \in Change
    /\ c.op = "project" => c.id \in graphStore

OneActive ==
  \A p, q \in Candidate :
    profiles[p].state = "active" /\ profiles[q].state = "active" /\ CandInfo[p].slot = CandInfo[q].slot => p = q

Chain ==
  /\ \A p \in Candidate : profiles[p].state = "superseded" => \E q \in Candidate : Succeeds(q, p)
  /\ \A p, q \in Candidate : Succeeds(q, p) => profiles[p].state = "superseded"
  /\ \A p, q, r \in Candidate : Succeeds(q, p) /\ Succeeds(r, p) => q = r
  /\ \A p, q \in Candidate : profiles[q].prev = p => CandInfo[p].slot = CandInfo[q].slot
  /\ \A p \in Candidate : profiles[p].state = "none" => profiles[p].prev = NoProfile

CandidateFollows ==
  \A k \in Candidate :
    /\ cands[k].state = "active" <=> profiles[k].state \in {"active", "superseded", "expired"}
    /\ cands[k].state = "rolled_back" <=> profiles[k].state = "rolled_back"

DomInv ==
  /\ DomTables /\ CallsNameRecords /\ OneActive /\ Chain /\ CandidateFollows
  /\ ProjectedIsApplied

\* Empty domain tables satisfy the invariant.
LEMMA DomInitially == DomainInit => DomInv
  BY DomainAssumption
  DEF DomainInit, DomInv, DomTables, CallsNameRecords, OneActive, Chain, CandidateFollows,
      ProjectedIsApplied, Succeeds, CandRow, ProfileRow, ChangeRow, ProfileState

\* The chain gives the property: the successors of a superseded profile are one.
LEMMA ChainIsProfileChain == DomInv => ProfileChain
<1> SUFFICES ASSUME DomInv PROVE ProfileChain
  OBVIOUS
<1>1. ASSUME NEW p \in Candidate, profiles[p].state = "superseded"
      PROVE  Cardinality({q \in Candidate : /\ profiles[q].prev = p
                                            /\ profiles[q].state # "rolled_back"}) = 1
  <2>1. PICK q \in Candidate : Succeeds(q, p)
    BY <1>1 DEF DomInv, Chain
  <2>2. {r \in Candidate : profiles[r].prev = p /\ profiles[r].state # "rolled_back"} = {q}
    BY <2>1 DEF DomInv, Chain, Succeeds
  <2> QED BY <2>2, FS_Singleton
<1>2. \A k \in Candidate :
        /\ cands[k].state = "active" <=> profiles[k].state \in {"active", "superseded", "expired"}
        /\ cands[k].state = "rolled_back" <=> profiles[k].state = "rolled_back"
  BY DEF DomInv, CandidateFollows
<1>3. \A p, q \in Candidate :
        /\ profiles[p].state = "active" /\ profiles[q].state = "active"
        /\ CandInfo[p].slot = CandInfo[q].slot
        => p = q
  BY DEF DomInv, OneActive
<1> QED BY <1>1, <1>2, <1>3 DEF ProfileChain

\* Nothing about profiles or changesets moves, and calls of other tables may.
LEMMA CallsStep ==
  ASSUME DomInv, UNCHANGED <<profileVars, graphVars>>, CallsNameRecords'
  PROVE  DomInv'
  BY DEF DomInv, profileVars, graphVars, DomTables, OneActive, Chain, CandidateFollows,
         ProjectedIsApplied, Succeeds

\* A call that is authorized names the record it is for.
LEMMA BeginKeeps ==
  ASSUME CallsNameRecords, UNCHANGED graphStore, NEW op, NEW id, NEW expected, Begin(op, id, expected),
         op \in {"candidate", "activate", "rollback"} => id \in Candidate,
         op \in {"propose", "apply"} => id \in Change,
         op # "project"
  PROVE  CallsNameRecords'
  BY DEF CallsNameRecords, Begin

\* A call that ends takes nothing with it.
LEMMA FinishKeeps ==
  ASSUME CallsNameRecords, graphStore \subseteq graphStore', NEW c, Finish(c)
  PROVE  CallsNameRecords'
  BY DEF CallsNameRecords, Finish

\* The routes' first halves: they read, and leave an authorized call.
LEMMA BeginStep ==
  ASSUME DomInv,
         \/ \E k \in Candidate : BeginCandidate(k) \/ BeginActivate(k) \/ BeginRollback(k)
         \/ \E g \in Change : BeginProposal(g) \/ BeginApply(g)
         \/ \E f \in Focus : BeginFocus(f) \/ BeginTransition(f)
         \/ \E n \in Note : BeginNote(n)
         \/ \E x \in Entry : BeginEntry(x)
         \/ \E b \in Batch : BeginImport(b)
  PROVE  DomInv'
<1>1. UNCHANGED <<profileVars, graphVars>> /\ UNCHANGED graphStore /\ CallsNameRecords
  BY DEF DomInv, graphVars, profileVars, BeginCandidate, BeginActivate, BeginRollback, BeginProposal, BeginApply,
         BeginFocus, BeginTransition, BeginNote, BeginEntry, BeginImport
<1>2. ASSUME NEW k \in Candidate, BeginCandidate(k) \/ BeginActivate(k) \/ BeginRollback(k)
      PROVE  CallsNameRecords'
  BY <1>1, <1>2, BeginKeeps DEF BeginCandidate, BeginActivate, BeginRollback
<1>3. ASSUME NEW g \in Change, BeginProposal(g) \/ BeginApply(g)
      PROVE  CallsNameRecords'
  BY <1>1, <1>3, BeginKeeps DEF BeginProposal, BeginApply
<1>4. ASSUME NEW x, BeginFocus(x) \/ BeginTransition(x) \/ BeginNote(x) \/ BeginEntry(x) \/ BeginImport(x)
      PROVE  CallsNameRecords'
  BY <1>1, <1>4, BeginKeeps DEF BeginFocus, BeginTransition, BeginNote, BeginEntry, BeginImport
<1>5. CallsNameRecords'
  BY <1>2, <1>3, <1>4
<1> QED BY <1>1, <1>5, CallsStep

\* A candidate is stored; it has no profile yet.
LEMMA CandidateStep ==
  ASSUME DomInv, NEW c \in domCalls, CreateProfileCandidate(c)
  PROVE  DomInv'
<1>1. /\ c.id \in Candidate /\ cands[c.id].state = "none" /\ cands \in [Candidate -> CandRow]
      /\ cands' = [cands EXCEPT ![c.id] = [state |-> "candidate", version |-> 1]]
      /\ Finish(c) /\ UNCHANGED <<profiles, changesets, graphStore>>
  BY DEF DomInv, DomTables, CallsNameRecords, CreateProfileCandidate, graphVars
<1>2. /\ cands'[c.id].state = "candidate" /\ cands' \in [Candidate -> CandRow]
      /\ \A j \in Candidate \ {c.id} : cands'[j] = cands[j]
  BY <1>1 DEF CandRow
<1>3. CallsNameRecords'
  BY <1>1, FinishKeeps DEF DomInv
<1>4. CandidateFollows'
  BY <1>1, <1>2 DEF DomInv, CandidateFollows
<1> QED BY <1>1, <1>2, <1>3, <1>4 DEF DomInv, DomTables, OneActive, Chain, Succeeds, ProjectedIsApplied

\* An activation puts the candidate at the end of its slot's chain.
LEMMA ActivateStep ==
  ASSUME DomInv, NEW c \in domCalls, ActivateProfileCandidate(c)
  PROVE  DomInv'
<1> DEFINE previous == IF ActiveInSlot(c.id) = {} THEN NoProfile
                       ELSE CHOOSE p \in ActiveInSlot(c.id) : TRUE
<1>k. PICK k \in Candidate : k = c.id
  BY DEF DomInv, CallsNameRecords, ActivateProfileCandidate
<1>0. PICK e, b : k = c.id /\ e = c.expected /\ b = previous
  BY <1>k
<1>1. /\ cands \in [Candidate -> CandRow] /\ profiles \in [Candidate -> ProfileRow]
      /\ Finish(c) /\ UNCHANGED <<changesets, graphStore>>
  BY DEF DomInv, DomTables, ActivateProfileCandidate, graphVars
<1>a. cands[k] = [state |-> "candidate", version |-> e]
  BY <1>0 DEF ActivateProfileCandidate
<1>b. cands' = [cands EXCEPT ![k] = [state |-> "active", version |-> e + 1]]
  BY <1>0 DEF ActivateProfileCandidate
<1>2. profiles[k].state = "none" /\ profiles[k].prev = NoProfile
  <2>1. cands[k].state = "candidate" /\ profiles[k].state \in ProfileState
    <3>1. profiles[k] \in ProfileRow
      BY <1>1
    <3>2. profiles[k].state \in ProfileState
      BY <3>1 DEF ProfileRow
    <3> QED BY <1>a, <3>2
  <2>2. profiles[k].state = "none"
    BY <1>1, <2>1 DEF DomInv, CandidateFollows, ProfileState
  <2> QED BY <1>1, <2>2 DEF DomInv, Chain
<1>3. \/ b = NoProfile /\ ActiveInSlot(k) = {}
      \/ /\ b \in Candidate /\ profiles[b].state = "active"
         /\ CandInfo[b].slot = CandInfo[k].slot
  BY <1>0 DEF ActiveInSlot
<1>4. b # k
  BY <1>1, <1>2, <1>3, DomainAssumption
<1> DEFINE row(p) == CASE p = c.id     -> [state |-> "active", version |-> 1, prev |-> previous]
                       [] p = previous -> [profiles[p] EXCEPT !.state = "superseded", !.version = @ + 1]
                       [] OTHER        -> profiles[p]
<1>c. profiles' = [p \in Candidate |-> row(p)]
  BY DEF ActivateProfileCandidate
<1>d. row(k) = [state |-> "active", version |-> 1, prev |-> b]
  <2> HIDE DEF previous
  <2> QED BY <1>0, <1>4
<1>e. ASSUME NEW p \in Candidate, p = b
      PROVE  row(p) \in ProfileRow /\ row(p).state = "superseded" /\ row(p).prev = profiles[p].prev
  <2>1. PICK old \in ProfileRow : old = profiles[p]
    BY <1>1
  <2>2. PICK v \in Nat : v = old.version + 1
    BY DEF ProfileRow
  <2> HIDE DEF previous
  <2>3. row(p) = [old EXCEPT !.state = "superseded", !.version = v]
    BY <1>0, <1>4, <1>e, <2>1, <2>2
  <2> HIDE DEF row
  <2>4. /\ [old EXCEPT !.state = "superseded", !.version = v] \in ProfileRow
        /\ [old EXCEPT !.state = "superseded", !.version = v].state = "superseded"
        /\ [old EXCEPT !.state = "superseded", !.version = v].prev = old.prev
    BY ONLY TRUE DEF ProfileRow, ProfileState
  <2> QED BY <2>1, <2>3, <2>4
<1>f. ASSUME NEW p \in Candidate, p \notin {k, b}
      PROVE  row(p) = profiles[p]
  <2> HIDE DEF previous
  <2> QED BY <1>0, <1>f
<1> HIDE DEF row, previous
<1>5. /\ profiles'[k].state = "active" /\ profiles'[k].prev = b
      /\ \A p \in Candidate : p = b => /\ profiles'[p].state = "superseded"
                                       /\ profiles'[p].prev = profiles[p].prev
      /\ \A p \in Candidate \ {k, b} : profiles'[p] = profiles[p]
  BY <1>c, <1>d, <1>e, <1>f
<1>6. profiles' \in [Candidate -> ProfileRow]
  <2>1. row(k) \in ProfileRow
    BY <1>3, <1>d DEF ProfileRow, ProfileState
  <2>2. \A p \in Candidate : row(p) \in ProfileRow
    BY <1>1, <1>e, <1>f, <2>1
  <2> QED BY <1>c, <2>2
<1>7. /\ cands' \in [Candidate -> CandRow] /\ cands'[k].state = "active"
      /\ \A j \in Candidate \ {k} : cands'[j] = cands[j]
  <2>1. PICK old \in CandRow : old = cands[k]
    BY <1>1
  <2>2. old.version \in Nat /\ old.version = e
    BY <1>a, <2>1 DEF CandRow
  <2>3. PICK v \in Nat : v = e + 1
    BY <2>2
  <2>4. [state |-> "active", version |-> v] \in CandRow
    BY DEF CandRow
  <2> QED BY <1>1, <1>b, <2>3, <2>4
<1>8. OneActive'
  BY <1>3, <1>5 DEF DomInv, OneActive, ActiveInSlot
<1>9. Chain'
  <2>1. \A p, q \in Candidate : Succeeds(q, p)' <=> (q = k /\ p = b) \/ (q # k /\ Succeeds(q, p))
    <3>1. ASSUME NEW p \in Candidate, NEW q \in Candidate
          PROVE  Succeeds(q, p)' <=> (q = k /\ p = b) \/ (q # k /\ Succeeds(q, p))
      <4>1. CASE q = k
        BY <1>5, <4>1 DEF Succeeds
      <4>2. CASE q = b
        BY <1>3, <1>4, <1>5, <4>2, DomainAssumption DEF Succeeds
      <4>3. CASE q \notin {k, b}
        BY <1>5, <4>3 DEF Succeeds
      <4> QED BY <4>1, <4>2, <4>3
    <3> QED BY <3>1
  <2>2. \A q \in Candidate : b \in Candidate => ~Succeeds(q, b)
    BY <1>3, DomainAssumption DEF DomInv, Chain
  <2>3. \A p \in Candidate : ~Succeeds(k, p)
    BY <1>2, DomainAssumption DEF Succeeds
  <2>4. \A p \in Candidate : profiles'[p].state = "superseded" <=> p = b \/ profiles[p].state = "superseded"
    BY <1>2, <1>3, <1>5, DomainAssumption
  <2>5. \A p \in Candidate : ~Succeeds(p, k)
    BY <1>1, <1>2 DEF DomInv, Chain
  <2>6. /\ \A p \in Candidate : profiles'[p].state = "superseded" => \E q \in Candidate : Succeeds(q, p)'
        /\ \A p, q \in Candidate : Succeeds(q, p)' => profiles'[p].state = "superseded"
        /\ \A p, q, r \in Candidate : Succeeds(q, p)' /\ Succeeds(r, p)' => q = r
    <3>1. ASSUME NEW p \in Candidate, profiles'[p].state = "superseded"
          PROVE  \E q \in Candidate : Succeeds(q, p)'
      <4>1. CASE p = b
        BY <1>1, <2>1, <4>1
      <4>2. CASE profiles[p].state = "superseded"
        BY <2>1, <2>3, <4>2 DEF DomInv, Chain
      <4> QED BY <2>4, <3>1, <4>1, <4>2
    <3>2. \A p, q \in Candidate : Succeeds(q, p)' => profiles'[p].state = "superseded"
      BY <2>1, <2>4 DEF DomInv, Chain
    <3>3. ASSUME NEW p \in Candidate, NEW q \in Candidate, NEW r \in Candidate,
                 Succeeds(q, p)', Succeeds(r, p)'
          PROVE  q = r
      <4>1. CASE p = b
        BY <2>1, <2>2, <3>3, <4>1
      <4>2. CASE p # b
        BY <2>1, <3>3, <4>2 DEF DomInv, Chain
      <4> QED BY <4>1, <4>2
    <3> QED BY <3>1, <3>2, <3>3
  <2>7. \A p, q \in Candidate : profiles'[q].prev = p => CandInfo[p].slot = CandInfo[q].slot
    BY <1>3, <1>5, DomainAssumption DEF DomInv, Chain
  <2>8. \A p \in Candidate : profiles'[p].state = "none" => profiles'[p].prev = NoProfile
    BY <1>5 DEF DomInv, Chain
  <2> QED BY <2>6, <2>7, <2>8 DEF Chain
<1>10. CandidateFollows'
  <2>1. ASSUME NEW j \in Candidate
        PROVE  /\ cands'[j].state = "active" <=> profiles'[j].state \in {"active", "superseded", "expired"}
               /\ cands'[j].state = "rolled_back" <=> profiles'[j].state = "rolled_back"
    <3>1. CASE j = k
      BY <1>5, <1>7, <3>1
    <3>2. CASE j = b
      BY <1>3, <1>4, <1>5, <1>7, <3>2, DomainAssumption DEF DomInv, CandidateFollows
    <3>3. CASE j \notin {k, b}
      BY <1>5, <1>7, <3>3 DEF DomInv, CandidateFollows
    <3> QED BY <3>1, <3>2, <3>3
  <2> QED BY <2>1 DEF CandidateFollows
<1>11. CallsNameRecords'
  BY <1>1, FinishKeeps DEF DomInv
<1> QED BY <1>1, <1>6, <1>7, <1>8, <1>9, <1>10, <1>11 DEF DomInv, DomTables, ProjectedIsApplied

\* A rollback removes the end of the chain and restores what it had superseded.
LEMMA RollbackStep ==
  ASSUME DomInv, NEW c \in domCalls, RollbackProfile(c)
  PROVE  DomInv'
<1>k. PICK k \in Candidate : k = c.id
  BY ZenonT(60) DEF DomInv, CallsNameRecords, RollbackProfile
<1>0. PICK b : k = c.id /\ b = profiles[k].prev
  BY <1>k, SMTT(40)
<1>1. /\ cands \in [Candidate -> CandRow] /\ profiles \in [Candidate -> ProfileRow]
      /\ Finish(c) /\ UNCHANGED <<changesets, graphStore>>
      /\ profiles[k].state = "active"
  BY <1>0 DEF DomInv, DomTables, RollbackProfile, graphVars
<1>2. /\ b \in Candidate \cup {NoProfile}
      /\ b \in Candidate => profiles[b].state = "superseded" /\ CandInfo[b].slot = CandInfo[k].slot
  <2>1. profiles[k] \in ProfileRow
    BY <1>1
  <2>2. b \in Candidate \cup {NoProfile}
    BY <1>0, <2>1 DEF ProfileRow
  <2>3. b \in Candidate => Succeeds(k, b)
    BY <1>0, <1>1 DEF Succeeds
  <2> QED BY <1>0, <2>2, <2>3 DEF DomInv, Chain
<1>4. b # k
  BY <1>1, <1>2, SMTT(40)
<1> DEFINE restored == IF CandInfo[b].until > domClock THEN "active" ELSE "expired"
           row(p) == CASE p = c.id -> [profiles[p] EXCEPT !.state = "rolled_back", !.version = @ + 1]
                       [] p = profiles[c.id].prev /\ profiles[p].state = "superseded" ->
                            [profiles[p] EXCEPT !.version = @ + 1,
                               !.state = IF CandInfo[p].until > domClock THEN "active" ELSE "expired"]
                       [] OTHER -> profiles[p]
<1>c. profiles' = [p \in Candidate |-> row(p)]
  BY DEF RollbackProfile
<1>r. restored \in {"active", "expired"}
  OBVIOUS
<1>d. row(k) \in ProfileRow /\ row(k).state = "rolled_back" /\ row(k).prev = b
  <2>1. PICK old \in ProfileRow : old = profiles[k]
    BY <1>1
  <2>2. PICK v \in Nat : v = old.version + 1
    BY DEF ProfileRow
  <2>3. row(k) = [old EXCEPT !.state = "rolled_back", !.version = v]
    BY <1>0, <1>4, <2>1, <2>2
  <2> HIDE DEF row
  <2>4. /\ [old EXCEPT !.state = "rolled_back", !.version = v] \in ProfileRow
        /\ [old EXCEPT !.state = "rolled_back", !.version = v].state = "rolled_back"
        /\ [old EXCEPT !.state = "rolled_back", !.version = v].prev = old.prev
    BY ONLY TRUE DEF ProfileRow, ProfileState
  <2> QED BY <1>0, <2>1, <2>3, <2>4
<1>e. ASSUME NEW p \in Candidate, p = b
      PROVE  row(p) \in ProfileRow /\ row(p).state = restored /\ row(p).prev = profiles[p].prev
  <2>1. PICK old \in ProfileRow : old = profiles[p]
    BY <1>1
  <2>2. PICK v \in Nat : v = old.version + 1
    BY DEF ProfileRow
  <2>3. PICK st \in {"active", "expired"} : st = restored
    BY <1>r
  <2>4. profiles[p].state = "superseded"
    BY <1>2, <1>e
  <2>5. row(p) = [old EXCEPT !.version = v, !.state = st]
    BY <1>0, <1>4, <1>e, <2>1, <2>2, <2>3, <2>4
  <2> HIDE DEF row, restored
  <2>6. /\ [old EXCEPT !.version = v, !.state = st] \in ProfileRow
        /\ [old EXCEPT !.version = v, !.state = st].state = st
        /\ [old EXCEPT !.version = v, !.state = st].prev = old.prev
    BY ONLY TRUE DEF ProfileRow, ProfileState
  <2> QED BY <2>1, <2>3, <2>5, <2>6
<1>f. ASSUME NEW p \in Candidate, p \notin {k, b}
      PROVE  row(p) = profiles[p]
  BY <1>0, <1>f
<1> HIDE DEF row, restored
<1>5. /\ profiles'[k].state = "rolled_back" /\ profiles'[k].prev = b
      /\ \A p \in Candidate : p = b => /\ profiles'[p].state = restored
                                       /\ profiles'[p].prev = profiles[p].prev
      /\ \A p \in Candidate \ {k, b} : profiles'[p] = profiles[p]
  BY <1>c, <1>d, <1>e, <1>f
<1>6. profiles' \in [Candidate -> ProfileRow]
  <2>1. \A p \in Candidate : row(p) \in ProfileRow
    BY <1>1, <1>d, <1>e, <1>f
  <2> QED BY <1>c, <2>1
<1>7. /\ cands' \in [Candidate -> CandRow] /\ cands'[k].state = "rolled_back"
      /\ \A j \in Candidate \ {k} : cands'[j] = cands[j]
  <2>1. PICK old \in CandRow : old = cands[k]
    BY <1>1
  <2>2. old.state = "active"
    BY <1>1, <2>1 DEF DomInv, CandidateFollows
  <2>3. PICK v \in Nat : v = old.version + 1
    BY SMTT(40) DEF CandRow
  <2>4. cands' = [cands EXCEPT ![k] = [state |-> "rolled_back", version |-> v]]
    BY <1>0, <2>1, <2>2, <2>3, ZenonT(60) DEF RollbackProfile
  <2>5. [state |-> "rolled_back", version |-> v] \in CandRow
    BY DEF CandRow
  <2> QED BY <1>1, <2>4, <2>5
<1>8. OneActive'
  <2>1. ASSUME NEW p \in Candidate, NEW q \in Candidate, profiles'[p].state = "active",
               profiles'[q].state = "active", CandInfo[p].slot = CandInfo[q].slot
        PROVE  p = q
    <3>1. p # k /\ q # k
      BY <1>5, <2>1
    <3>2. CASE p = b /\ q # b
      <4>1. profiles[q].state = "active"
        BY <1>5, <2>1, <3>1, <3>2
      <4>2. CandInfo[q].slot = CandInfo[k].slot
        BY <1>2, <2>1, <3>2
      <4> QED BY <1>1, <3>1, <4>1, <4>2 DEF DomInv, OneActive
    <3>3. CASE p # b /\ q = b
      <4>1. profiles[p].state = "active"
        BY <1>5, <2>1, <3>1, <3>3
      <4>2. CandInfo[p].slot = CandInfo[k].slot
        BY <1>2, <2>1, <3>3
      <4> QED BY <1>1, <3>1, <4>1, <4>2 DEF DomInv, OneActive
    <3>4. CASE p # b /\ q # b
      BY <1>5, <2>1, <3>1, <3>4 DEF DomInv, OneActive
    <3> QED BY <3>2, <3>3, <3>4
  <2> QED BY <2>1 DEF OneActive
<1>9. Chain'
  <2>1. \A p, q \in Candidate : Succeeds(q, p)' <=> q # k /\ Succeeds(q, p)
    <3>1. ASSUME NEW p \in Candidate, NEW q \in Candidate
          PROVE  Succeeds(q, p)' <=> q # k /\ Succeeds(q, p)
      <4>1. CASE q = k
        BY <1>5, <4>1 DEF Succeeds
      <4>2. CASE q = b
        BY <1>2, <1>4, <1>5, <1>r, <4>2, DomainAssumption DEF Succeeds, restored
      <4>3. CASE q \notin {k, b}
        BY <1>5, <4>3 DEF Succeeds
      <4> QED BY <4>1, <4>2, <4>3
    <3> QED BY <3>1
  <2>2. \A p \in Candidate : p = b => Succeeds(k, p)
    BY <1>0, <1>1 DEF Succeeds
  <2>3. \A p \in Candidate : Succeeds(k, p) => p = b
    BY <1>0 DEF Succeeds
  <2>4. \A p \in Candidate : profiles'[p].state = "superseded" <=> p # b /\ profiles[p].state = "superseded"
    BY <1>1, <1>5, <1>r
  <2>5. /\ \A p \in Candidate : profiles'[p].state = "superseded" => \E q \in Candidate : Succeeds(q, p)'
        /\ \A p, q \in Candidate : Succeeds(q, p)' => profiles'[p].state = "superseded"
        /\ \A p, q, r \in Candidate : Succeeds(q, p)' /\ Succeeds(r, p)' => q = r
    <3>1. \A p \in Candidate : profiles'[p].state = "superseded" => \E q \in Candidate : Succeeds(q, p)'
      BY <2>1, <2>3, <2>4 DEF DomInv, Chain
    <3>2. \A p, q \in Candidate : Succeeds(q, p)' => profiles'[p].state = "superseded"
      BY <2>1, <2>2, <2>4 DEF DomInv, Chain
    <3>3. \A p, q, r \in Candidate : Succeeds(q, p)' /\ Succeeds(r, p)' => q = r
      BY <2>1 DEF DomInv, Chain
    <3> QED BY <3>1, <3>2, <3>3
  <2>7. \A p, q \in Candidate : profiles'[q].prev = p => CandInfo[p].slot = CandInfo[q].slot
    BY <1>0, <1>5 DEF DomInv, Chain
  <2>8. \A p \in Candidate : profiles'[p].state = "none" => profiles'[p].prev = NoProfile
    BY <1>5, <1>r DEF DomInv, Chain
  <2> QED BY <2>5, <2>7, <2>8 DEF Chain
<1>10. CandidateFollows'
  <2>1. ASSUME NEW j \in Candidate
        PROVE  /\ cands'[j].state = "active" <=> profiles'[j].state \in {"active", "superseded", "expired"}
               /\ cands'[j].state = "rolled_back" <=> profiles'[j].state = "rolled_back"
    <3>1. CASE j = k
      BY <1>5, <1>7, <3>1
    <3>2. CASE j = b
      BY <1>2, <1>4, <1>5, <1>7, <1>r, <3>2, DomainAssumption DEF DomInv, CandidateFollows
    <3>3. CASE j \notin {k, b}
      BY <1>5, <1>7, <3>3 DEF DomInv, CandidateFollows
    <3> QED BY <3>1, <3>2, <3>3
  <2> QED BY <2>1 DEF CandidateFollows
<1>11. CallsNameRecords'
  BY <1>1, FinishKeeps DEF DomInv
<1> QED BY <1>1, <1>6, <1>7, <1>8, <1>9, <1>10, <1>11, SMTT(40) DEF DomInv, DomTables, ProjectedIsApplied

\* Proposals, the provider's writes and the projection.
LEMMA GraphStep ==
  ASSUME DomInv, NEW c \in domCalls,
         UpsertGraphEntities(c) \/ ProviderApply(c) \/ ApplyGraphChangeset(c)
  PROVE  DomInv'
<1>1. /\ changesets \in [Change -> ChangeRow] /\ UNCHANGED <<cands, profiles>>
      /\ c = [op |-> c.op, id |-> c.id, expected |-> c.expected]
      /\ c.id \in Change
      /\ c.op = "project" => c.id \in graphStore
  BY DEF DomInv, DomTables, CallsNameRecords, profileVars, UpsertGraphEntities, ProviderApply,
         ApplyGraphChangeset
<1>2. DomTables' /\ CallsNameRecords' /\ ProjectedIsApplied'
  <2>1. CASE UpsertGraphEntities(c)
    <3>1. /\ Finish(c) /\ UNCHANGED graphStore /\ changesets' = [changesets EXCEPT ![c.id] = [state |-> "proposed", version |-> 1]]
      BY <2>1 DEF UpsertGraphEntities
    <3>2. [state |-> "proposed", version |-> 1] \in ChangeRow
      BY DEF ChangeRow
    <3>3. CallsNameRecords'
      BY <3>1, FinishKeeps DEF DomInv
    <3> QED BY <1>1, <3>1, <3>2, <3>3 DEF DomInv, DomTables, ProjectedIsApplied
  <2>2. CASE ProviderApply(c)
    <3>1. /\ UNCHANGED changesets /\ graphStore' = graphStore \cup {c.id} /\ c.op = "apply"
          /\ domCalls' = (domCalls \ {c}) \cup {[c EXCEPT !.op = "project"]}
      BY <2>2 DEF ProviderApply
    <3>2. PICK d : /\ d = [c EXCEPT !.op = "project"] /\ d.op = "project" /\ d.id = c.id
                   /\ d = [op |-> d.op, id |-> d.id, expected |-> d.expected]
      <4>1. [c EXCEPT !.op = "project"] = [op |-> "project", id |-> c.id, expected |-> c.expected]
        BY <1>1
      <4> QED BY <4>1
    <3>3. CallsNameRecords'
      BY <1>1, <3>1, <3>2 DEF DomInv, CallsNameRecords
    <3> QED BY <1>1, <3>1, <3>3 DEF DomInv, DomTables, ProjectedIsApplied
  <2>3. CASE ApplyGraphChangeset(c)
    <3>1. /\ Finish(c) /\ UNCHANGED graphStore /\ c.id \in graphStore
          /\ changesets[c.id] = [state |-> "proposed", version |-> c.expected]
          /\ changesets' = [changesets EXCEPT ![c.id] = [state |-> "projected", version |-> c.expected + 1]]
      BY <1>1, <2>3 DEF ApplyGraphChangeset
    <3>2. PICK old \in ChangeRow : old = changesets[c.id]
      BY <1>1
    <3>3. PICK v \in Nat : v = old.version + 1 /\ old.version = c.expected
      BY <3>1, <3>2 DEF ChangeRow
    <3>4. [state |-> "projected", version |-> v] \in ChangeRow
      BY DEF ChangeRow
    <3>5. changesets' \in [Change -> ChangeRow]
          /\ \A g \in Change \ {c.id} : changesets'[g] = changesets[g]
      BY <1>1, <3>1, <3>3, <3>4
    <3>6. CallsNameRecords'
      BY <3>1, FinishKeeps DEF DomInv
    <3> QED BY <1>1, <3>1, <3>5, <3>6 DEF DomInv, DomTables, ProjectedIsApplied
  <2> QED BY <2>1, <2>2, <2>3
<1> QED BY <1>1, <1>2 DEF DomInv, OneActive, Chain, Succeeds, CandidateFollows

\* The other tables are written without touching profiles or changesets.
LEMMA OtherTablesStep ==
  ASSUME DomInv, UNCHANGED <<profileVars, graphVars>>,
         domCalls' = domCalls \/ \E c \in domCalls : Finish(c)
  PROVE  DomInv'
<1>1. CallsNameRecords'
  BY FinishKeeps DEF DomInv, graphVars, CallsNameRecords
<1> QED BY <1>1, CallsStep

\* Every route, validated in one database and written in the other, keeps the invariant.
LEMMA DomStep == DomInv /\ [DomainNext]_domVars => DomInv'
<1> SUFFICES ASSUME DomInv, [DomainNext]_domVars PROVE DomInv'
  OBVIOUS
<1>1. CASE UNCHANGED domVars
  BY <1>1, OtherTablesStep DEF domVars, profileVars, graphVars
<1>2. CASE PersonaNext
  BY <1>2, OtherTablesStep
  DEF PersonaNext, PutPersona, PutPersonaBinding, PutActiveBehaviorPolicy, profileVars, graphVars
<1>3. CASE ProfileNext
  BY <1>3, BeginStep, CandidateStep, ActivateStep, RollbackStep DEF ProfileNext
<1>4. CASE GraphNext
  BY <1>4, BeginStep, GraphStep DEF GraphNext
<1>5. CASE LedgerNext
  <2>1. \/ \E f \in Focus : BeginFocus(f) \/ BeginTransition(f)
        \/ \E n \in Note : BeginNote(n)
        \/ \E x \in Entry : BeginEntry(x)
        \/ \E b \in Batch : BeginImport(b)
        \/ /\ UNCHANGED <<profileVars, graphVars>>
           /\ domCalls' = domCalls \/ \E c \in domCalls : Finish(c)
    BY <1>5
    DEF LedgerNext, CreateFocusItem, CreateResearchNote, CreateHandoff, AppendReviewEvent,
        ApplyImportBatch, TransitionFocusItem, RollbackImportBatch, profileVars, graphVars
  <2> QED BY <2>1, BeginStep, OtherTablesStep
<1>6. CASE DomHostNext
  BY <1>6, OtherTablesStep DEF DomHostNext, RevokeDomSource, DomTick, DropCall, profileVars, graphVars
<1> QED BY <1>1, <1>2, <1>3, <1>4, <1>5, <1>6 DEF DomainNext

\* The invariant of the domain tables holds throughout.
THEOREM DomainInvariant == DomainSpec => []DomInv
  BY DomInitially, DomStep, PTL DEF DomainSpec

\* However activations, expiries and rollbacks of a slot interleave with the
\* routes that read before them, a slot has one active profile, a superseded one
\* has exactly one standing successor, and candidates agree with their profiles.
THEOREM DomainProfileChain == DomainSpec => []ProfileChain
  BY DomainInvariant, ChainIsProfileChain, PTL

\* A changeset that the store records as projected is held by the provider,
\* whatever calls were lost, repeated or raced.
THEOREM DomainProjectedIsApplied == DomainSpec => []ProjectedIsApplied
<1>1. DomInv => ProjectedIsApplied
  BY DEF DomInv
<1> QED BY <1>1, DomainInvariant, PTL

(***************************************************************************)
(* Maintenance jobs                                                         *)
(*                                                                         *)
(* A route decides on what it read, perhaps long ago.  The invariant says   *)
(* what of that cannot have changed: a task that ended stays ended, one     *)
(* that ran never queues again, and a job that is over stays over.          *)
(***************************************************************************)
JobRow  == [state : JobState, version : Nat, processed : Nat,
            checkpoint : [state : JobState, processed : Nat]]
Over    == {"completed", "failed", "cancelled"}
Started == {"running", "completed", "failed", "aborted"}

JobTables ==
  /\ jobs \in [Job -> JobRow] /\ jobTasks \in [Job -> TaskStatus]
  /\ \A c \in jobCalls :
       /\ c = [op |-> c.op, job |-> c.job, seen |-> c.seen, expected |-> c.expected,
               processed |-> c.processed, task |-> c.task]
       /\ c.job \in Job /\ c.seen \in JobState \ {"none"} /\ c.processed \in Nat

\* What a call has read is still true of the job and of its task.
TaskReadHolds(c) ==
  /\ c.op \in {"running", "review"} => jobTasks[c.job] \in Started
  /\ c.op = "completed" => jobTasks[c.job] = "completed"
  /\ c.op = "failed" => jobTasks[c.job] = "failed"
  /\ c.op = "cancelled" => jobTasks[c.job] = "aborted"
  /\ c.op = "cancel" => \/ c.seen \in Over
                        \/ c.task = "none"
                        \/ c.task = "aborted" /\ jobTasks[c.job] = "aborted"
JobReadHolds(c) ==
  /\ c.seen \in Over => jobs[c.job].state = c.seen
  /\ c.op = "review" => jobs[c.job].state \notin {"none", "queued"}
ReadingHolds == \A c \in jobCalls : JobReadHolds(c) /\ (c.task # "unread" => TaskReadHolds(c))

\* A queued job has no checkpoint yet.
QueuedIsFresh == \A j \in Job : jobs[j].state \in {"none", "queued"} => jobs[j].checkpoint.state = "none"

JobInv == JobTables /\ ReadingHolds /\ QueuedIsFresh /\ JobOutcomeAgrees /\ ReviewedJobRan
          /\ reviews \subseteq Job

\* No job, no task and no call satisfies the invariant.
LEMMA JobInitially == BackgroundInit => JobInv
  BY DEF BackgroundInit, JobInv, JobTables, ReadingHolds, QueuedIsFresh, JobOutcomeAgrees,
         ReviewedJobRan, JobRow, JobState, TaskStatus, NoCheckpoint

\* A new job is queued, and its task is not yet admitted (create_maintenance_job).
LEMMA CreateJobStep ==
  ASSUME JobInv, NEW j \in Job, CreateMaintenanceJob(j)
  PROVE  JobInv'
<1>1. PICK old \in JobRow : old = jobs[j]
  BY DEF JobInv, JobTables
<1>2. PICK new \in JobRow : /\ new.state = "queued" /\ new.checkpoint = old.checkpoint
                            /\ jobs' = [jobs EXCEPT ![j] = new]
  <2> DEFINE new == [old EXCEPT !.state = "queued", !.version = 1]
  <2>1. new \in JobRow /\ new.state = "queued" /\ new.checkpoint = old.checkpoint
    BY ONLY TRUE DEF JobRow, JobState
  <2>2. jobs' = [jobs EXCEPT ![j] = new]
    BY <1>1 DEF CreateMaintenanceJob
  <2> HIDE DEF new
  <2> QED BY <2>1, <2>2
<1>3. /\ jobs[j].state = "none" /\ UNCHANGED <<jobTasks, jobCalls, reviews>>
      /\ jobs'[j] = new /\ jobs' \in [Job -> JobRow]
      /\ \A i \in Job \ {j} : jobs'[i] = jobs[i]
  BY <1>2 DEF CreateMaintenanceJob, JobInv, JobTables
<1>4. JobTables'
  BY <1>3 DEF JobInv, JobTables
<1>5. ReadingHolds'
  BY <1>3 DEF JobInv, JobTables, ReadingHolds, JobReadHolds, TaskReadHolds, Over
<1>6. QueuedIsFresh'
  BY <1>1, <1>2, <1>3 DEF JobInv, QueuedIsFresh
<1>7. JobOutcomeAgrees' /\ ReviewedJobRan' /\ reviews' \subseteq Job
  BY <1>2, <1>3 DEF JobInv, JobOutcomeAgrees, ReviewedJobRan
<1> QED BY <1>4, <1>5, <1>6, <1>7 DEF JobInv

\* A call that read the job knows a version the job has or had.
LEMMA ReadJobStep ==
  ASSUME JobInv, NEW j \in Job, NEW op, NEW expected, NEW processed \in Nat,
         ReadJob(j, op, expected, processed)
  PROVE  JobInv'
<1>1. PICK d : /\ d = [op |-> op, job |-> j, seen |-> jobs[j].state, expected |-> expected,
                       processed |-> processed, task |-> "unread"]
               /\ d = [op |-> d.op, job |-> d.job, seen |-> d.seen, expected |-> d.expected,
                       processed |-> d.processed, task |-> d.task]
               /\ d.job = j /\ d.op = op /\ d.seen = jobs[j].state /\ d.processed = processed
               /\ d.task = "unread"
  <2> DEFINE d == [op |-> op, job |-> j, seen |-> jobs[j].state, expected |-> expected,
                   processed |-> processed, task |-> "unread"]
  <2>1. /\ d = [op |-> d.op, job |-> d.job, seen |-> d.seen, expected |-> d.expected,
               processed |-> d.processed, task |-> d.task]
        /\ d.job = j /\ d.op = op /\ d.seen = jobs[j].state /\ d.processed = processed
        /\ d.task = "unread"
    OBVIOUS
  <2>2. d = [op |-> op, job |-> j, seen |-> jobs[j].state, expected |-> expected,
             processed |-> processed, task |-> "unread"]
    OBVIOUS
  <2> HIDE DEF d
  <2> QED BY <2>1, <2>2
<1>2. /\ jobs[j].state # "none"
      /\ op = "review" => jobs[j].state = "running"
  BY DEF ReadJob, ReviewableJob
<1>3. jobCalls' = jobCalls \cup {d} /\ UNCHANGED <<jobs, jobTasks, reviews>>
  BY <1>1 DEF ReadJob
<1>4. jobs[j].state \in JobState \ {"none"}
  <2>1. jobs[j] \in JobRow
    BY DEF JobInv, JobTables
  <2> QED BY <1>2, <2>1 DEF JobRow, ReadJob
<1>5. JobTables'
  BY <1>1, <1>3, <1>4 DEF JobInv, JobTables
<1>6. ReadingHolds'
  <2>1. JobReadHolds(d)'
    BY <1>1, <1>2, <1>3 DEF JobReadHolds
  <2>2. \A e \in jobCalls : JobReadHolds(e)' /\ (e.task # "unread" => TaskReadHolds(e)')
    BY <1>3 DEF JobInv, ReadingHolds, JobReadHolds, TaskReadHolds
  <2> QED BY <1>1, <1>3, <2>1, <2>2 DEF ReadingHolds
<1> QED BY <1>3, <1>5, <1>6 DEF JobInv, QueuedIsFresh, JobOutcomeAgrees, ReviewedJobRan

\* A call that read the task knows a status the task still has when it is terminal.
LEMMA ReadTaskStep ==
  ASSUME JobInv, NEW c \in jobCalls, ReadTask(c)
  PROVE  JobInv'
<1>1. /\ c = [op |-> c.op, job |-> c.job, seen |-> c.seen, expected |-> c.expected,
              processed |-> c.processed, task |-> c.task]
      /\ c.job \in Job /\ c.seen \in JobState \ {"none"} /\ c.processed \in Nat
      /\ jobTasks[c.job] \in TaskStatus
  BY DEF JobInv, JobTables
<1>2. PICK d : /\ d = [c EXCEPT !.task = jobTasks[c.job]]
               /\ d = [op |-> d.op, job |-> d.job, seen |-> d.seen, expected |-> d.expected,
                       processed |-> d.processed, task |-> d.task]
               /\ d.job = c.job /\ d.op = c.op /\ d.seen = c.seen /\ d.processed = c.processed
               /\ d.task = jobTasks[c.job]
  <2>1. [c EXCEPT !.task = jobTasks[c.job]] =
          [op |-> c.op, job |-> c.job, seen |-> c.seen, expected |-> c.expected,
           processed |-> c.processed, task |-> jobTasks[c.job]]
    BY <1>1
  <2> QED BY <2>1
<1>3. jobCalls' = (jobCalls \ {c}) \cup {d} /\ UNCHANGED <<jobs, jobTasks, reviews>>
  BY <1>2 DEF ReadTask
<1>4. JobTables'
  BY <1>1, <1>2, <1>3 DEF JobInv, JobTables
<1>5. TaskVerified(d, jobTasks[d.job])
  BY <1>2 DEF ReadTask, TaskVerified, TaskAdmitted, CheckpointAgrees, CancelAdmitted, ReportAgrees
<1>6. TaskReadHolds(d)
  BY <1>1, <1>2, <1>5 DEF TaskVerified, TaskAdmitted, CheckpointAgrees, CancelAdmitted, ReportAgrees,
              ExpectedStatus, Started, TaskReadHolds, Over, JobState
<1>7. JobReadHolds(d)
  <2>1. JobReadHolds(c)
    BY DEF JobInv, ReadingHolds
  <2> QED BY <1>2, <2>1 DEF JobReadHolds
<1>8. ReadingHolds'
  <2>1. JobReadHolds(d)' /\ TaskReadHolds(d)'
    BY <1>3, <1>6, <1>7 DEF JobReadHolds, TaskReadHolds
  <2>2. \A e \in jobCalls : JobReadHolds(e)' /\ (e.task # "unread" => TaskReadHolds(e)')
    BY <1>3 DEF JobInv, ReadingHolds, JobReadHolds, TaskReadHolds
  <2> QED BY <1>3, <2>1, <2>2 DEF ReadingHolds
<1> QED BY <1>3, <1>4, <1>8 DEF JobInv, QueuedIsFresh, JobOutcomeAgrees, ReviewedJobRan

\* A row that moves on: the other calls keep what they have read, because the row
\* was not over and does not go back.
LEMMA RowMovesOn ==
  ASSUME JobInv, NEW c \in jobCalls, NEW new \in JobRow,
         jobs[c.job].state \in {"queued", "running"},
         jobs' = [jobs EXCEPT ![c.job] = new], jobCalls' = jobCalls \ {c},
         UNCHANGED <<jobTasks, reviews>>,
         new.state \in Over \cup {"running"},
         new.state = "completed" => jobTasks[c.job] = "completed",
         new.state = "failed" => jobTasks[c.job] = "failed",
         new.state = "running" => jobTasks[c.job] \in Started,
         new.state = "cancelled" /\ new.checkpoint.state = "running" => jobTasks[c.job] = "aborted"
  PROVE  JobInv'
<1>1. /\ c.job \in Job /\ jobs'[c.job] = new /\ jobs' \in [Job -> JobRow]
      /\ \A i \in Job \ {c.job} : jobs'[i] = jobs[i]
  BY DEF JobInv, JobTables
<1>2. JobTables'
  BY <1>1 DEF JobInv, JobTables
<1>3. ReadingHolds'
  <2>1. ASSUME NEW e \in jobCalls PROVE JobReadHolds(e)' /\ (e.task # "unread" => TaskReadHolds(e)')
    <3>1. JobReadHolds(e) /\ (e.task # "unread" => TaskReadHolds(e)) /\ e.job \in Job
      BY DEF JobInv, JobTables, ReadingHolds
    <3>2. e.task # "unread" => TaskReadHolds(e)'
      BY <3>1 DEF TaskReadHolds
    <3>3. JobReadHolds(e)'
      BY <1>1, <3>1 DEF JobReadHolds, Over
    <3> QED BY <3>2, <3>3
  <2> QED BY <2>1 DEF ReadingHolds
<1>4. QueuedIsFresh'
  BY <1>1 DEF JobInv, QueuedIsFresh, Over
<1>5. JobOutcomeAgrees' /\ ReviewedJobRan' /\ reviews' \subseteq Job
  BY <1>1 DEF JobInv, JobOutcomeAgrees, ReviewedJobRan, Over, Started
<1> QED BY <1>2, <1>3, <1>4, <1>5 DEF JobInv

\* A checkpoint writes only over the version it read, with a status its task had.
LEMMA CheckpointStep ==
  ASSUME JobInv, NEW c \in jobCalls, CheckpointMaintenanceJob(c)
  PROVE  JobInv'
<1>1. PICK old \in JobRow : old = jobs[c.job]
  BY DEF JobInv, JobTables
<1>2. PICK v \in Nat, n \in Nat, op \in {"running", "completed", "failed", "cancelled"} :
        v = old.version + 1 /\ n = c.processed /\ op = c.op
  <2>1. old.version + 1 \in Nat
    BY DEF JobRow
  <2>2. c.processed \in Nat
    BY DEF JobInv, JobTables
  <2>3. c.op \in {"running", "completed", "failed", "cancelled"}
    BY DEF CheckpointMaintenanceJob
  <2> QED BY <2>1, <2>2, <2>3
<1> DEFINE new == [state |-> op, version |-> v, processed |-> n,
                   checkpoint |-> [state |-> op, processed |-> n]]
<1>3. new \in JobRow /\ new.state = op /\ new.checkpoint.state = op
  BY DEF JobRow, JobState
<1>4. /\ jobs[c.job].state \in {"queued", "running"} /\ c.task # "unread"
      /\ jobs' = [jobs EXCEPT ![c.job] = new] /\ jobCalls' = jobCalls \ {c}
      /\ UNCHANGED <<jobTasks, reviews>>
  BY <1>1, <1>2 DEF CheckpointMaintenanceJob
<1> HIDE DEF new
<1>5. /\ new.state = "completed" => jobTasks[c.job] = "completed"
      /\ new.state = "failed" => jobTasks[c.job] = "failed"
      /\ new.state = "running" => jobTasks[c.job] \in Started
  BY <1>2, <1>3, <1>4 DEF JobInv, ReadingHolds, TaskReadHolds
<1>6. new.state \in Over \cup {"running"}
  BY <1>3 DEF Over
<1> QED BY <1>3, <1>4, <1>5, <1>6, RowMovesOn

\* A cancellation writes only over the version it read (cancel_maintenance_job).
LEMMA CancelStep ==
  ASSUME JobInv, NEW c \in jobCalls, CancelMaintenanceJob(c)
  PROVE  JobInv'
<1>1. PICK old \in JobRow : old = jobs[c.job]
  BY DEF JobInv, JobTables
<1>2. PICK v \in Nat : v = old.version + 1
  BY DEF JobRow
<1> DEFINE new == [old EXCEPT !.state = "cancelled", !.version = v]
<1>3. new \in JobRow /\ new.state = "cancelled" /\ new.checkpoint = old.checkpoint
  BY ONLY TRUE DEF JobRow, JobState
<1>4. /\ c.op = "cancel" /\ c.task # "unread" /\ old.state \in {"queued", "running"}
      /\ old.state = "running" => c.task # "none"
      /\ jobCalls' = jobCalls \ {c} /\ UNCHANGED <<jobTasks, reviews>>
  BY <1>1 DEF CancelMaintenanceJob
<1>5. jobs' = [jobs EXCEPT ![c.job] = new]
  BY <1>1, <1>2 DEF CancelMaintenanceJob
<1> HIDE DEF new
<1>6. new.checkpoint.state = "running" => jobTasks[c.job] = "aborted"
  <2> SUFFICES ASSUME new.checkpoint.state = "running" PROVE jobTasks[c.job] = "aborted"
    OBVIOUS
  <2>1. old.state = "running"
    BY <1>1, <1>3, <1>4 DEF JobInv, JobTables, QueuedIsFresh
  <2> QED BY <1>1, <1>4, <2>1 DEF JobInv, ReadingHolds, JobReadHolds, TaskReadHolds, Over
<1>7. new.state \in Over \cup {"running"}
  BY <1>3 DEF Over
<1> QED BY <1>1, <1>3, <1>4, <1>5, <1>6, <1>7, RowMovesOn

\* A review is appended by the task that ran it; or a call ends.
LEMMA ReviewStep ==
  ASSUME JobInv, NEW c \in jobCalls, AppendDailyReview(c) \/ EndCall(c)
  PROVE  JobInv'
<1>1. /\ jobCalls' = jobCalls \ {c} /\ UNCHANGED <<jobs, jobTasks>>
      /\ \/ UNCHANGED reviews
         \/ reviews' = reviews \cup {c.job} /\ c.op = "review" /\ c.task # "unread"
  BY DEF AppendDailyReview, EndCall
<1>2. c.op = "review" /\ c.task # "unread" =>
        /\ jobTasks[c.job] \notin {"none", "queued"} /\ jobs[c.job].state \notin {"none", "queued"}
        /\ c.job \in Job
  BY DEF JobInv, JobTables, ReadingHolds, JobReadHolds, TaskReadHolds, Started
<1>3. ReviewedJobRan' /\ reviews' \subseteq Job
  BY <1>1, <1>2 DEF JobInv, ReviewedJobRan
<1> QED BY <1>1, <1>3 DEF JobInv, JobTables, ReadingHolds, JobReadHolds, TaskReadHolds,
                          QueuedIsFresh, JobOutcomeAgrees

\* The task moves: created, run, ended; never back.
LEMMA JobTaskMoves ==
  ASSUME JobInv,
         \/ \E c \in jobCalls : CreateJobTask(c)
         \/ \E j \in Job, status \in TaskStatus : JobTaskStep(j, status)
  PROVE  JobInv'
<1>1. PICK j \in Job, status \in TaskStatus :
        /\ jobTasks' = [jobTasks EXCEPT ![j] = status]
        /\ jobCalls' \subseteq jobCalls /\ UNCHANGED <<jobs, reviews>>
        /\ \/ jobTasks[j] = "none" /\ status = "queued"
           \/ jobTasks[j] = "queued" /\ status \in {"running", "failed", "aborted"}
           \/ jobTasks[j] = "running" /\ status \in EndedTask
  BY DEF CreateJobTask, JobTaskStep, JobInv, JobTables, TaskStatus
<1>2. /\ jobTasks' \in [Job -> TaskStatus] /\ jobTasks'[j] = status
      /\ \A i \in Job \ {j} : jobTasks'[i] = jobTasks[i]
  BY <1>1 DEF JobInv, JobTables
<1>3. JobTables'
  BY <1>1, <1>2 DEF JobInv, JobTables
<1>4. ReadingHolds'
  <2>1. ASSUME NEW e \in jobCalls PROVE JobReadHolds(e)' /\ (e.task # "unread" => TaskReadHolds(e)')
    <3>1. JobReadHolds(e) /\ (e.task # "unread" => TaskReadHolds(e)) /\ e.job \in Job
      BY DEF JobInv, JobTables, ReadingHolds
    <3>2. e.task # "unread" => TaskReadHolds(e)'
      BY <1>1, <1>2, <3>1 DEF TaskReadHolds, Started, EndedTask
    <3>3. JobReadHolds(e)'
      BY <1>1, <3>1 DEF JobReadHolds
    <3> QED BY <3>2, <3>3
  <2> QED BY <1>1, <2>1 DEF ReadingHolds
<1>5. JobOutcomeAgrees'
  BY <1>1, <1>2 DEF JobInv, JobOutcomeAgrees, EndedTask
<1>6. ReviewedJobRan' /\ reviews' \subseteq Job
  BY <1>1, <1>2 DEF JobInv, ReviewedJobRan, EndedTask
<1> QED BY <1>1, <1>3, <1>4, <1>5, <1>6 DEF JobInv, QueuedIsFresh

\* Every step of jobs, tasks, reviews and watches keeps the invariant.
LEMMA JobStep == JobInv /\ [JobNext \/ WatchNext \/ ObserveNext]_backVars => JobInv'
<1> SUFFICES ASSUME JobInv, [JobNext \/ WatchNext \/ ObserveNext]_backVars PROVE JobInv'
  OBVIOUS
<1>1. CASE UNCHANGED jobVars
  BY <1>1 DEF jobVars, JobInv, JobTables, ReadingHolds, JobReadHolds, TaskReadHolds, QueuedIsFresh,
              JobOutcomeAgrees, ReviewedJobRan
<1>2. UNCHANGED backVars \/ WatchNext \/ ObserveNext => UNCHANGED jobVars
  BY DEF backVars, jobVars, WatchNext, ObserveNext, CreateWatch, ScheduleWatch, CancelWatch,
         WatchTaskStep, FinalizeRead, RecordWatchObservation
<1>3. CASE JobNext
  <2>1. ASSUME NEW j \in Job, NEW op, NEW processed \in 0 .. MaxProcessed, NEW expected,
               ReadJob(j, op, expected, processed)
        PROVE  JobInv'
    <3>1. processed \in Nat
      BY JobAssumption
    <3> QED BY <2>1, <3>1, ReadJobStep
  <2>2. ASSUME NEW c \in jobCalls, ReadTask(c) PROVE JobInv'
    BY <2>2, ReadTaskStep
  <2>3. ASSUME NEW c \in jobCalls, CheckpointMaintenanceJob(c) PROVE JobInv'
    BY <2>3, CheckpointStep
  <2>4. ASSUME NEW c \in jobCalls, CancelMaintenanceJob(c) PROVE JobInv'
    BY <2>4, CancelStep
  <2>5. ASSUME NEW c \in jobCalls, AppendDailyReview(c) \/ EndCall(c) PROVE JobInv'
    BY <2>5, ReviewStep
  <2> QED
    BY <1>3, <2>1, <2>2, <2>3, <2>4, <2>5, CreateJobStep, JobTaskMoves DEF JobNext
<1> QED BY <1>1, <1>2, <1>3

\* The invariant of jobs, their tasks and the calls between them holds throughout.
THEOREM JobInvariant == BackgroundSpec => []JobInv
  BY JobInitially, JobStep, PTL DEF BackgroundSpec

\* The outcome of a job is the outcome of its task, and a job that ran has a task
\* that left the queue, across the two databases and any number of calls between.
THEOREM JobOutcomes == BackgroundSpec => []JobOutcomeAgrees
<1>1. JobInv => JobOutcomeAgrees
  BY DEF JobInv
<1> QED BY <1>1, JobInvariant, PTL

\* A daily review in the ledger is of a job that started, by a task that ran.
THEOREM JobReviews == BackgroundSpec => []ReviewedJobRan
<1>1. JobInv => ReviewedJobRan
  BY DEF JobInv
<1> QED BY <1>1, JobInvariant, PTL

(***************************************************************************)
(* Subscriptions                                                            *)
(*                                                                         *)
(* The worker holds a version and an output that the row may have left      *)
(* behind.  The invariant says what is still true of them: the row only     *)
(* moved forward, its output moved only when the worker recorded it, and    *)
(* what the worker is about to record is in the outbox or nothing new.      *)
(***************************************************************************)
Notice    == Output \cup {NoOutput}
Outcomes  == {"none", "queued", "accepted", "uncertain", "held", "delivered"}
BoxStatus == {"none", "queued", "leased", "started", "delivered", "failed", "uncertain"}
WorkerRow == [at : {"idle", "reconcile", "reconciling", "claim", "claiming", "claimed", "granted", "observed",
                    "send", "deliver", "sent", "unknown", "record", "recording", "settling"},
              version : Nat, output : Notice, outcome : Outcomes,
              next : {"none", "active", "paused", "uncertain"}]
SubscriptionRow ==
  [state : {"none", "active", "paused", "uncertain", "cancelled", "revoked"}, version : Nat,
   run : {"scheduled", "claimed", "completed"}, output : Notice, outcome : Outcomes,
   receipt : Notice, checked : Nat]

BiliTypeOK ==
  /\ worker \in WorkerRow /\ subscription \in SubscriptionRow
  /\ outbox \in [Output -> BoxStatus] /\ sendVersion \in [Output -> Nat]

\* A row that was never created is empty; a claim has a version; what could not be
\* settled does not go on.
RowIsSound ==
  /\ subscription.state = "none" => subscription.version = 0 /\ subscription.output = NoOutput
  /\ subscription.run = "claimed" => subscription.version > 0
  /\ subscription.outcome = "uncertain" => subscription.state \notin {"active", "paused"}

\* What the worker knows of the row it read.
WorkerIsBehind ==
  /\ worker.version <= subscription.version
  /\ worker.at \in {"claim", "claiming"} /\ worker.version = subscription.version
       => subscription.outcome \notin {"queued", "accepted"}

\* What the worker knows of the notification it sends.
WorkerKnowsNotice ==
  /\ worker.at \in {"observed", "send", "deliver", "sent", "unknown", "record", "recording"}
       => worker.output \in Output
  /\ worker.at = "deliver" => outbox[worker.output] = "none"
  /\ worker.at = "record" => outbox[worker.output] # "none" \/ worker.output = subscription.output

\* What the route has verified stays true until the store writes it: the outbox may
\* move in between, but a settled notice stays settled.
Settled(outcome, d) ==
  /\ outcome = "delivered" => outbox[d] = "delivered"
  /\ outcome = "held" => outbox[d] = "failed"

VerifiedIsKept ==
  /\ worker.at \in {"recording", "settling"} =>
       worker.next # "none" /\ (worker.outcome = "uncertain" => worker.next = "uncertain")
  /\ worker.at = "recording" =>
       /\ worker.next \in {"active", "paused"} => outbox[worker.output] # "none"
       /\ worker.outcome # "none" =>
            /\ outbox[worker.output] # "none" /\ sendVersion[worker.output] = worker.version
            /\ Settled(worker.outcome, worker.output)
  /\ worker.at = "settling" /\ worker.version = subscription.version =>
       (subscription.receipt # NoOutput => Settled(worker.outcome, subscription.receipt))

\* The row's receipt is of its last output, which the check it recorded has sent.
ReceiptIsSent ==
  subscription.receipt # NoOutput =>
    /\ subscription.receipt \in Output /\ outbox[subscription.receipt] # "none"
    /\ sendVersion[subscription.receipt] > 0 /\ subscription.checked > 0

BiliInv ==
  /\ BiliTypeOK /\ RowIsSound /\ WorkerIsBehind /\ WorkerKnowsNotice /\ VerifiedIsKept /\ ReceiptIsSent
  /\ OpenNoticeIsScheduled /\ ChangeWasAnnounced /\ ReceiptOfLastCheck

\* No delegation and an idle worker satisfy the invariant.
LEMMA BiliInitially == BiliInit => BiliInv
  BY OutputAssumption
  DEF BiliInit, BiliInv, BiliTypeOK, RowIsSound, WorkerIsBehind, WorkerKnowsNotice, VerifiedIsKept, ReceiptIsSent,
      OpenNoticeIsScheduled, ChangeWasAnnounced, ReceiptOfLastCheck, NoSubscription, Resting,
      WorkerRow, SubscriptionRow, Notice, Outcomes, BoxStatus, Pending

\* Owner steps that only touch the delegation, the authorization or the clock.
LEMMA BiliFrame ==
  ASSUME BiliInv, UNCHANGED <<subscription, outbox, sendVersion, worker>>
  PROVE  BiliInv'
  BY DEF BiliInv, BiliTypeOK, RowIsSound, WorkerIsBehind, WorkerKnowsNotice, VerifiedIsKept, Settled, ReceiptIsSent,
         OpenNoticeIsScheduled, ChangeWasAnnounced, ReceiptOfLastCheck

\* The worker moves on and holds no less than before.
LEMMA WorkerMoves ==
  ASSUME BiliInv, UNCHANGED <<subscription, outbox, sendVersion>>, worker' \in WorkerRow,
         WorkerIsBehind', WorkerKnowsNotice', VerifiedIsKept'
  PROVE  BiliInv'
  BY DEF BiliInv, BiliTypeOK, RowIsSound, ReceiptIsSent,
         OpenNoticeIsScheduled, ChangeWasAnnounced, ReceiptOfLastCheck

\* Moving the worker to another stage keeps what it holds.
LEMMA MoveKeeps ==
  ASSUME worker \in WorkerRow, NEW at, Move(at)
  PROVE  /\ worker'.at = at /\ worker'.version = worker.version /\ worker'.output = worker.output
         /\ worker'.outcome = worker.outcome /\ worker'.next = worker.next
         /\ at \in {"claiming", "granted", "send", "deliver", "sent", "unknown", "record"} => worker' \in WorkerRow
  BY DEF Move, WorkerRow

\* The outbox moves a notice forward; what is settled stays.
LEMMA OutboxStep ==
  ASSUME BiliInv, NEW d \in Output, OutboxMove(d)
  PROVE  BiliInv'
<1>1. PICK status \in BoxStatus :
        /\ outbox' = [outbox EXCEPT ![d] = status]
        /\ status # "none" /\ outbox[d] \notin {"none", "delivered", "failed"}
  <2>1. outbox[d] \in BoxStatus
    BY DEF BiliInv, BiliTypeOK
  <2>2. OutboxMoves[outbox[d]] \subseteq BoxStatus \ {"none"}
    BY <2>1 DEF OutboxMoves, BoxStatus
  <2>3. outbox[d] \in {"none", "delivered", "failed"} => OutboxMoves[outbox[d]] = {}
    BY <2>1 DEF OutboxMoves, BoxStatus
  <2> QED BY <2>2, <2>3 DEF OutboxMove
<1>2. /\ UNCHANGED <<subscription, sendVersion, worker>>
      /\ outbox'[d] = status /\ outbox' \in [Output -> BoxStatus]
      /\ \A e \in Output \ {d} : outbox'[e] = outbox[e]
  BY <1>1 DEF OutboxMove, BiliInv, BiliTypeOK
<1>3. BiliTypeOK' /\ RowIsSound' /\ WorkerIsBehind' /\ OpenNoticeIsScheduled'
  BY <1>2 DEF BiliInv, BiliTypeOK, RowIsSound, WorkerIsBehind, OpenNoticeIsScheduled
<1>4. WorkerKnowsNotice'
  BY <1>1, <1>2 DEF BiliInv, WorkerKnowsNotice
<1>5. ReceiptIsSent' /\ ReceiptOfLastCheck'
  BY <1>1, <1>2 DEF BiliInv, ReceiptIsSent, ReceiptOfLastCheck
<1>6. ChangeWasAnnounced'
  BY <1>1, <1>2 DEF BiliInv, BiliTypeOK, SubscriptionRow, Notice, ChangeWasAnnounced
<1>7. VerifiedIsKept'
  <2>1. \A e \in Output : \A o : Settled(o, e) => Settled(o, e)'
    BY <1>1, <1>2 DEF Settled
  <2>2. \A e \in Output : outbox[e] # "none" => outbox'[e] # "none"
    BY <1>1, <1>2
  <2> QED BY <1>2, <2>1, <2>2 DEF BiliInv, VerifiedIsKept, WorkerKnowsNotice, ReceiptIsSent
<1> QED BY <1>3, <1>4, <1>5, <1>6, <1>7 DEF BiliInv

\* The owner moves the row: its version grows, and what it says of its last check
\* stays.
LEMMA OwnerRowStep ==
  ASSUME BiliInv, UNCHANGED <<outbox, sendVersion, worker>>,
         NEW row \in SubscriptionRow, subscription' = row,
         row.version = subscription.version + 1,
         row.run # "claimed",
         row.output = subscription.output /\ row.outcome = subscription.outcome,
         row.receipt = subscription.receipt /\ row.checked = subscription.checked,
         row.state # "none",
         \/ row.state \notin {"active", "paused"}
         \/ subscription.state \in {"active", "paused"}
  PROVE  BiliInv'
<1>1. subscription.version \in Nat /\ worker.version \in Nat
  BY DEF BiliInv, BiliTypeOK, WorkerRow, SubscriptionRow
<1>2. BiliTypeOK' /\ RowIsSound' /\ OpenNoticeIsScheduled' /\ ReceiptIsSent'
  BY <1>1 DEF BiliInv, BiliTypeOK, RowIsSound, OpenNoticeIsScheduled, ReceiptIsSent
<1>3. WorkerIsBehind'
  BY <1>1 DEF BiliInv, WorkerIsBehind
<1>4. WorkerKnowsNotice' /\ ChangeWasAnnounced' /\ ReceiptOfLastCheck'
  BY DEF BiliInv, WorkerKnowsNotice, ChangeWasAnnounced, ReceiptOfLastCheck
<1>5. VerifiedIsKept'
  <2>1. worker.version # row.version
    BY <1>1 DEF BiliInv, WorkerIsBehind
  <2> QED BY <2>1 DEF BiliInv, VerifiedIsKept, Settled
<1> QED BY <1>2, <1>3, <1>4, <1>5 DEF BiliInv

\* The owner revokes the delegation or pauses, resumes and cancels the subscription.
LEMMA OwnerStep ==
  ASSUME BiliInv,
         \/ RevokeDelegation
         \/ \E next \in {"active", "paused", "cancelled"} : TransitionSubscription(next)
  PROVE  BiliInv'
<1>1. PICK s \in SubscriptionRow : s = subscription
  BY DEF BiliInv, BiliTypeOK
<1>2. PICK v \in Nat : v = s.version + 1
  BY DEF SubscriptionRow
<1>3. CASE RevokeDelegation /\ s.state \notin {"active", "paused", "uncertain"}
  BY <1>1, <1>3, BiliFrame DEF RevokeDelegation, RevokedRow
<1>4. CASE RevokeDelegation /\ s.state \in {"active", "paused", "uncertain"}
  <2> DEFINE row == [s EXCEPT !.version = v, !.state = "revoked", !.run = "completed"]
  <2>1. subscription' = row
    BY <1>1, <1>2, <1>4 DEF RevokeDelegation, RevokedRow, Bumped
  <2>2. /\ row \in SubscriptionRow /\ row.version = v /\ row.state = "revoked" /\ row.run = "completed"
        /\ row.output = s.output /\ row.outcome = s.outcome /\ row.receipt = s.receipt
        /\ row.checked = s.checked
    BY ONLY TRUE DEF SubscriptionRow
  <2>3. UNCHANGED <<outbox, sendVersion, worker>>
    BY <1>4 DEF RevokeDelegation
  <2> HIDE DEF row
  <2> QED BY <1>1, <1>2, <2>1, <2>2, <2>3, OwnerRowStep
<1>5. ASSUME NEW next \in {"active", "paused", "cancelled"}, TransitionSubscription(next)
      PROVE  BiliInv'
  <2>1. PICK run \in {"scheduled", "completed"} : run = RunFor(next)
    BY DEF RunFor
  <2> DEFINE row == [s EXCEPT !.version = v, !.state = next, !.run = run]
  <2>2. subscription' = row
    BY <1>1, <1>2, <1>5, <2>1 DEF TransitionSubscription, TransitionedRow, Bumped
  <2>3. /\ row \in SubscriptionRow /\ row.version = v /\ row.state = next /\ row.run = run
        /\ row.output = s.output /\ row.outcome = s.outcome /\ row.receipt = s.receipt
        /\ row.checked = s.checked
    BY ONLY TRUE DEF SubscriptionRow
  <2>4. /\ UNCHANGED <<outbox, sendVersion, worker>>
        /\ next # "cancelled" => s.state \in {"active", "paused"}
    BY <1>1, <1>5 DEF TransitionSubscription, MayTransition
  <2> HIDE DEF row
  <2> QED BY <1>1, <1>2, <2>1, <2>2, <2>3, <2>4, OwnerRowStep
<1> QED BY <1>3, <1>4, <1>5

\* A new subscription is active, scheduled and without a notice.
LEMMA CreateSubscriptionStep ==
  ASSUME BiliInv, CreateSubscription
  PROVE  BiliInv'
<1>1. /\ subscription' = [NoSubscription EXCEPT !.state = "active", !.version = 1, !.run = "scheduled"]
      /\ subscription.state = "none" /\ UNCHANGED <<outbox, sendVersion, worker>>
      /\ subscription.version = 0 /\ subscription.output = NoOutput
      /\ worker \in WorkerRow
  BY DEF CreateSubscription, BiliInv, RowIsSound, BiliTypeOK
<1>2. /\ subscription' \in SubscriptionRow /\ subscription'.version = 1 /\ subscription'.state = "active"
      /\ subscription'.run = "scheduled" /\ subscription'.output = NoOutput
      /\ subscription'.outcome = "none" /\ subscription'.receipt = NoOutput
  BY <1>1 DEF NoSubscription, SubscriptionRow, Notice, Outcomes
<1>3. BiliTypeOK' /\ RowIsSound' /\ OpenNoticeIsScheduled' /\ ReceiptIsSent' /\ ReceiptOfLastCheck'
      /\ ChangeWasAnnounced'
  BY <1>1, <1>2 DEF BiliInv, BiliTypeOK, RowIsSound, OpenNoticeIsScheduled, ReceiptIsSent,
                    ReceiptOfLastCheck, ChangeWasAnnounced
<1>4. WorkerIsBehind'
  <2>1. worker.version \in Nat
    BY <1>1 DEF WorkerRow
  <2> QED BY <1>1, <1>2, <2>1 DEF BiliInv, WorkerIsBehind
<1>5. WorkerKnowsNotice' /\ VerifiedIsKept'
  BY <1>1, <1>2 DEF BiliInv, WorkerKnowsNotice, VerifiedIsKept, Settled
<1> QED BY <1>3, <1>4, <1>5 DEF BiliInv

\* The worker starts a run, or gives one up.
LEMMA WorkerStartStep ==
  ASSUME BiliInv, WorkerStart \/ WorkerStops
  PROVE  BiliInv'
<1>1. PICK s \in SubscriptionRow : s = subscription
  BY DEF BiliInv, BiliTypeOK
<1>2. UNCHANGED <<subscription, outbox, sendVersion>> /\ s.version \in Nat
  BY DEF WorkerStart, WorkerStops, WorkerOnly, SubscriptionRow
<1>3. PICK at \in {"idle", "claim", "reconcile"}, v \in Nat :
        /\ worker' \in WorkerRow /\ worker'.at = at /\ worker'.version = v
        /\ v <= s.version
        /\ at = "claim" /\ v = s.version => s.outcome \notin {"queued", "accepted"}
  <2>1. CASE WorkerStops
    <3>1. worker' \in WorkerRow /\ worker'.at = "idle" /\ worker'.version = 0
      BY <2>1 DEF WorkerStops, Resting, WorkerRow, Notice, Outcomes
    <3>2. 0 <= s.version
      BY <1>2
    <3> QED BY <3>1, <3>2
  <2>2. CASE WorkerStart
    <3>1. PICK at \in {"claim", "reconcile"} : at = FirstDuty(s)
      BY DEF FirstDuty
    <3>2. s.run = "claimed" => s.version > 0
      BY <1>1 DEF BiliInv, RowIsSound
    <3>3. PICK v \in Nat : v = IF at = "claim" /\ s.run = "claimed" THEN s.version - 1 ELSE s.version
      BY <1>2, <3>2
    <3>4. worker' = [Resting EXCEPT !.at = at, !.version = v]
      BY <1>1, <2>2, <3>1, <3>3 DEF WorkerStart
    <3>5. v <= s.version /\ (at = "claim" /\ v = s.version => s.outcome \notin {"queued", "accepted"})
      BY <1>2, <3>1, <3>3 DEF FirstDuty
    <3>6. worker' \in WorkerRow /\ worker'.at = at /\ worker'.version = v
      BY <3>4 DEF Resting, WorkerRow, Notice, Outcomes
    <3> QED BY <3>5, <3>6
  <2> QED BY <2>1, <2>2
<1>5. WorkerIsBehind' /\ WorkerKnowsNotice' /\ VerifiedIsKept'
  BY <1>1, <1>2, <1>3 DEF WorkerIsBehind, WorkerKnowsNotice, VerifiedIsKept
<1> QED BY <1>2, <1>3, <1>5, WorkerMoves

\* Stages between the claim and the record in which the worker only decides.
LEMMA WorkerDecides ==
  ASSUME BiliInv,
         ClaimRoute \/ ClaimAnswered \/ Unchanged \/ FindPrior \/ FinalAuthorization \/ SendTaskFails
         \/ DeliveryUnknown
  PROVE  BiliInv'
<1>1. worker \in WorkerRow /\ UNCHANGED <<subscription, outbox, sendVersion>>
  BY DEF BiliInv, BiliTypeOK, ClaimRoute, ClaimAnswered, Unchanged, FindPrior, FinalAuthorization,
         SendTaskFails, DeliveryUnknown, WorkerOnly
<1>2. CASE ClaimRoute
  <2>1. worker.at = "claim" /\ Move("claiming")
    BY <1>2 DEF ClaimRoute
  <2>2. WorkerIsBehind' /\ WorkerKnowsNotice' /\ VerifiedIsKept' /\ worker' \in WorkerRow
    BY <1>1, <2>1, MoveKeeps DEF BiliInv, WorkerIsBehind, WorkerKnowsNotice, VerifiedIsKept
  <2> QED BY <1>1, <2>2, WorkerMoves
<1>3. CASE ClaimAnswered
  <2>1. Move("granted")
    BY <1>3 DEF ClaimAnswered
  <2>2. WorkerIsBehind' /\ WorkerKnowsNotice' /\ VerifiedIsKept' /\ worker' \in WorkerRow
    BY <1>1, <2>1, MoveKeeps DEF BiliInv, WorkerIsBehind, WorkerKnowsNotice, VerifiedIsKept
  <2> QED BY <1>1, <2>2, WorkerMoves
<1>4. CASE Unchanged
  <2>1. worker.at = "observed" /\ worker.output = subscription.output /\ Move("record")
    BY <1>4 DEF Unchanged
  <2>2. WorkerIsBehind' /\ WorkerKnowsNotice' /\ VerifiedIsKept' /\ worker' \in WorkerRow
    BY <1>1, <2>1, MoveKeeps DEF BiliInv, WorkerIsBehind, WorkerKnowsNotice, VerifiedIsKept
  <2> QED BY <1>1, <2>2, WorkerMoves
<1>5. CASE FindPrior \/ SendTaskFails
  <2>1. worker.at \in {"send", "deliver"} /\ Move("sent")
    BY <1>5 DEF FindPrior, SendTaskFails, SendTaskEnds
  <2>2. WorkerIsBehind' /\ WorkerKnowsNotice' /\ VerifiedIsKept' /\ worker' \in WorkerRow
    BY <1>1, <2>1, MoveKeeps DEF BiliInv, WorkerIsBehind, WorkerKnowsNotice, VerifiedIsKept
  <2> QED BY <1>1, <2>2, WorkerMoves
<1>6. CASE FinalAuthorization
  <2>1. worker.at = "send" /\ outbox[worker.output] = "none" /\ Move("deliver")
    BY <1>6 DEF FinalAuthorization
  <2>2. WorkerIsBehind' /\ WorkerKnowsNotice' /\ VerifiedIsKept' /\ worker' \in WorkerRow
    BY <1>1, <2>1, MoveKeeps DEF BiliInv, WorkerIsBehind, WorkerKnowsNotice, VerifiedIsKept
  <2> QED BY <1>1, <2>2, WorkerMoves
<1>7. CASE DeliveryUnknown
  <2>1. worker.at \in {"observed", "sent"} /\ Move("unknown")
    BY <1>7 DEF DeliveryUnknown, OutcomeUnknown
  <2>2. WorkerIsBehind' /\ WorkerKnowsNotice' /\ VerifiedIsKept' /\ worker' \in WorkerRow
    BY <1>1, <2>1, MoveKeeps DEF BiliInv, WorkerIsBehind, WorkerKnowsNotice, VerifiedIsKept
  <2> QED BY <1>1, <2>2, WorkerMoves
<1> QED BY <1>2, <1>3, <1>4, <1>5, <1>6, <1>7

\* A claim takes a scheduled row whose notice is settled, or repeats the claim.
LEMMA ClaimStep ==
  ASSUME BiliInv, ClaimSubscriptionCheck
  PROVE  BiliInv'
<1>1. PICK s \in SubscriptionRow : s = subscription
  BY DEF BiliInv, BiliTypeOK
<1>2. PICK w \in WorkerRow : w = worker
  BY DEF BiliInv, BiliTypeOK
<1>3. w.at = "claiming" /\ UNCHANGED <<outbox, sendVersion>> /\ s.version \in Nat
  BY <1>2 DEF ClaimSubscriptionCheck, SubscriptionRow
<1>4. PICK row \in ClaimRow(s, w.version) :
        subscription' = row /\ worker' = [w EXCEPT !.at = "claimed", !.version = row.version]
  BY <1>1, <1>2 DEF ClaimSubscriptionCheck
<1>5. /\ row \in SubscriptionRow /\ row.run = "claimed" /\ row.version > 0
      /\ row.output = s.output /\ row.outcome = s.outcome /\ row.receipt = s.receipt
      /\ row.checked = s.checked /\ row.state = s.state
      /\ row.outcome \notin Pending
      /\ s.state = "none" => row = s
  <2>1. CASE row = s /\ s.run = "claimed"
    BY <1>1, <2>1 DEF BiliInv, RowIsSound, OpenNoticeIsScheduled
  <2>2. CASE row = [Bumped(s) EXCEPT !.run = "claimed"] /\ s.version = w.version /\ s.state = "active"
    <3>1. PICK v \in Nat : v = s.version + 1
      BY <1>3
    <3>2. row = [s EXCEPT !.version = v, !.run = "claimed"] /\ v > 0
      BY <1>3, <2>2, <3>1 DEF Bumped
    <3>3. /\ row \in SubscriptionRow /\ row.run = "claimed" /\ row.version = v
          /\ row.output = s.output /\ row.outcome = s.outcome /\ row.receipt = s.receipt
          /\ row.checked = s.checked /\ row.state = s.state
      BY <3>2 DEF SubscriptionRow
    <3>4. s.outcome \notin Pending
      BY <1>1, <1>2, <1>3, <2>2 DEF BiliInv, WorkerIsBehind, RowIsSound, Pending
    <3> QED BY <2>2, <3>2, <3>3, <3>4
  <2> QED BY <1>4, <2>1, <2>2 DEF ClaimRow
<1>6. /\ worker' \in WorkerRow /\ worker'.at = "claimed" /\ worker'.version = row.version
      /\ worker'.output = w.output
  <2>1. PICK v \in Nat : v = row.version
    BY <1>5 DEF SubscriptionRow
  <2>2. worker' = [w EXCEPT !.at = "claimed", !.version = v]
    BY <1>4, <2>1
  <2> QED BY <2>1, <2>2 DEF WorkerRow
<1>7. row.version \in Nat
  BY <1>5 DEF SubscriptionRow
<1>8. BiliTypeOK' /\ RowIsSound' /\ OpenNoticeIsScheduled' /\ ReceiptIsSent' /\ ReceiptOfLastCheck'
      /\ ChangeWasAnnounced'
  BY <1>1, <1>3, <1>4, <1>5, <1>6
  DEF BiliInv, BiliTypeOK, RowIsSound, OpenNoticeIsScheduled, ReceiptIsSent, ReceiptOfLastCheck,
      ChangeWasAnnounced, Pending
<1>9. WorkerIsBehind' /\ WorkerKnowsNotice' /\ VerifiedIsKept'
  BY <1>4, <1>6, <1>7 DEF WorkerIsBehind, WorkerKnowsNotice, VerifiedIsKept
<1> QED BY <1>8, <1>9 DEF BiliInv

\* The worker reads an output, or cannot verify its read and rests.
LEMMA ReadStep ==
  ASSUME BiliInv, ReadOperation \/ ReadUnverified
  PROVE  BiliInv'
<1>1. PICK w \in WorkerRow : w = worker
  BY DEF BiliInv, BiliTypeOK
<1>2. UNCHANGED <<subscription, outbox, sendVersion>>
  BY DEF ReadOperation, ReadUnverified
<1>3. CASE ReadOperation
  <2>1. PICK d \in Output : worker' = [w EXCEPT !.at = "observed", !.output = d]
    BY <1>1, <1>3 DEF ReadOperation
  <2>2. /\ worker' \in WorkerRow /\ worker'.at = "observed" /\ worker'.output = d
        /\ worker'.version = w.version
    BY <2>1 DEF WorkerRow, Notice
  <2>3. WorkerIsBehind' /\ WorkerKnowsNotice' /\ VerifiedIsKept'
    BY <1>1, <1>2, <2>2 DEF BiliInv, WorkerIsBehind, WorkerKnowsNotice, VerifiedIsKept
  <2> QED BY <1>2, <2>2, <2>3, WorkerMoves
<1>4. CASE ReadUnverified
  <2>1. worker' \in WorkerRow /\ worker'.at = "idle" /\ worker'.version = 0
    BY <1>4 DEF ReadUnverified, Resting, WorkerRow, Notice, Outcomes
  <2>2. subscription.version \in Nat
    BY DEF BiliInv, BiliTypeOK, SubscriptionRow
  <2>3. WorkerIsBehind' /\ WorkerKnowsNotice' /\ VerifiedIsKept'
    BY <1>2, <2>1, <2>2 DEF WorkerIsBehind, WorkerKnowsNotice, VerifiedIsKept
  <2> QED BY <1>2, <2>1, <2>3, WorkerMoves
<1> QED BY <1>3, <1>4

\* A send Task is created; one that a recorded check has is not renamed.
LEMMA AuthorizeStep ==
  ASSUME BiliInv, AuthorizeNotification
  PROVE  BiliInv'
<1> DEFINE at == IF Ended(sendStatus[worker.output]) THEN "sent" ELSE "send"
<1>1. /\ worker.at = "observed" /\ Move(at) /\ UNCHANGED <<subscription, outbox>>
      /\ sendVersion' = [sendVersion EXCEPT ![worker.output] = IF @ = 0 THEN worker.version ELSE @]
      /\ worker \in WorkerRow /\ worker.output \in Output /\ sendVersion \in [Output -> Nat]
  BY DEF AuthorizeNotification, BiliInv, WorkerKnowsNotice, BiliTypeOK
<1>2. worker.version \in Nat
  BY <1>1 DEF WorkerRow
<1>3. /\ sendVersion' \in [Output -> Nat]
      /\ \A d \in Output : sendVersion[d] > 0 => sendVersion'[d] = sendVersion[d]
  BY <1>1, <1>2
<1>4. /\ worker' \in WorkerRow /\ worker'.at \in {"send", "sent"} /\ worker'.output = worker.output
      /\ worker'.version = worker.version
  BY <1>1, MoveKeeps
<1>5. BiliTypeOK' /\ RowIsSound' /\ OpenNoticeIsScheduled' /\ ReceiptIsSent' /\ ReceiptOfLastCheck'
      /\ ChangeWasAnnounced'
  BY <1>1, <1>3, <1>4
  DEF BiliInv, BiliTypeOK, RowIsSound, OpenNoticeIsScheduled, ReceiptIsSent, ReceiptOfLastCheck,
      ChangeWasAnnounced
<1>6. WorkerIsBehind' /\ WorkerKnowsNotice' /\ VerifiedIsKept'
  BY <1>1, <1>4 DEF BiliInv, WorkerIsBehind, WorkerKnowsNotice, VerifiedIsKept
<1> QED BY <1>5, <1>6 DEF BiliInv

\* A notice enters the outbox: there was none of this output.
LEMMA NoticeEnters ==
  ASSUME BiliInv, HoldNotification \/ Deliver
  PROVE  BiliInv'
<1>1. PICK d \in Output, status \in {"failed", "queued"} :
        d = worker.output /\ outbox' = [outbox EXCEPT ![d] = status] /\ outbox[d] = "none"
  BY DEF HoldNotification, Deliver, BiliInv, WorkerKnowsNotice
<1>2. /\ Move("sent") /\ UNCHANGED <<subscription, sendVersion>> /\ worker \in WorkerRow
      /\ outbox'[d] = status /\ outbox' \in [Output -> BoxStatus]
      /\ \A e \in Output \ {d} : outbox'[e] = outbox[e]
  BY <1>1 DEF HoldNotification, Deliver, SendTaskEnds, BiliInv, BiliTypeOK, BoxStatus
<1>3. /\ worker' \in WorkerRow /\ worker'.at = "sent" /\ worker'.output = d
      /\ worker'.version = worker.version
  BY <1>1, <1>2, MoveKeeps
<1>4. BiliTypeOK' /\ RowIsSound' /\ OpenNoticeIsScheduled'
  BY <1>2, <1>3 DEF BiliInv, BiliTypeOK, RowIsSound, OpenNoticeIsScheduled
<1>5. ReceiptIsSent' /\ ReceiptOfLastCheck'
  BY <1>1, <1>2 DEF BiliInv, ReceiptIsSent, ReceiptOfLastCheck
<1>6. ChangeWasAnnounced'
  BY <1>1, <1>2 DEF BiliInv, BiliTypeOK, SubscriptionRow, Notice, ChangeWasAnnounced
<1>7. WorkerIsBehind' /\ WorkerKnowsNotice' /\ VerifiedIsKept'
  BY <1>1, <1>2, <1>3 DEF BiliInv, WorkerIsBehind, WorkerKnowsNotice, VerifiedIsKept
<1> QED BY <1>4, <1>5, <1>6, <1>7 DEF BiliInv

\* The worker reads what became of the notice.
LEMMA OutcomeStep ==
  ASSUME BiliInv, ReadReceipt \/ ReadPending
  PROVE  BiliInv'
<1>1. PICK w \in WorkerRow : w = worker
  BY DEF BiliInv, BiliTypeOK
<1>2. UNCHANGED <<subscription, outbox, sendVersion>>
  BY DEF ReadReceipt, ReadPending, WorkerOnly
<1>3. \A d \in Output : outbox[d] # "none" => OutcomeOf(outbox[d]) \in Outcomes
  <2>1. ASSUME NEW st \in BoxStatus, st # "none" PROVE OutcomeOf(st) \in Outcomes
    BY <2>1, SMTT(40) DEF BoxStatus, OutcomeOf, Outcomes
  <2> QED BY <2>1 DEF BiliInv, BiliTypeOK
<1>4. PICK o \in Outcomes, at \in {"record", "reconciling"} :
        /\ worker' = [w EXCEPT !.at = at, !.outcome = o]
        /\ at = "record" => w.at = "sent" /\ outbox[w.output] # "none"
  <2>1. CASE ReadReceipt
    BY <1>1, <1>3, <2>1 DEF ReadReceipt, BiliInv, WorkerKnowsNotice
  <2>2. CASE ReadPending
    BY <1>1, <1>3, <2>2 DEF ReadPending, BiliInv, ReceiptIsSent
  <2> QED BY <2>1, <2>2
<1>5. /\ worker' \in WorkerRow /\ worker'.at = at /\ worker'.output = w.output
      /\ worker'.version = w.version
  BY <1>4 DEF WorkerRow
<1>6. WorkerIsBehind' /\ WorkerKnowsNotice' /\ VerifiedIsKept'
  BY <1>1, <1>2, <1>4, <1>5 DEF BiliInv, WorkerIsBehind, WorkerKnowsNotice, VerifiedIsKept
<1> QED BY <1>2, <1>5, <1>6, WorkerMoves

\* The worker records or reconciles: what the new row says of its notification is
\* what the outbox says, and the worker rests.
LEMMA WorkerWrites ==
  ASSUME BiliInv, UNCHANGED <<outbox, sendVersion>>, worker' = Resting,
         NEW row \in SubscriptionRow, subscription' = row,
         row.run # "claimed", row.state # "none", row.outcome = "uncertain" => row.state = "uncertain",
         row.output \in Output,
         row.state \in {"active", "paused"} => outbox[row.output] # "none",
         row.receipt # NoOutput =>
           /\ row.receipt = row.output /\ row.checked > 0
           /\ outbox[row.output] # "none" /\ sendVersion[row.output] = row.checked
           /\ row.outcome = "delivered" => outbox[row.output] = "delivered"
           /\ row.outcome = "held" => outbox[row.output] = "failed"
  PROVE  BiliInv'
<1>1. /\ worker' \in WorkerRow /\ worker'.at = "idle" /\ worker'.version = 0
  BY DEF Resting, WorkerRow, Notice, Outcomes
<1>2. row.version \in Nat
  BY DEF SubscriptionRow
<1>3. BiliTypeOK' /\ RowIsSound' /\ OpenNoticeIsScheduled'
  BY <1>1 DEF BiliInv, BiliTypeOK, RowIsSound, OpenNoticeIsScheduled
<1>4. WorkerIsBehind' /\ WorkerKnowsNotice' /\ VerifiedIsKept'
  BY <1>1, <1>2 DEF WorkerIsBehind, WorkerKnowsNotice, VerifiedIsKept
<1>5. ReceiptIsSent' /\ ReceiptOfLastCheck'
  BY DEF ReceiptIsSent, ReceiptOfLastCheck
<1>6. ChangeWasAnnounced'
  BY DEF ChangeWasAnnounced
<1> QED BY <1>3, <1>4, <1>5, <1>6 DEF BiliInv

\* What a verified notification says.
LEMMA VerifiedNotice ==
  ASSUME NEW version, NEW d \in Output, NEW outcome, NEW receipt,
         NotificationVerified(version, d, outcome, receipt), receipt # NoOutput
  PROVE  /\ receipt = d /\ outbox[d] # "none" /\ sendVersion[d] = version
         /\ Settled(outcome, d)
<1>1. receipt = d /\ outbox[d] # "none" /\ sendVersion[d] = version /\ outbox[d] \in StatusFor(outcome)
  BY DEF NotificationVerified, SendBound
<1>2. outcome = "delivered" => outbox[d] = "delivered"
  BY <1>1 DEF StatusFor
<1>3. outcome = "held" => outbox[d] = "failed"
  BY <1>1 DEF StatusFor
<1> QED BY <1>1, <1>2, <1>3 DEF Settled

\* The route verifies a check that the worker brings.
LEMMA VerifyCheckStep ==
  ASSUME BiliInv, VerifyCheck
  PROVE  BiliInv'
<1>1. PICK s \in SubscriptionRow : s = subscription
  BY DEF BiliInv, BiliTypeOK
<1>2. PICK w \in WorkerRow : w = worker
  BY DEF BiliInv, BiliTypeOK
<1>3. w.at \in {"record", "unknown"} /\ UNCHANGED <<subscription, outbox, sendVersion>>
  BY <1>2 DEF VerifyCheck, WorkerOnly
<1>4. PICK d \in Output : d = w.output
  BY <1>2, <1>3 DEF BiliInv, WorkerKnowsNotice
<1>5. PICK next \in {"active", "paused", "uncertain"} : next = StateAfter(w.at, w.outcome)
  BY DEF StateAfter, NextState
<1>6. /\ CheckVerified(s, w.version, d, w.outcome, ReceiptOf(d, w.outcome))
      /\ worker' = [w EXCEPT !.at = "recording", !.next = next]
  BY <1>1, <1>2, <1>4, <1>5 DEF VerifyCheck
<1>7. /\ worker' \in WorkerRow /\ worker'.at = "recording" /\ worker'.output = d
      /\ worker'.version = w.version /\ worker'.outcome = w.outcome /\ worker'.next = next
  BY <1>4, <1>6 DEF WorkerRow
<1>8. w.outcome = "uncertain" => next = "uncertain"
  BY <1>5 DEF StateAfter, NextState
<1>9. next \in {"active", "paused"} => outbox[d] # "none"
  <2>1. next \in {"active", "paused"} => w.at = "record"
    BY <1>3, <1>5 DEF StateAfter
  <2>2. w.at = "record" => outbox[d] # "none" \/ d = s.output
    BY <1>1, <1>2, <1>4 DEF BiliInv, WorkerKnowsNotice
  <2>3. s.state = "active"
    BY <1>1, <1>6 DEF CheckVerified, SubscriptionView
  <2>4. d = s.output => outbox[d] # "none"
    BY <1>1, <1>4, <2>3, OutputAssumption DEF BiliInv, ChangeWasAnnounced
  <2> QED BY <2>1, <2>2, <2>4
<1>10. w.outcome # "none" =>
         outbox[d] # "none" /\ sendVersion[d] = w.version /\ Settled(w.outcome, d)
  <2>1. w.outcome # "none" => NotificationVerified(w.version, d, w.outcome, d) /\ d # NoOutput
    BY <1>6, OutputAssumption DEF CheckVerified, ReceiptOf
  <2> QED BY <2>1, VerifiedNotice
<1>11. WorkerIsBehind' /\ WorkerKnowsNotice'
  BY <1>2, <1>3, <1>7 DEF BiliInv, WorkerIsBehind, WorkerKnowsNotice
<1>12. VerifiedIsKept'
  BY <1>3, <1>7, <1>8, <1>9, <1>10 DEF VerifiedIsKept, Settled
<1> QED BY <1>3, <1>7, <1>11, <1>12, WorkerMoves

\* The route verifies the notice of the last check once more.
LEMMA VerifyReconciliationStep ==
  ASSUME BiliInv, VerifyReconciliation
  PROVE  BiliInv'
<1>1. PICK s \in SubscriptionRow : s = subscription
  BY DEF BiliInv, BiliTypeOK
<1>2. PICK w \in WorkerRow : w = worker
  BY DEF BiliInv, BiliTypeOK
<1>3. UNCHANGED <<subscription, outbox, sendVersion>>
  BY DEF VerifyReconciliation, WorkerOnly
<1>4. PICK next \in {"active", "paused", "uncertain"} : next = NextState(w.outcome)
  BY DEF NextState
<1>5. /\ ReconcileVerified(s, w.version, w.outcome)
      /\ worker' = [w EXCEPT !.at = "settling", !.next = next]
  BY <1>1, <1>2, <1>4 DEF VerifyReconciliation
<1>6. /\ worker' \in WorkerRow /\ worker'.at = "settling" /\ worker'.output = w.output
      /\ worker'.version = w.version /\ worker'.outcome = w.outcome /\ worker'.next = next
  BY <1>5 DEF WorkerRow
<1>7. w.outcome = "uncertain" => next = "uncertain"
  BY <1>4 DEF NextState
<1>8. s.receipt # NoOutput => Settled(w.outcome, s.receipt)
  <2>1. s.receipt # NoOutput => s.receipt = s.output /\ s.output \in Output
    BY <1>1 DEF BiliInv, ReceiptOfLastCheck, ReceiptIsSent
  <2>2. NotificationVerified(s.checked, s.output, w.outcome, s.receipt)
    BY <1>5 DEF ReconcileVerified
  <2> QED BY <2>1, <2>2, VerifiedNotice
<1>9. WorkerIsBehind' /\ WorkerKnowsNotice'
  BY <1>2, <1>3, <1>6 DEF BiliInv, WorkerIsBehind, WorkerKnowsNotice
<1>10. VerifiedIsKept'
  BY <1>1, <1>3, <1>6, <1>7, <1>8 DEF VerifiedIsKept, Settled
<1> QED BY <1>3, <1>6, <1>9, <1>10, WorkerMoves

\* Recording a check: the output and the receipt are those the worker read and sent.
LEMMA RecordStep ==
  ASSUME BiliInv, RecordSubscriptionCheck
  PROVE  BiliInv'
<1>1. PICK s \in SubscriptionRow : s = subscription
  BY DEF BiliInv, BiliTypeOK
<1>2. PICK w \in WorkerRow : w = worker
  BY DEF BiliInv, BiliTypeOK
<1>3. /\ w.at = "recording" /\ UNCHANGED <<outbox, sendVersion>> /\ worker' = Resting
      /\ w.output \in Output
  BY <1>2 DEF RecordSubscriptionCheck, BiliInv, WorkerKnowsNotice
<1>4. PICK d \in Output : d = w.output
  BY <1>3
<1>5. PICK receipt \in Notice : receipt = ReceiptOf(d, w.outcome)
  BY DEF Notice, ReceiptOf
<1>6. PICK next \in {"active", "paused", "uncertain"} : next = w.next
  BY <1>2, <1>3 DEF BiliInv, VerifiedIsKept, WorkerRow
<1>7. /\ RecordableRow(s, w.version, d, receipt)
      /\ subscription' = RecordedRow(s, d, w.outcome, receipt, next)
  BY <1>1, <1>2, <1>4, <1>5, <1>6 DEF RecordSubscriptionCheck
<1>8. s.version = w.version /\ s.run = "claimed" /\ s.version > 0
  BY <1>1, <1>7 DEF RecordableRow, BiliInv, RowIsSound
<1>9. PICK v \in Nat, run \in {"scheduled", "completed"}, o \in Outcomes, c \in Nat :
        v = s.version + 1 /\ run = RunFor(next) /\ o = w.outcome /\ c = s.version
  <2>1. s.version \in Nat /\ s.version + 1 \in Nat /\ w.outcome \in Outcomes
    BY DEF SubscriptionRow, WorkerRow
  <2>2. RunFor(next) \in {"scheduled", "completed"}
    BY DEF RunFor
  <2> QED BY <2>1, <2>2
<1> DEFINE row == [s EXCEPT !.version = v, !.output = d, !.outcome = o, !.receipt = receipt,
                            !.state = next, !.run = run, !.checked = c]
<1>10. subscription' = row
  BY <1>7, <1>9 DEF RecordedRow, Bumped
<1>11. /\ row \in SubscriptionRow /\ row.run = run /\ row.state = next /\ row.outcome = o
       /\ row.output = d /\ row.receipt = receipt /\ row.checked = c
  BY ONLY TRUE DEF SubscriptionRow, Notice
<1> HIDE DEF row
<1>12. o = "uncertain" => next = "uncertain"
  BY <1>2, <1>3, <1>6, <1>9 DEF BiliInv, VerifiedIsKept
<1>13. next \in {"active", "paused"} => outbox[d] # "none"
  BY <1>2, <1>3, <1>4, <1>6 DEF BiliInv, VerifiedIsKept
<1>14. receipt # NoOutput =>
         /\ receipt = d /\ outbox[d] # "none" /\ sendVersion[d] = c /\ c > 0
         /\ o = "delivered" => outbox[d] = "delivered"
         /\ o = "held" => outbox[d] = "failed"
  BY <1>2, <1>3, <1>4, <1>5, <1>8, <1>9 DEF BiliInv, VerifiedIsKept, Settled, ReceiptOf
<1> QED BY <1>3, <1>9, <1>10, <1>11, <1>12, <1>13, <1>14, WorkerWrites

\* A settled notice closes the run it belongs to, of the same version only.
LEMMA ReconcileStep ==
  ASSUME BiliInv, ReconcileSubscriptionNotification
  PROVE  BiliInv'
<1>1. PICK s \in SubscriptionRow : s = subscription
  BY DEF BiliInv, BiliTypeOK
<1>2. PICK w \in WorkerRow : w = worker
  BY DEF BiliInv, BiliTypeOK
<1>3. w.at = "settling" /\ UNCHANGED <<outbox, sendVersion>> /\ worker' = Resting
  BY <1>2 DEF ReconcileSubscriptionNotification
<1>4. PICK next \in {"active", "paused", "uncertain"} : next = w.next
  BY <1>2, <1>3 DEF BiliInv, VerifiedIsKept, WorkerRow
<1>5. /\ ReconcilableRow(s, w.version, w.outcome, next)
      /\ subscription' = ReconciledRow(s, w.outcome, next)
  BY <1>1, <1>2, <1>4 DEF ReconcileSubscriptionNotification
<1>6. /\ s.checked > 0 /\ s.receipt # NoOutput /\ s.version = w.version
      /\ s.receipt = s.output /\ s.output \in Output
      /\ outbox[s.output] # "none" /\ sendVersion[s.output] = s.checked
  BY <1>1, <1>5 DEF ReconcilableRow, BiliInv, ReceiptOfLastCheck, ReceiptIsSent
<1>7. PICK v \in Nat, run \in {"scheduled", "completed"}, o \in Outcomes :
        v = s.version + 1 /\ run = RunFor(next) /\ o = w.outcome
  <2>1. s.version + 1 \in Nat /\ w.outcome \in Outcomes
    BY DEF SubscriptionRow, WorkerRow
  <2>2. RunFor(next) \in {"scheduled", "completed"}
    BY DEF RunFor
  <2> QED BY <2>1, <2>2
<1> DEFINE row == [s EXCEPT !.version = v, !.outcome = o, !.state = next, !.run = run]
<1>8. subscription' = row
  BY <1>5, <1>7 DEF ReconciledRow, Bumped
<1>9. /\ row \in SubscriptionRow /\ row.run = run /\ row.state = next /\ row.outcome = o
      /\ row.output = s.output /\ row.receipt = s.receipt /\ row.checked = s.checked
  BY ONLY TRUE DEF SubscriptionRow
<1> HIDE DEF row
<1>10. o = "uncertain" => next = "uncertain"
  BY <1>2, <1>3, <1>4, <1>7 DEF BiliInv, VerifiedIsKept
<1>11. /\ o = "delivered" => outbox[s.output] = "delivered"
       /\ o = "held" => outbox[s.output] = "failed"
  BY <1>1, <1>2, <1>3, <1>6, <1>7 DEF BiliInv, VerifiedIsKept, Settled
<1> QED BY <1>3, <1>6, <1>7, <1>8, <1>9, <1>10, <1>11, WorkerWrites

\* Every step of owner, worker, outbox and clock keeps the invariant.
LEMMA BiliStep == BiliInv /\ [BiliNext]_biliVars => BiliInv'
<1> SUFFICES ASSUME BiliInv, [BiliNext]_biliVars PROVE BiliInv'
  OBVIOUS
<1>1. CASE CreateDelegation \/ Reauthorize \/ Tick \/ UNCHANGED biliVars
  BY <1>1, BiliFrame DEF CreateDelegation, Reauthorize, Tick, biliVars
<1>2. CASE \/ RevokeDelegation
           \/ \E next \in {"active", "paused", "cancelled"} : TransitionSubscription(next)
  BY <1>2, OwnerStep
<1>3. CASE CreateSubscription
  BY <1>3, CreateSubscriptionStep
<1>4. CASE \E d \in Output : OutboxMove(d)
  BY <1>4, OutboxStep
<1>5. CASE WorkerStart \/ WorkerStops
  BY <1>5, WorkerStartStep
<1>6. CASE \/ ClaimRoute \/ ClaimAnswered \/ Unchanged \/ FindPrior \/ FinalAuthorization
           \/ SendTaskFails \/ DeliveryUnknown
  BY <1>6, WorkerDecides
<1>7. CASE ClaimSubscriptionCheck
  BY <1>7, ClaimStep
<1>8. CASE ReadOperation \/ ReadUnverified
  BY <1>8, ReadStep
<1>9. CASE AuthorizeNotification
  BY <1>9, AuthorizeStep
<1>10. CASE HoldNotification \/ Deliver
  BY <1>10, NoticeEnters
<1>11. CASE ReadReceipt \/ ReadPending
  BY <1>11, OutcomeStep
<1>12. CASE RecordSubscriptionCheck
  BY <1>12, RecordStep
<1>13. CASE ReconcileSubscriptionNotification
  BY <1>13, ReconcileStep
<1>14. CASE VerifyCheck
  BY <1>14, VerifyCheckStep
<1>15. CASE VerifyReconciliation
  BY <1>15, VerifyReconciliationStep
<1> QED
  BY <1>1, <1>2, <1>3, <1>4, <1>5, <1>6, <1>7, <1>8, <1>9, <1>10, <1>11, <1>12, <1>13, <1>14, <1>15
  DEF BiliNext, WorkerNext, OwnerNext

\* The inductive invariant of the Bilibili standing read, for any outputs and any
\* number of versions of the row.
THEOREM BiliInvariant == BiliSpec => []BiliInv
  BY BiliInitially, BiliStep, PTL DEF BiliSpec

\* claim_subscription_check never claims a row whose notification is still open, so
\* reconcile_subscription_notification can always reach it.
THEOREM SubscriptionOpenNotice == BiliSpec => []OpenNoticeIsScheduled
<1>1. BiliInv => OpenNoticeIsScheduled
  BY DEF BiliInv
<1> QED BY <1>1, BiliInvariant, PTL

\* Every output that an active or paused row moved past is in the outbox.
THEOREM SubscriptionAnnounced == BiliSpec => []ChangeWasAnnounced
<1>1. BiliInv => ChangeWasAnnounced
  BY DEF BiliInv
<1> QED BY <1>1, BiliInvariant, PTL

\* The row's receipt is of its last output, was sent by the check that recorded it,
\* and its settled outcome is the outbox's settled status.
THEOREM SubscriptionReceipt == BiliSpec => []ReceiptOfLastCheck
<1>1. BiliInv => ReceiptOfLastCheck
  BY DEF BiliInv
<1> QED BY <1>1, BiliInvariant, PTL

-----------------------------------------------------------------------------
(* The import and rollback of an archive.                                  *)

LessThan == {ss \in Nat \X Nat : ss[1] < ss[2]}

\* The order on the naturals as a relation, for minima of sets of row numbers.
LEMMA LessThanIsWellFounded == IsWellFoundedOn(LessThan, Nat)
  BY NatLessThanWellFounded, Zenon DEF OpToRel, LessThan

\* A nonempty set of naturals has a least element.
LEMMA HasLeast ==
  ASSUME NEW S, S \subseteq Nat, S # {}
  PROVE  \E m \in S : \A k \in S : m <= k
<1>1. PICK m \in S : \A k \in S : ~(<<k, m>> \in LessThan)
  BY LessThanIsWellFounded, WFMin
<1>2. \A k \in Nat, l \in Nat : k < l => <<k, l>> \in LessThan
  BY DEF LessThan
<1>3. ASSUME NEW k \in S PROVE m <= k
  <2>1. k \in Nat /\ m \in Nat
    OBVIOUS
  <2>2. ~(k < m)
    BY <1>1, <1>2, <2>1, Zenon
  <2> QED BY <2>1, <2>2
<1> QED BY <1>3

\* The reverse walk of a rollback takes a row of those left.
LEMMA MaxIsMember ==
  ASSUME NEW n \in Nat, NEW S, S \subseteq 0 .. n, S # {}
  PROVE  Max(S) \in S
<1> DEFINE T == {n - x : x \in S}
<1>1. \A x \in S : x \in Nat /\ n - x \in Nat
  OBVIOUS
<1>2. T \subseteq Nat /\ T # {}
  <2>1. PICK x \in S : TRUE
    OBVIOUS
  <2> QED BY <1>1, <2>1
<1>3. PICK m \in T : \A k \in T : m <= k
  BY <1>2, HasLeast
<1>4. PICK x \in S : m = n - x
  OBVIOUS
<1>5. \A y \in S : x >= y
  BY <1>1, <1>3, <1>4
<1> QED BY <1>5 DEF Max

Intents == {"none", "started", "verified", "verifiedCandidate", "notApplied"}
Entities == {"absent", "live", "candidate", "proposed", "gone", "invalidated", "superseded"}
Holdings == {"absent", "partial", "exact"}
Checkpoints == {"none", "projected", "candidate", "quarantined"}
WritePc == {"write", "upsert", "complete", "candidate"}
ApplyPc == WritePc \union {"row", "checkpoint"}
CompensatePc == {"compensate", "delete", "snapshot", "receipt"}
UndoPc == CompensatePc \union {"undo"}
Calls == [pc : ApplyPc \union UndoPc \union {"tail", "fence"}, batch : ImportBatch, row : Row,
          job : {"plain", "approved", "rollback"}]

MigrationTypeOK ==
  /\ plan \in ImportBatch
  /\ intent \in [ImportBatch -> [Row -> Intents]]
  /\ entity \in [ImportBatch -> [Row -> Entities]]
  /\ provider \in [ImportBatch -> [Row -> Holdings]]
  /\ checkpoint \in [ImportBatch -> [Row -> Checkpoints]]
  /\ rolledBack \subseteq ImportBatch
  /\ call \in Calls \union {Idle}

\* Nothing is written of a row before its intent, nor after it was declared not applied.
UnstartedIsAbsent ==
  \A b \in ImportBatch, i \in Row :
    intent[b][i] \in {"none", "notApplied"} => entity[b][i] = "absent" /\ provider[b][i] = "absent"

\* Rows are taken in order: every row before one that was touched has its checkpoint.
RowsInOrder ==
  \A b \in ImportBatch, i \in Row, j \in Row :
    j < i /\ (checkpoint[b][i] # "none" \/ intent[b][i] # "none") => checkpoint[b][j] # "none"

\* A projection is checkpointed with the evidence of its operation.
ProjectedIsVerified ==
  \A b \in ImportBatch, i \in Row :
    checkpoint[b][i] \in {"projected", "candidate"} => intent[b][i] \in {"verified", "verifiedCandidate"}

\* A row with an intent still normalizes: the rows it is derived from stay known.
IntentNormalizes ==
  \A b \in ImportBatch, i \in Row : intent[b][i] # "none" => Normalizes(b, i)

\* What a running call knows of its batch and row.
CallKnows(c) ==
  /\ c.batch \notin rolledBack
  /\ c.pc \in ApplyPc \union {"fence"} =>
       /\ checkpoint[c.batch][c.row] = "none"
       /\ \A j \in Row : j < c.row => checkpoint[c.batch][j] # "none"
  /\ c.pc \in WritePc => /\ intent[c.batch][c.row] \notin {"none", "notApplied"}
                         /\ Normalizes(c.batch, c.row)
  /\ c.pc = "fence" => /\ Normalizes(c.batch, c.row)
                       /\ entity[c.batch][c.row] = "absent" /\ provider[c.batch][c.row] = "absent"
  /\ c.pc \in CompensatePc \union {"checkpoint"} => intent[c.batch][c.row] \in {"verified", "verifiedCandidate"}
  /\ c.pc \in UndoPc \union {"fence"} => \A j \in Row : checkpoint[c.batch][j] = "none" => ~Visible(c.batch, j)

CallIsSound == call # Idle => CallKnows(call)

MigrationInv ==
  /\ MigrationTypeOK /\ UnstartedIsAbsent /\ RowsInOrder /\ ProjectedIsVerified
  /\ IntentNormalizes /\ CallIsSound /\ NothingLeftBehind

\* Before any apply there is nothing to undo.
LEMMA MigrationInitially == MigrationInit => MigrationInv
<1> SUFFICES ASSUME MigrationInit PROVE MigrationInv
  OBVIOUS
<1>1. MigrationTypeOK
  BY MigrationAssumption
  DEF MigrationInit, MigrationTypeOK, Intents, Entities, Holdings, Checkpoints, ImportBatch, Idle
<1>2. UnstartedIsAbsent /\ RowsInOrder /\ ProjectedIsVerified /\ CallIsSound
  BY DEF MigrationInit, UnstartedIsAbsent, RowsInOrder, ProjectedIsVerified, CallIsSound, Row
<1>3. IntentNormalizes
  BY DEF MigrationInit, IntentNormalizes
<1>4. NothingLeftBehind
  BY DEF MigrationInit, NothingLeftBehind
<1> QED BY <1>1, <1>2, <1>3, <1>4 DEF MigrationInv

\* The next row is the first one without a checkpoint.
LEMMA NextRowIsFirst ==
  ASSUME MigrationInv, NEW b \in ImportBatch
  PROVE  /\ NextRow(b) \in Nat \ {0} /\ NextRow(b) <= RowCount + 1
         /\ \A j \in Row : j < NextRow(b) <=> checkpoint[b][j] # "none"
<1> DEFINE S == {i \in Row : checkpoint[b][i] # "none"}
           T == Row \ S
<1>1. RowCount \in Nat /\ Row \subseteq Nat /\ \A i \in Row : i >= 1 /\ i <= RowCount
  BY MigrationAssumption DEF Row
<1>2. CASE T = {}
  <2>1. S = 1 .. RowCount
    BY <1>2 DEF Row
  <2>2. NextRow(b) = RowCount + 1
    <3>1. Cardinality(1 .. RowCount) = IF 1 > RowCount THEN 0 ELSE RowCount - 1 + 1
      BY <1>1, FS_Interval
    <3>2. NextRow(b) = 1 + Cardinality(S)
      BY DEF NextRow
    <3> HIDE DEF S
    <3> QED BY <1>1, <2>1, <3>1, <3>2
  <2>3. \A j \in Row : checkpoint[b][j] # "none"
    BY <1>2
  <2> QED BY <1>1, <2>2, <2>3
<1>3. CASE T # {}
  <2>1. PICK m \in T : \A k \in T : m <= k
    BY <1>1, <1>3, HasLeast
  <2>2. m \in Nat /\ m >= 1 /\ m <= RowCount /\ checkpoint[b][m] = "none" /\ m \in Row
    BY <1>1
  <2>3. \A j \in Row : j < m <=> checkpoint[b][j] # "none"
    <3>1. ASSUME NEW j \in Row, j < m PROVE checkpoint[b][j] # "none"
      BY <1>1, <2>1, <2>2, <3>1
    <3>2. ASSUME NEW j \in Row, checkpoint[b][j] # "none" PROVE j < m
      <4>1. j \in Nat /\ j # m
        BY <1>1, <2>2, <3>2
      <4>2. ~(m < j)
        BY <2>2, <3>2 DEF MigrationInv, RowsInOrder
      <4> QED BY <2>2, <4>1, <4>2
    <3> QED BY <3>1, <3>2
  <2>4. S = 1 .. (m - 1)
    <3>1. \A j : j \in S <=> j \in Row /\ j < m
      BY <2>3
    <3>2. \A j : j \in 1 .. (m - 1) <=> j \in Row /\ j < m
      BY <1>1, <2>2 DEF Row
    <3> HIDE DEF S
    <3> QED BY <3>1, <3>2
  <2>5. Cardinality(S) = m - 1
    <3>1. m - 1 \in Int /\ Cardinality(1 .. (m - 1)) = IF 1 > m - 1 THEN 0 ELSE (m - 1) - 1 + 1
      BY <2>2, FS_Interval
    <3> HIDE DEF S
    <3> QED BY <2>2, <2>4, <3>1
  <2>6. NextRow(b) = m
    BY <2>2, <2>5 DEF NextRow
  <2> QED BY <1>1, <2>2, <2>3, <2>6
<1> QED BY <1>2, <1>3

\* A step of the call that writes nothing of the batch.
LEMMA CallMoves ==
  ASSUME MigrationInv, UNCHANGED <<archive, intent, entity, provider, checkpoint, rolledBack>>,
         plan' \in ImportBatch, NEW c, call' = c, c = Idle \/ (c \in Calls /\ CallKnows(c))
  PROVE  MigrationInv'
<1>1. MigrationTypeOK'
  BY DEF MigrationInv, MigrationTypeOK
<1>2. UnstartedIsAbsent' /\ RowsInOrder' /\ ProjectedIsVerified'
  BY DEF MigrationInv, UnstartedIsAbsent, RowsInOrder, ProjectedIsVerified
<1>3. \A b, i : (Normalizes(b, i)' <=> Normalizes(b, i)) /\ (Visible(b, i)' <=> Visible(b, i))
  BY DEF Normalizes, Known, Visible
<1>4. IntentNormalizes' /\ NothingLeftBehind'
  BY <1>3 DEF MigrationInv, IntentNormalizes, NothingLeftBehind
<1>5. CallIsSound'
  <2>1. CallKnows(c) => CallKnows(c)'
    BY <1>3 DEF CallKnows
  <2>2. c = Idle => CallIsSound'
    BY DEF CallIsSound, Idle
  <2>3. CallKnows(c)' => CallIsSound'
    BY DEF CallIsSound
  <2> QED BY <2>1, <2>2, <2>3
<1> QED BY <1>1, <1>2, <1>4, <1>5 DEF MigrationInv

\* Entities are taken back: nothing becomes visible.
LEMMA EntitiesFall ==
  ASSUME MigrationInv, UNCHANGED <<archive, plan, intent, checkpoint, rolledBack>>,
         entity' \in [ImportBatch -> [Row -> Entities]], provider' \in [ImportBatch -> [Row -> Holdings]],
         \A b \in ImportBatch, i \in Row :
           /\ intent[b][i] \in {"none", "notApplied"} => entity'[b][i] = "absent" /\ provider'[b][i] = "absent"
           /\ Visible(b, i)' => Visible(b, i),
         NEW c, call' = c, c = Idle \/ (c \in Calls /\ CallKnows(c)),
         c.pc = "fence" => /\ entity'[c.batch][c.row] = entity[c.batch][c.row]
                           /\ provider'[c.batch][c.row] = provider[c.batch][c.row]
  PROVE  MigrationInv'
<1>1. MigrationTypeOK'
  BY DEF MigrationInv, MigrationTypeOK
<1>2. UnstartedIsAbsent' /\ RowsInOrder' /\ ProjectedIsVerified'
  BY DEF MigrationInv, UnstartedIsAbsent, RowsInOrder, ProjectedIsVerified
<1>3. \A b, i : Normalizes(b, i)' <=> Normalizes(b, i)
  BY DEF Normalizes, Known
<1>4. IntentNormalizes' /\ NothingLeftBehind'
  BY <1>3 DEF MigrationInv, MigrationTypeOK, IntentNormalizes, NothingLeftBehind
<1>5. CallIsSound'
  <2>1. c \in Calls /\ CallKnows(c) => CallKnows(c)'
    BY <1>3 DEF CallKnows, Calls
  <2>2. c = Idle => CallIsSound'
    BY DEF CallIsSound, Idle
  <2>3. CallKnows(c)' => CallIsSound'
    BY DEF CallIsSound
  <2> QED BY <2>1, <2>2, <2>3
<1> QED BY <1>1, <1>2, <1>4, <1>5 DEF MigrationInv

\* The row of an apply is written.
LEMMA RowIsWritten ==
  ASSUME MigrationInv, UNCHANGED <<archive, plan, intent, checkpoint, rolledBack>>,
         NEW c \in Calls, call = c, c.pc \in WritePc,
         entity' \in [ImportBatch -> [Row -> Entities]], provider' \in [ImportBatch -> [Row -> Holdings]],
         \A b \in ImportBatch, i \in Row :
           b # c.batch \/ i # c.row => entity'[b][i] = entity[b][i] /\ provider'[b][i] = provider[b][i],
         NEW d, call' = d,
         d = Idle \/ (d \in Calls /\ d.pc \in WritePc /\ d.batch = c.batch /\ d.row = c.row)
  PROVE  MigrationInv'
<1>1. MigrationTypeOK'
  BY DEF MigrationInv, MigrationTypeOK
<1>2. /\ c.batch \in ImportBatch /\ c.row \in Row /\ c.batch \notin rolledBack
      /\ intent[c.batch][c.row] \notin {"none", "notApplied"}
      /\ CallKnows(c)
  <2>1. c # Idle
    BY DEF Idle, WritePc
  <2> QED BY <2>1 DEF MigrationInv, CallIsSound, CallKnows, Calls
<1>3. UnstartedIsAbsent' /\ RowsInOrder' /\ ProjectedIsVerified'
  BY <1>2 DEF MigrationInv, UnstartedIsAbsent, RowsInOrder, ProjectedIsVerified
<1>4. \A b, i : Normalizes(b, i)' <=> Normalizes(b, i)
  BY DEF Normalizes, Known
<1>5. IntentNormalizes'
  BY <1>4 DEF MigrationInv, IntentNormalizes
<1>6. NothingLeftBehind'
  <2>1. \A b \in rolledBack, i \in Row : Visible(b, i)' <=> Visible(b, i)
    BY <1>2, ZenonT(60) DEF MigrationInv, MigrationTypeOK, Visible
  <2> QED BY <2>1 DEF MigrationInv, NothingLeftBehind
<1>7. CallIsSound'
  <2>1. d \in Calls /\ d.pc \in WritePc /\ d.batch = c.batch /\ d.row = c.row => CallKnows(d)'
    BY <1>2, <1>4 DEF CallKnows, ApplyPc, WritePc, CompensatePc, UndoPc
  <2>2. d = Idle => CallIsSound'
    BY DEF CallIsSound, Idle
  <2>3. CallKnows(d)' => CallIsSound'
    BY DEF CallIsSound
  <2> QED BY <2>1, <2>2, <2>3
<1> QED BY <1>1, <1>3, <1>5, <1>6, <1>7 DEF MigrationInv

\* The operation of the next row is recorded, completed or declared not applied.
LEMMA IntentIsSet ==
  ASSUME MigrationInv, UNCHANGED <<archive, plan, entity, provider, checkpoint, rolledBack>>,
         NEW b \in ImportBatch, NEW i \in Row, NEW v \in Intents \ {"none"},
         intent' = [intent EXCEPT ![b] = [intent[b] EXCEPT ![i] = v]],
         checkpoint[b][i] = "none", \A j \in Row : j < i => checkpoint[b][j] # "none",
         Normalizes(b, i),
         v = "notApplied" => entity[b][i] = "absent" /\ provider[b][i] = "absent",
         NEW d, call' = d, d = Idle \/ (d \in Calls /\ CallKnows(d)')
  PROVE  MigrationInv'
<1>1. /\ intent' \in [ImportBatch -> [Row -> Intents]] /\ intent'[b][i] = v
      /\ \A c \in ImportBatch, j \in Row : c # b \/ j # i => intent'[c][j] = intent[c][j]
  BY DEF MigrationInv, MigrationTypeOK
<1>2. MigrationTypeOK'
  BY <1>1 DEF MigrationInv, MigrationTypeOK
<1>3. UnstartedIsAbsent'
  BY <1>1 DEF MigrationInv, UnstartedIsAbsent
<1>4. RowsInOrder'
  BY <1>1 DEF MigrationInv, RowsInOrder
<1>5. ProjectedIsVerified'
  BY <1>1 DEF MigrationInv, ProjectedIsVerified
<1>6. \A c, j : (Normalizes(c, j)' <=> Normalizes(c, j)) /\ (Visible(c, j)' <=> Visible(c, j))
  BY DEF Normalizes, Known, Visible
<1>7. IntentNormalizes'
  BY <1>1, <1>6 DEF MigrationInv, IntentNormalizes
<1>8. NothingLeftBehind'
  BY <1>1, <1>6 DEF MigrationInv, MigrationTypeOK, NothingLeftBehind
<1>9. CallIsSound'
  BY DEF CallIsSound, Idle
<1> QED BY <1>2, <1>3, <1>4, <1>5, <1>7, <1>8, <1>9 DEF MigrationInv

\* The calls the operations go on with.
LEMMA AtIsCall ==
  ASSUME NEW pc \in ApplyPc \union UndoPc \union {"tail", "fence"}, NEW b \in ImportBatch, NEW i \in Row,
         NEW job \in {"plain", "approved", "rollback"}
  PROVE  /\ At(pc, b, i, job) \in Calls
         /\ At(pc, b, i, job).pc = pc /\ At(pc, b, i, job).batch = b
         /\ At(pc, b, i, job).row = i /\ At(pc, b, i, job).job = job
  BY DEF At, Calls

\* The row of a call is checkpointed, and the call goes on to the next one or to the
\* rows to undo.
LEMMA RowIsCheckpointed ==
  ASSUME MigrationInv, UNCHANGED <<archive, plan, intent, entity, provider, rolledBack>>,
         NEW b \in ImportBatch, NEW i \in Row, NEW job \in {"plain", "approved", "rollback"},
         NEW v \in Checkpoints \ {"none"},
         checkpoint' = [checkpoint EXCEPT ![b] = [checkpoint[b] EXCEPT ![i] = v]],
         v \in {"projected", "candidate"} => intent[b][i] \in {"verified", "verifiedCandidate"},
         b \notin rolledBack,
         checkpoint[b][i] = "none", \A j \in Row : j < i => checkpoint[b][j] # "none",
         call' = Advance(b, i, job)
  PROVE  MigrationInv'
<1>1. /\ checkpoint' \in [ImportBatch -> [Row -> Checkpoints]] /\ checkpoint'[b][i] = v
      /\ \A c \in ImportBatch, j \in Row : c # b \/ j # i => checkpoint'[c][j] = checkpoint[c][j]
  BY DEF MigrationInv, MigrationTypeOK
<1>2. RowCount \in Nat /\ Row \subseteq Nat /\ \A j \in Row : j < RowCount => j + 1 \in Row
  BY MigrationAssumption DEF Row
<1>3. call' \in Calls \union {Idle}
  BY <1>2, AtIsCall DEF Advance, ApplyPc, UndoPc
<1>4. MigrationTypeOK'
  BY <1>1, <1>3 DEF MigrationInv, MigrationTypeOK
<1>5. UnstartedIsAbsent'
  BY DEF MigrationInv, UnstartedIsAbsent
<1>6. RowsInOrder'
  BY <1>1 DEF MigrationInv, RowsInOrder
<1>7. ProjectedIsVerified'
  BY <1>1 DEF MigrationInv, ProjectedIsVerified
<1>8. \A c \in ImportBatch, j \in Row : Normalizes(c, j) => Normalizes(c, j)'
  <2>1. \A c \in ImportBatch : Known(c) \subseteq Known(c)'
    BY <1>1 DEF Known
  <2> QED BY <2>1 DEF Normalizes
<1>9. IntentNormalizes'
  BY <1>8 DEF MigrationInv, IntentNormalizes
<1>10. NothingLeftBehind'
  BY <1>1 DEF MigrationInv, MigrationTypeOK, NothingLeftBehind, Visible
<1>11. ASSUME NEW j \in Row, checkpoint'[b][j] = "none"
       PROVE  i < j /\ checkpoint[b][j] = "none" /\ intent[b][j] = "none" /\ ~Visible(b, j)'
  <2>1. j # i /\ checkpoint[b][j] = "none" /\ ~(j < i)
    BY <1>1, <1>11
  <2>2. i < j
    BY <1>2, <2>1
  <2>3. intent[b][j] = "none"
    BY <2>2 DEF MigrationInv, RowsInOrder
  <2>4. ~Visible(b, j)'
    BY <2>3 DEF MigrationInv, UnstartedIsAbsent, Visible
  <2> QED BY <2>1, <2>2, <2>3, <2>4
<1>12. CallIsSound'
  <2>1. CASE job = "rollback"
    <3>1. call' = At("undo", b, i, job)
      BY <2>1 DEF Advance
    <3>2. call'.pc = "undo" /\ call'.batch = b
      BY <3>1, AtIsCall DEF UndoPc
    <3>3. CallKnows(call)'
      BY <1>11, <3>2 DEF CallKnows, ApplyPc, WritePc, CompensatePc
    <3> QED BY <3>3 DEF CallIsSound
  <2>2. CASE job # "rollback" /\ i < RowCount
    <3>1. PICK k \in Row : k = i + 1
      BY <1>2, <2>2
    <3>2. call' = At("row", b, k, job)
      BY <2>2, <3>1 DEF Advance
    <3>3. call'.pc = "row" /\ call'.batch = b /\ call'.row = k
      BY <3>2, AtIsCall DEF ApplyPc
    <3>4. checkpoint'[b][k] = "none"
      <4>1. i < k /\ k # i
        BY <1>2, <3>1
      <4>2. checkpoint[b][k] = "none"
        BY <4>1 DEF MigrationInv, RowsInOrder
      <4> QED BY <1>1, <4>1, <4>2
    <3>5. ASSUME NEW j \in Row, j < k PROVE checkpoint'[b][j] # "none"
      <4>1. j = i \/ j < i
        BY <1>2, <3>1, <3>5
      <4> QED BY <1>1, <4>1
    <3>6. CallKnows(call)'
      BY <3>3, <3>4, <3>5 DEF CallKnows, ApplyPc, WritePc, CompensatePc, UndoPc
    <3> QED BY <3>6 DEF CallIsSound
  <2>3. CASE job # "rollback" /\ ~(i < RowCount)
    BY <2>3 DEF Advance, CallIsSound, Idle
  <2> QED BY <2>1, <2>2, <2>3
<1> QED BY <1>4, <1>5, <1>6, <1>7, <1>9, <1>10, <1>12 DEF MigrationInv

\* A call that is not idle is sound.
LEMMA RunningCall ==
  ASSUME MigrationInv, call.pc # "idle"
  PROVE  /\ call \in Calls /\ CallKnows(call)
         /\ call.batch \in ImportBatch /\ call.row \in Row /\ call.job \in {"plain", "approved", "rollback"}
  BY DEF MigrationInv, MigrationTypeOK, CallIsSound, Idle, Calls

\* Goto changes the stage of a call alone.
LEMMA GotoKeeps ==
  ASSUME NEW c \in Calls, NEW pc \in ApplyPc \union UndoPc \union {"tail", "fence"}
  PROVE  /\ [c EXCEPT !.pc = pc] \in Calls /\ [c EXCEPT !.pc = pc].pc = pc
         /\ [c EXCEPT !.pc = pc].batch = c.batch /\ [c EXCEPT !.pc = pc].row = c.row
         /\ [c EXCEPT !.pc = pc].job = c.job
  BY DEF Calls

\* Calls begin, end and answer.
LEMMA CallSteps ==
  ASSUME MigrationInv,
         \/ \E approved \in BOOLEAN : BeginApplyBatch(approved)
         \/ \E b \in ImportBatch : BeginUndo(b) \/ ReplayRollback(b)
         \/ ReplayApply \/ Crash \/ UNCHANGED migVars
         \/ \E i \in Row : ChangeAuthorization(i)
  PROVE  MigrationInv'
<1>1. CASE \E approved \in BOOLEAN : BeginApplyBatch(approved)
  <2>1. PICK approved \in BOOLEAN : BeginApplyBatch(approved)
    BY <1>1
  <2>2. PICK b \in ImportBatch : b = plan
    BY DEF MigrationInv, MigrationTypeOK
  <2>3. PICK job \in {"plain", "approved"} : job = IF approved THEN "approved" ELSE "plain"
    OBVIOUS
  <2>4. NextRow(b) <= RowCount /\ b \notin rolledBack
    BY <2>1, <2>2 DEF BeginApplyBatch
  <2>5. PICK i \in Row : i = NextRow(b)
    BY <2>4, NextRowIsFirst, MigrationAssumption DEF Row
  <2>6. PICK c : c = At("row", b, i, job)
    OBVIOUS
  <2>7. call' = c
    BY <2>1, <2>2, <2>3, <2>5, <2>6 DEF BeginApplyBatch
  <2>8. c \in Calls /\ c.pc = "row" /\ c.batch = b /\ c.row = i
    BY <2>6, AtIsCall DEF ApplyPc
  <2>9. checkpoint[b][i] = "none" /\ \A j \in Row : j < i => checkpoint[b][j] # "none"
    <3>1. i \in Nat /\ ~(i < i)
      BY MigrationAssumption DEF Row
    <3>2. \A j \in Row : j < i <=> checkpoint[b][j] # "none"
      BY <2>5, NextRowIsFirst
    <3> QED BY <3>1, <3>2
  <2>10. CallKnows(c)
    BY <2>4, <2>8, <2>9 DEF CallKnows, ApplyPc, WritePc, CompensatePc, UndoPc
  <2>11. UNCHANGED <<archive, intent, entity, provider, checkpoint, rolledBack>> /\ plan' \in ImportBatch
    BY <2>1, <2>2 DEF BeginApplyBatch, stored
  <2> QED BY <2>7, <2>8, <2>10, <2>11, CallMoves
<1>2. CASE \E b \in ImportBatch : BeginUndo(b)
  <2>1. PICK b \in ImportBatch : BeginUndo(b)
    BY <1>2
  <2>2. PICK c : c = At("tail", b, 1, "rollback")
    OBVIOUS
  <2>3. call' = c /\ b \notin rolledBack
    BY <2>1, <2>2 DEF BeginUndo
  <2>4. c \in Calls /\ c.pc = "tail" /\ c.batch = b
    <3>1. 1 \in Row
      BY MigrationAssumption DEF Row
    <3> QED BY <2>2, <3>1, AtIsCall
  <2>5. CallKnows(c)
    BY <2>3, <2>4 DEF CallKnows, ApplyPc, WritePc, CompensatePc, UndoPc
  <2>6. UNCHANGED <<archive, intent, entity, provider, checkpoint, rolledBack>> /\ plan' \in ImportBatch
    BY <2>1 DEF BeginUndo, stored, MigrationInv, MigrationTypeOK
  <2> QED BY <2>3, <2>4, <2>5, <2>6, CallMoves
<1>3. CASE Crash
  <2>1. UNCHANGED <<archive, intent, entity, provider, checkpoint, rolledBack>> /\ plan' \in ImportBatch
        /\ call' = Idle
    BY <1>3 DEF Crash, stored, MigrationInv, MigrationTypeOK
  <2> QED BY <2>1, CallMoves
<1>4. CASE \/ ReplayApply \/ UNCHANGED migVars \/ \E b \in ImportBatch : ReplayRollback(b)
           \/ \E i \in Row : ChangeAuthorization(i)
  <2>1. UNCHANGED <<archive, intent, entity, provider, checkpoint, rolledBack, call>>
    BY <1>4 DEF ReplayApply, migVars, ReplayRollback, ChangeAuthorization, stored
  <2>2. plan' \in ImportBatch
    <3>1. plan \in ImportBatch
      BY DEF MigrationInv, MigrationTypeOK
    <3>2. CASE \E i \in Row : ChangeAuthorization(i)
      BY <3>1, <3>2, MigrationAssumption DEF ChangeAuthorization, ImportBatch
    <3> QED BY <1>4, <3>1, <3>2 DEF ReplayApply, migVars, ReplayRollback
  <2>3. PICK c : c = call
    OBVIOUS
  <2>4. call' = c /\ (c = Idle \/ (c \in Calls /\ CallKnows(c)))
    BY <2>1, <2>3 DEF MigrationInv, MigrationTypeOK, CallIsSound
  <2> QED BY <2>1, <2>2, <2>4, CallMoves
<1> QED BY <1>1, <1>2, <1>3, <1>4

\* A row that does not normalize is quarantined and has no intent.
LEMMA ApplyQuarantineStep ==
  ASSUME MigrationInv, ApplyQuarantine
  PROVE  MigrationInv'
<1>1. call.pc = "row" /\ call.pc # "idle"
  BY DEF ApplyQuarantine
<1>2. PICK b \in ImportBatch, i \in Row, job \in {"plain", "approved", "rollback"} :
        b = call.batch /\ i = call.row /\ job = call.job
  BY <1>1, RunningCall
<1>3. /\ checkpoint' = [checkpoint EXCEPT ![b] = [checkpoint[b] EXCEPT ![i] = "quarantined"]]
      /\ call' = Advance(b, i, job) /\ UNCHANGED <<archive, plan, intent, entity, provider, rolledBack>>
  BY <1>2 DEF ApplyQuarantine, MigrationInv, MigrationTypeOK
<1>4. /\ b \notin rolledBack /\ checkpoint[b][i] = "none"
      /\ \A j \in Row : j < i => checkpoint[b][j] # "none"
  BY <1>1, <1>2, RunningCall DEF CallKnows, ApplyPc
<1>5. "quarantined" \in Checkpoints \ {"none"} /\ "quarantined" \notin {"projected", "candidate"}
  BY DEF Checkpoints
<1> QED BY <1>3, <1>4, <1>5, RowIsCheckpointed

\* A checkpoint is written for a row whose intent was verified.
LEMMA AppendCheckpointStep ==
  ASSUME MigrationInv, AppendCheckpoint
  PROVE  MigrationInv'
<1>1. call.pc = "checkpoint" /\ call.pc # "idle"
  BY DEF AppendCheckpoint
<1>2. PICK b \in ImportBatch, i \in Row, job \in {"plain", "approved", "rollback"} :
        b = call.batch /\ i = call.row /\ job = call.job
  BY <1>1, RunningCall
<1>3. PICK v \in Checkpoints \ {"none"} :
        v = IF intent[b][i] = "verifiedCandidate" THEN "candidate" ELSE "projected"
  BY DEF Checkpoints
<1>4. /\ checkpoint' = [checkpoint EXCEPT ![b] = [checkpoint[b] EXCEPT ![i] = v]]
      /\ call' = Advance(b, i, job) /\ UNCHANGED <<archive, plan, intent, entity, provider, rolledBack>>
  BY <1>2, <1>3 DEF AppendCheckpoint, MigrationInv, MigrationTypeOK
<1>5. /\ b \notin rolledBack /\ checkpoint[b][i] = "none"
      /\ \A j \in Row : j < i => checkpoint[b][j] # "none"
      /\ intent[b][i] \in {"verified", "verifiedCandidate"}
  BY <1>1, <1>2, RunningCall DEF CallKnows, ApplyPc
<1> QED BY <1>4, <1>5, RowIsCheckpointed

\* The intent is recorded before the row is written, or not at all.
LEMMA ApplyIntentStep ==
  ASSUME MigrationInv, ApplyIntent
  PROVE  MigrationInv'
<1>1. call.pc = "row" /\ call.pc # "idle"
  BY DEF ApplyIntent
<1>2. PICK b \in ImportBatch, i \in Row, job \in {"plain", "approved", "rollback"} :
        b = call.batch /\ i = call.row /\ job = call.job
  BY <1>1, RunningCall
<1>3. intent[b][i] \in Intents
  BY DEF MigrationInv, MigrationTypeOK
<1>4. PICK v \in Intents \ {"none"} : v = IF intent[b][i] = "none" THEN "started" ELSE intent[b][i]
  BY <1>3 DEF Intents
<1>5. /\ intent' = [intent EXCEPT ![b] = [intent[b] EXCEPT ![i] = v]]
      /\ call' = IntentLeadsTo(b, i, job) /\ Normalizes(b, i)
      /\ UNCHANGED <<archive, plan, entity, provider, checkpoint, rolledBack>>
  BY <1>2, <1>4 DEF ApplyIntent, MigrationInv, MigrationTypeOK
<1>6. /\ b \notin rolledBack /\ checkpoint[b][i] = "none"
      /\ \A j \in Row : j < i => checkpoint[b][j] # "none"
  BY <1>1, <1>2, RunningCall DEF CallKnows, ApplyPc
<1>7. v = "notApplied" => entity[b][i] = "absent" /\ provider[b][i] = "absent"
  BY <1>4 DEF MigrationInv, UnstartedIsAbsent
<1>8. intent'[b][i] = v /\ Normalizes(b, i)'
  BY <1>5 DEF MigrationInv, MigrationTypeOK, Normalizes, Known
<1>9. PICK d : d = IntentLeadsTo(b, i, job)
  OBVIOUS
<1>10. d = Idle \/ (d \in Calls /\ CallKnows(d)')
  <2>1. CASE intent[b][i] \in {"none", "started"}
    <3>1. d = At("write", b, i, job) /\ v = "started"
      <4>1. ~EvidenceCurrent(b, i)
        BY <2>1 DEF EvidenceCurrent
      <4>2. d = At("write", b, i, job)
        BY <1>9, <2>1, <4>1, Zenon DEF IntentLeadsTo
      <4> QED BY <1>4, <2>1, <4>2
    <3>2. d \in Calls /\ d.pc = "write" /\ d.batch = b /\ d.row = i
      BY <3>1, AtIsCall DEF ApplyPc, WritePc
    <3>3. CallKnows(d)'
      BY <1>5, <1>6, <1>8, <3>1, <3>2 DEF CallKnows, ApplyPc, WritePc, CompensatePc, UndoPc
    <3> QED BY <3>2, <3>3
  <2>2. CASE intent[b][i] \notin {"none", "started"} /\ EvidenceCurrent(b, i)
    <3>1. d = At("checkpoint", b, i, job) /\ v \in {"verified", "verifiedCandidate"}
      <4>1. d = At("checkpoint", b, i, job)
        BY <1>9, <2>2, Zenon DEF IntentLeadsTo
      <4>2. intent[b][i] \in {"verified", "verifiedCandidate"}
        BY <2>2 DEF EvidenceCurrent
      <4> QED BY <1>4, <4>1, <4>2
    <3>2. d \in Calls /\ d.pc = "checkpoint" /\ d.batch = b /\ d.row = i
      BY <3>1, AtIsCall DEF ApplyPc
    <3>3. CallKnows(d)'
      BY <1>5, <1>6, <1>8, <3>1, <3>2 DEF CallKnows, ApplyPc, WritePc, CompensatePc, UndoPc
    <3> QED BY <3>2, <3>3
  <2>3. CASE intent[b][i] \notin {"none", "started"} /\ ~EvidenceCurrent(b, i)
    BY <1>9, <2>3 DEF IntentLeadsTo
  <2> QED BY <2>1, <2>2, <2>3
<1> QED BY <1>5, <1>6, <1>7, <1>9, <1>10, IntentIsSet

\* The intent is completed after the row was written.
LEMMA CompleteIntentStep ==
  ASSUME MigrationInv, CompleteIntent
  PROVE  MigrationInv'
<1>1. call.pc \in {"complete", "candidate"} /\ call.pc # "idle"
  BY DEF CompleteIntent
<1>2. PICK b \in ImportBatch, i \in Row : b = call.batch /\ i = call.row
  BY <1>1, RunningCall
<1>3. PICK v \in {"verified", "verifiedCandidate"} :
        v = IF call.pc = "candidate" THEN "verifiedCandidate" ELSE "verified"
  OBVIOUS
<1>4. PICK d : d = [call EXCEPT !.pc = "checkpoint"]
  OBVIOUS
<1>5. /\ intent' = [intent EXCEPT ![b] = [intent[b] EXCEPT ![i] = v]]
      /\ call' = d
      /\ UNCHANGED <<archive, plan, entity, provider, checkpoint, rolledBack>>
  BY <1>2, <1>3, <1>4 DEF CompleteIntent, Goto, MigrationInv, MigrationTypeOK
<1>6. /\ b \notin rolledBack /\ checkpoint[b][i] = "none" /\ Normalizes(b, i)
      /\ \A j \in Row : j < i => checkpoint[b][j] # "none"
  BY <1>1, <1>2, RunningCall DEF CallKnows, ApplyPc, WritePc
<1>7. intent'[b][i] = v /\ v \in Intents \ {"none"} /\ v # "notApplied"
  BY <1>5 DEF MigrationInv, MigrationTypeOK, Intents
<1>8. d \in Calls /\ d.pc = "checkpoint" /\ d.batch = b /\ d.row = i
  BY <1>1, <1>2, <1>4, RunningCall, GotoKeeps DEF ApplyPc
<1>9. CallKnows(d)'
  BY <1>5, <1>6, <1>7, <1>8 DEF CallKnows, ApplyPc, WritePc, CompensatePc, UndoPc
<1> QED BY <1>5, <1>6, <1>7, <1>8, <1>9, IntentIsSet

\* The canonical writers and the provider write the row of their call alone.
LEMMA WriteSteps ==
  ASSUME MigrationInv, WriteMemory \/ WriteProfile \/ WriteGraph \/ UpsertGraph
  PROVE  MigrationInv'
<1>1. call.pc \in {"write", "upsert"} /\ call.pc # "idle"
  BY DEF WriteMemory, WriteProfile, WriteGraph, UpsertGraph, RowWriting
<1>2. PICK c \in Calls : c = call
  BY <1>1, RunningCall
<1>3. PICK b \in ImportBatch, i \in Row : b = c.batch /\ i = c.row
  BY <1>1, <1>2, RunningCall
<1>4. \/ UNCHANGED entity
      \/ \E v \in Entities : entity' = [entity EXCEPT ![b] = [entity[b] EXCEPT ![i] = v]]
  BY <1>2, <1>3 DEF WriteMemory, WriteProfile, WriteGraph, UpsertGraph, SetEntity, Entities,
                    MigrationInv, MigrationTypeOK
<1>5. \/ UNCHANGED provider
      \/ \E v \in Holdings : provider' = [provider EXCEPT ![b] = [provider[b] EXCEPT ![i] = v]]
  BY <1>2, <1>3 DEF WriteMemory, WriteProfile, WriteGraph, UpsertGraph, Holdings,
                    MigrationInv, MigrationTypeOK
<1>6. /\ entity' \in [ImportBatch -> [Row -> Entities]]
      /\ \A k \in ImportBatch, j \in Row : k # b \/ j # i => entity'[k][j] = entity[k][j]
  <2>1. CASE UNCHANGED entity
    BY <2>1 DEF MigrationInv, MigrationTypeOK
  <2>2. ASSUME NEW v \in Entities, entity' = [entity EXCEPT ![b] = [entity[b] EXCEPT ![i] = v]]
        PROVE  /\ entity' \in [ImportBatch -> [Row -> Entities]]
               /\ \A k \in ImportBatch, j \in Row : k # b \/ j # i => entity'[k][j] = entity[k][j]
    BY <2>2 DEF MigrationInv, MigrationTypeOK
  <2> QED BY <1>4, <2>1, <2>2
<1>7. /\ provider' \in [ImportBatch -> [Row -> Holdings]]
      /\ \A k \in ImportBatch, j \in Row : k # b \/ j # i => provider'[k][j] = provider[k][j]
  <2>1. CASE UNCHANGED provider
    BY <2>1 DEF MigrationInv, MigrationTypeOK
  <2>2. ASSUME NEW v \in Holdings, provider' = [provider EXCEPT ![b] = [provider[b] EXCEPT ![i] = v]]
        PROVE  /\ provider' \in [ImportBatch -> [Row -> Holdings]]
               /\ \A k \in ImportBatch, j \in Row : k # b \/ j # i => provider'[k][j] = provider[k][j]
    BY <2>2 DEF MigrationInv, MigrationTypeOK
  <2> QED BY <1>5, <2>1, <2>2
<1>8. UNCHANGED <<archive, plan, intent, checkpoint, rolledBack>>
  BY DEF WriteMemory, WriteProfile, WriteGraph, UpsertGraph
<1>9. \/ call' = Idle \/ call' = c
      \/ \E pc \in WritePc : call' = [c EXCEPT !.pc = pc]
  BY <1>2 DEF WriteMemory, WriteProfile, WriteGraph, UpsertGraph, Goto, WritePc
<1>10. PICK d : d = call'
  OBVIOUS
<1>11. d = Idle \/ (d \in Calls /\ d.pc \in WritePc /\ d.batch = c.batch /\ d.row = c.row)
  <2>1. c.pc \in WritePc
    BY <1>1, <1>2 DEF WritePc
  <2>2. ASSUME NEW pc \in WritePc, d = [c EXCEPT !.pc = pc]
        PROVE  d \in Calls /\ d.pc \in WritePc /\ d.batch = c.batch /\ d.row = c.row
    BY <2>2, GotoKeeps DEF ApplyPc
  <2> QED BY <1>9, <1>10, <2>1, <2>2
<1>12. c.pc \in WritePc
  BY <1>1, <1>2 DEF WritePc
<1> QED BY <1>2, <1>3, <1>6, <1>7, <1>8, <1>10, <1>11, <1>12, RowIsWritten

\* What a rollback finds of the row after the last checkpoint.
LEMMA ReconcileTailStep ==
  ASSUME MigrationInv, ReconcileTail
  PROVE  MigrationInv'
<1>1. call.pc = "tail" /\ call.pc # "idle"
  BY DEF ReconcileTail
<1>2. PICK b \in ImportBatch : b = call.batch /\ b \notin rolledBack
  BY <1>1, RunningCall DEF CallKnows
<1>3. PICK n \in Nat : n = NextRow(b) /\ n # 0
  BY NextRowIsFirst
<1>4. \A j \in Row : j < n <=> checkpoint[b][j] # "none"
  BY <1>3, NextRowIsFirst
<1>5. PICK need \in {"nothing", "fence", "write", "checkpoint", "host"} : need = TailNeeds(b, n)
  <2>1. TailNeeds(b, n) \in {"nothing", "fence", "write", "checkpoint", "host"}
    BY Zenon DEF TailNeeds
  <2> QED BY <2>1
<1>6. UNCHANGED <<archive, plan, entity, provider, checkpoint, rolledBack>>
  BY DEF ReconcileTail
<1>7. /\ intent' = IF need = "fence" THEN [intent EXCEPT ![b][n] = "started"] ELSE intent
      /\ call' = CASE need = "nothing" -> At("undo", b, 1, "rollback")
                   [] need \in {"fence", "write", "checkpoint"} -> At(need, b, n, "rollback")
                   [] need = "host" -> Idle
  BY <1>2, <1>3, <1>5 DEF ReconcileTail
<1>8. Row \subseteq Nat /\ 1 \in Row /\ (n <= RowCount => n \in Row) /\ RowCount \in Nat
      /\ \A j \in Row : j <= RowCount
  BY <1>3, MigrationAssumption DEF Row
<1>9. ASSUME NEW j \in Row, n < j PROVE intent[b][j] = "none" /\ ~Visible(b, j)
  <2>1. n \in Row /\ ~(n < n)
    BY <1>8, <1>9 DEF Row
  <2>2. checkpoint[b][n] = "none"
    BY <1>4, <2>1
  <2>3. intent[b][j] = "none"
    BY <1>9, <2>1, <2>2 DEF MigrationInv, RowsInOrder
  <2> QED BY <2>3 DEF MigrationInv, UnstartedIsAbsent, Visible
<1>10. PICK u : u = At("undo", b, 1, "rollback")
  OBVIOUS
<1>11. u \in Calls /\ u.pc = "undo" /\ u.batch = b
  BY <1>8, <1>10, AtIsCall DEF UndoPc
<1>12. (n \in Row => ~Visible(b, n)) => CallKnows(u)
  <2>1. SUFFICES ASSUME n \in Row => ~Visible(b, n) PROVE CallKnows(u)
    OBVIOUS
  <2>2. ASSUME NEW j \in Row, checkpoint[b][j] = "none" PROVE ~Visible(b, j)
    <3>1. ~(j < n)
      BY <1>4, <2>2
    <3>2. n < j \/ j = n
      BY <1>8, <3>1
    <3> QED BY <1>9, <2>1, <3>2
  <2> QED BY <1>2, <1>11, <2>2 DEF CallKnows, ApplyPc, WritePc, CompensatePc
<1>13. CASE need = "nothing"
  <2>1. n \in Row => ~Visible(b, n)
    <3>1. SUFFICES ASSUME n \in Row PROVE intent[b][n] \in {"none", "notApplied"}
      BY DEF MigrationInv, UnstartedIsAbsent, Visible
    <3>2. ~(n > RowCount)
      BY <1>8, <3>1
    <3>3. ~Normalizes(b, n) \/ intent[b][n] = "notApplied"
      <4>1. SUFFICES ASSUME Normalizes(b, n), intent[b][n] # "notApplied" PROVE FALSE
        OBVIOUS
      <4>2. TailNeeds(b, n) \in {"fence", "write", "checkpoint", "host"}
        BY <3>2, <4>1, Zenon DEF TailNeeds
      <4> QED BY <1>5, <1>13, <4>2
    <3> QED BY <3>1, <3>3 DEF MigrationInv, IntentNormalizes
  <2>2. call' = u /\ intent' = intent
    BY <1>7, <1>10, <1>13
  <2>3. plan' \in ImportBatch
    BY <1>6 DEF MigrationInv, MigrationTypeOK
  <2> QED BY <1>6, <1>11, <1>12, <2>1, <2>2, <2>3, CallMoves
<1>14. CASE need = "host"
  <2>1. call' = Idle /\ intent' = intent
    BY <1>7, <1>14
  <2>2. plan' \in ImportBatch
    BY <1>6 DEF MigrationInv, MigrationTypeOK
  <2> QED BY <1>6, <2>1, <2>2, CallMoves
<1>15. ASSUME need \in {"fence", "write", "checkpoint"}
       PROVE  /\ n \in Row /\ Normalizes(b, n)
              /\ need = "fence" => intent[b][n] = "none"
              /\ need = "write" => intent[b][n] = "started"
              /\ need = "checkpoint" => intent[b][n] \notin {"none", "started", "notApplied"}
  <2>1. ~(n > RowCount)
    BY <1>5, <1>15 DEF TailNeeds
  <2>2. n \in Row
    BY <1>8, <2>1
  <2>3. Normalizes(b, n)
    BY <1>5, <1>15, <2>1 DEF TailNeeds
  <2>4. need = "fence" => intent[b][n] = "none"
    BY <1>5, <2>1, <2>3 DEF TailNeeds
  <2>5. need = "write" => intent[b][n] = "started"
    BY <1>5, <2>1, <2>3 DEF TailNeeds
  <2>6. need = "checkpoint" => intent[b][n] \notin {"none", "started", "notApplied"}
    BY <1>5, <2>1, <2>3 DEF TailNeeds
  <2> QED BY <2>2, <2>3, <2>4, <2>5, <2>6
<1>16. CASE need = "fence"
  <2>1. PICK i \in Row : i = n
    BY <1>15, <1>16
  <2>2. PICK d : d = At("fence", b, i, "rollback")
    OBVIOUS
  <2>3. /\ intent' = [intent EXCEPT ![b] = [intent[b] EXCEPT ![i] = "started"]]
        /\ call' = d
    BY <1>7, <1>16, <2>1, <2>2 DEF MigrationInv, MigrationTypeOK
  <2>4. d \in Calls /\ d.pc = "fence" /\ d.batch = b /\ d.row = i
    BY <2>2, AtIsCall
  <2>5. /\ entity[b][i] = "absent" /\ provider[b][i] = "absent" /\ Normalizes(b, i)
        /\ checkpoint[b][i] = "none" /\ \A j \in Row : j < i => checkpoint[b][j] # "none"
        /\ ~Visible(b, n)
    <3>1. ~(i < n)
      BY <2>1
    <3>2. intent[b][i] = "none" /\ Normalizes(b, i)
      BY <1>15, <1>16, <2>1
    <3> QED BY <1>4, <2>1, <3>1, <3>2 DEF MigrationInv, UnstartedIsAbsent, Visible
  <2>6. \A j \in Row : checkpoint[b][j] = "none" => ~Visible(b, j)
    BY <1>11, <1>12, <2>5 DEF CallKnows, UndoPc
  <2>7. Normalizes(b, i)' /\ \A j \in Row : Visible(b, j)' <=> Visible(b, j)
    BY <1>6, <2>5 DEF Normalizes, Known, Visible
  <2>8. CallKnows(d)'
    BY <1>2, <1>6, <2>4, <2>5, <2>6, <2>7 DEF CallKnows, ApplyPc, WritePc, CompensatePc, UndoPc
  <2>9. "started" \in Intents \ {"none"} /\ "started" # "notApplied"
    BY DEF Intents
  <2> QED BY <1>6, <2>3, <2>4, <2>5, <2>8, <2>9, IntentIsSet
<1>17. CASE need \in {"write", "checkpoint"}
  <2>1. PICK i \in Row : i = n
    BY <1>15, <1>17
  <2>2. PICK d : d = At(need, b, i, "rollback")
    OBVIOUS
  <2>3. call' = d /\ intent' = intent
    BY <1>7, <1>17, <2>1, <2>2
  <2>4. d \in Calls /\ d.pc = need /\ d.batch = b /\ d.row = i
    BY <1>17, <2>2, AtIsCall DEF ApplyPc, WritePc
  <2>5. checkpoint[b][i] = "none" /\ \A j \in Row : j < i => checkpoint[b][j] # "none"
    <3>1. ~(i < n)
      BY <2>1
    <3> QED BY <1>4, <2>1, <3>1
  <2>6. intent[b][i] \in Intents
    BY DEF MigrationInv, MigrationTypeOK
  <2>7. /\ need = "checkpoint" => intent[b][i] \in {"verified", "verifiedCandidate"}
        /\ need = "write" => intent[b][i] = "started"
        /\ Normalizes(b, i)
    BY <1>15, <1>17, <2>1, <2>6 DEF Intents
  <2>8. CallKnows(d)
    BY <1>2, <1>17, <2>4, <2>5, <2>7 DEF CallKnows, ApplyPc, WritePc, CompensatePc, UndoPc
  <2>9. plan' \in ImportBatch
    BY <1>6 DEF MigrationInv, MigrationTypeOK
  <2> QED BY <1>6, <2>3, <2>4, <2>8, <2>9, CallMoves
<1> QED BY <1>13, <1>14, <1>16, <1>17

\* The intent that the rollback began is completed as not applied, then undoing begins.
LEMMA CompleteFenceStep ==
  ASSUME MigrationInv, CompleteFence
  PROVE  MigrationInv'
<1>1. call.pc = "fence" /\ call.pc # "idle"
  BY DEF CompleteFence
<1>2. PICK b \in ImportBatch, i \in Row : b = call.batch /\ i = call.row
  BY <1>1, RunningCall
<1>3. /\ b \notin rolledBack /\ checkpoint[b][i] = "none" /\ Normalizes(b, i)
      /\ \A j \in Row : j < i => checkpoint[b][j] # "none"
      /\ entity[b][i] = "absent" /\ provider[b][i] = "absent"
      /\ \A j \in Row : checkpoint[b][j] = "none" => ~Visible(b, j)
  BY <1>1, <1>2, RunningCall DEF CallKnows
<1>4. PICK d : d = At("undo", b, 1, "rollback")
  OBVIOUS
<1>5. /\ intent' = [intent EXCEPT ![b] = [intent[b] EXCEPT ![i] = "notApplied"]]
      /\ call' = d
      /\ UNCHANGED <<archive, plan, entity, provider, checkpoint, rolledBack>>
  BY <1>2, <1>4 DEF CompleteFence, MigrationInv, MigrationTypeOK
<1>6. d \in Calls /\ d.pc = "undo" /\ d.batch = b
  <2>1. 1 \in Row
    BY MigrationAssumption DEF Row
  <2>2. PICK k \in Row : k = 1
    BY <2>1
  <2>3. "undo" \in UndoPc /\ "rollback" \in {"plain", "approved", "rollback"} /\ d = At("undo", b, k, "rollback")
    BY <1>4, <2>2 DEF UndoPc
  <2> QED BY <2>3, AtIsCall
<1>7. \A j \in Row : Visible(b, j)' <=> Visible(b, j)
  BY <1>5 DEF Visible
<1>8. CallKnows(d)'
  BY <1>3, <1>5, <1>6, <1>7 DEF CallKnows, ApplyPc, WritePc, CompensatePc
<1>9. "notApplied" \in Intents \ {"none"}
  BY DEF Intents
<1> QED BY <1>3, <1>5, <1>6, <1>8, <1>9, IntentIsSet

\* A call that undoes goes on undoing.
LEMMA UndoGoesOn ==
  ASSUME NEW c \in Calls, CallKnows(c), c.pc \in UndoPc,
         NEW d \in Calls, d.pc \in UndoPc, d.batch = c.batch,
         d.pc \in CompensatePc => intent[d.batch][d.row] \in {"verified", "verifiedCandidate"}
  PROVE  CallKnows(d)
  BY DEF CallKnows, ApplyPc, WritePc, CompensatePc, UndoPc

\* A rollback turns to the newest row that is left.
LEMMA UndoStep ==
  ASSUME MigrationInv, Undo
  PROVE  MigrationInv'
<1>1. call.pc = "undo" /\ call.pc # "idle"
  BY DEF Undo
<1>2. PICK c \in Calls : c = call /\ CallKnows(c)
  BY <1>1, RunningCall
<1>3. PICK b \in ImportBatch : b = c.batch
  BY DEF Calls
<1>4. UNCHANGED <<archive, intent, entity, provider, checkpoint, rolledBack>> /\ plan' \in ImportBatch
  BY DEF Undo, MigrationInv, MigrationTypeOK
<1> DEFINE left == Known(b) \ undone[b]
<1>5. left # {}
  BY <1>2, <1>3 DEF Undo
<1>6. PICK i \in left : i = Max(left)
  <2>1. left \subseteq 0 .. RowCount /\ RowCount \in Nat
    BY MigrationAssumption DEF Known, Row
  <2> QED BY <1>5, <2>1, MaxIsMember
<1>7. i \in Row /\ intent[b][i] \in {"verified", "verifiedCandidate"}
  BY DEF Known, MigrationInv, ProjectedIsVerified
<1>8. PICK pc \in {"receipt", "compensate"} : pc = IF undoing[b][i] = "verified" THEN "receipt" ELSE "compensate"
  OBVIOUS
<1>9. PICK d : d = At(pc, b, i, "rollback")
  OBVIOUS
<1>10. call' = d \/ call' = Idle
  <2>1. \/ call' = At(IF undoing[b][Max(left)] = "verified" THEN "receipt" ELSE "compensate",
                     b, Max(left), "rollback")
        \/ call' = Idle
    BY <1>2, <1>3 DEF Undo
  <2> HIDE DEF left
  <2> QED BY <1>6, <1>8, <1>9, <2>1
<1>11. d \in Calls /\ d.pc = pc /\ d.batch = b /\ d.row = i
  <2>1. pc \in ApplyPc \union UndoPc \union {"tail", "fence"}
    BY DEF UndoPc, CompensatePc
  <2> HIDE DEF left
  <2> QED BY <1>7, <1>9, <2>1, AtIsCall
<1>12. CallKnows(d)
  BY <1>1, <1>2, <1>3, <1>7, <1>11, UndoGoesOn DEF UndoPc, CompensatePc
<1> QED BY <1>4, <1>10, <1>11, <1>12, CallMoves

\* The receipt of an undo is written after the entity is gone.
LEMMA UndoReceipts ==
  ASSUME MigrationInv, CompleteUndo \/ AppendUndone
  PROVE  MigrationInv'
<1>1. call.pc \in {"snapshot", "receipt"} /\ call.pc # "idle"
  BY DEF CompleteUndo, AppendUndone
<1>2. PICK c \in Calls : c = call /\ CallKnows(c)
  BY <1>1, RunningCall
<1>3. UNCHANGED <<archive, intent, entity, provider, checkpoint, rolledBack>> /\ plan' \in ImportBatch
  BY DEF CompleteUndo, AppendUndone, MigrationInv, MigrationTypeOK
<1>4. call' = Idle \/ \E pc \in {"receipt", "undo"} : call' = [c EXCEPT !.pc = pc]
  BY <1>2 DEF CompleteUndo, AppendUndone, Goto
<1>5. ASSUME NEW pc \in {"receipt", "undo"}, call' = [c EXCEPT !.pc = pc] PROVE MigrationInv'
  <2>1. PICK d : d = [c EXCEPT !.pc = pc]
    OBVIOUS
  <2>2. d \in Calls /\ d.pc = pc /\ d.batch = c.batch /\ d.row = c.row
    BY <2>1, GotoKeeps DEF UndoPc, CompensatePc
  <2>3. intent[c.batch][c.row] \in {"verified", "verifiedCandidate"}
    BY <1>1, <1>2 DEF CallKnows, CompensatePc
  <2>4. CallKnows(d)
    BY <1>1, <1>2, <2>2, <2>3, UndoGoesOn DEF UndoPc, CompensatePc
  <2> QED BY <1>3, <1>5, <2>1, <2>2, <2>4, CallMoves
<1>6. CASE call' = Idle
  BY <1>3, <1>6, CallMoves
<1> QED BY <1>4, <1>5, <1>6

\* What the entity writes of a rollback or of the owner leave.
FallTo(f) ==
  /\ f \in [ImportBatch -> [Row -> Entities]]
  /\ \A b \in ImportBatch, i \in Row :
       \/ f[b][i] = entity[b][i]
       \/ f[b][i] \in {"gone", "invalidated"} /\ intent[b][i] \notin {"none", "notApplied"}

\* revoke_source takes a message and what is derived from it.
LEMMA RevokeFalls ==
  ASSUME MigrationInv, NEW b \in ImportBatch, NEW i \in Row, intent[b][i] \notin {"none", "notApplied"}
  PROVE  FallTo([entity EXCEPT ![b] = Revoke(b, i)])
<1>1. PICK r \in [Row -> Entities] : r = Revoke(b, i)
  <2>1. \A j \in Row : entity[b][j] \in Entities
    BY DEF MigrationInv, MigrationTypeOK
  <2>2. "gone" \in Entities /\ "invalidated" \in Entities
    BY DEF Entities
  <2>3. Revoke(b, i) \in [Row -> Entities]
    BY <2>1, <2>2 DEF Revoke
  <2> QED BY <2>3
<1>2. ASSUME NEW j \in Row
      PROVE  r[j] = entity[b][j] \/ (r[j] \in {"gone", "invalidated"} /\ intent[b][j] \notin {"none", "notApplied"})
  <2>1. r[j] = entity[b][j] \/ (r[j] \in {"gone", "invalidated"} /\ (j = i \/ entity[b][j] # "absent"))
    BY <1>1 DEF Revoke
  <2>2. entity[b][j] # "absent" => intent[b][j] \notin {"none", "notApplied"}
    BY DEF MigrationInv, UnstartedIsAbsent
  <2> QED BY <2>1, <2>2
<1>3. entity \in [ImportBatch -> [Row -> Entities]]
  BY DEF MigrationInv, MigrationTypeOK
<1> QED BY <1>1, <1>2, <1>3 DEF FallTo

\* Removing one entity that was written lets entities fall only.
LEMMA SetGoneFalls ==
  ASSUME MigrationInv, NEW b \in ImportBatch, NEW i \in Row, intent[b][i] \notin {"none", "notApplied"}
  PROVE  FallTo([entity EXCEPT ![b] = [entity[b] EXCEPT ![i] = "gone"]])
  BY DEF FallTo, MigrationInv, MigrationTypeOK, Entities

\* Leaving the entities alone lets nothing rise.
LEMMA SameFalls ==
  ASSUME MigrationInv
  PROVE  FallTo(entity)
  BY DEF FallTo, MigrationInv, MigrationTypeOK

\* Such a write, with nothing added at the provider, keeps the invariant.
LEMMA FallKeeps ==
  ASSUME MigrationInv, UNCHANGED <<archive, plan, intent, checkpoint, rolledBack>>,
         NEW f, entity' = f, FallTo(f),
         provider' \in [ImportBatch -> [Row -> Holdings]],
         \A b \in ImportBatch, i \in Row : provider[b][i] = "absent" => provider'[b][i] = "absent",
         NEW c, call' = c, c = Idle \/ (c \in Calls /\ CallKnows(c)),
         c.pc = "fence" => f[c.batch][c.row] = "absent"
  PROVE  MigrationInv'
<1>1. entity' \in [ImportBatch -> [Row -> Entities]]
  BY DEF FallTo
<1>2. ASSUME NEW b \in ImportBatch, NEW i \in Row
      PROVE  /\ intent[b][i] \in {"none", "notApplied"} => entity'[b][i] = "absent" /\ provider'[b][i] = "absent"
             /\ Visible(b, i)' => Visible(b, i)
  BY DEF FallTo, Visible, MigrationInv, UnstartedIsAbsent
<1>3. c.pc = "fence" => /\ entity'[c.batch][c.row] = entity[c.batch][c.row]
                        /\ provider'[c.batch][c.row] = provider[c.batch][c.row]
  BY DEF CallKnows, Calls, Idle
<1> QED BY <1>1, <1>2, <1>3, EntitiesFall

\* A compensation takes one applied row back, in its store and at the provider.
LEMMA CompensateStep ==
  ASSUME MigrationInv, Compensate \/ DeleteGraph
  PROVE  MigrationInv'
<1>1. call.pc \in {"compensate", "delete"} /\ call.pc # "idle"
  BY DEF Compensate, DeleteGraph
<1>2. PICK c \in Calls : c = call /\ CallKnows(c)
  BY <1>1, RunningCall
<1>3. PICK b \in ImportBatch, i \in Row : b = c.batch /\ i = c.row
  BY DEF Calls
<1>4. intent[b][i] \in {"verified", "verifiedCandidate"}
  BY <1>1, <1>2, <1>3 DEF CallKnows, CompensatePc
<1>5. UNCHANGED <<archive, plan, intent, checkpoint, rolledBack>>
  BY DEF Compensate, DeleteGraph
<1>6. \/ entity' = entity
      \/ entity' = [entity EXCEPT ![b] = Revoke(b, i)]
      \/ entity' = [entity EXCEPT ![b] = [entity[b] EXCEPT ![i] = "gone"]]
  <2>1. entity \in [ImportBatch -> [Row -> Entities]]
    BY DEF MigrationInv, MigrationTypeOK
  <2>2. CASE DeleteGraph
    BY <1>2, <1>3, <2>1, <2>2 DEF DeleteGraph, SetEntity
  <2>3. CASE Compensate
    BY <1>2, <1>3, <2>1, <2>3 DEF Compensate, SetEntity
  <2> QED BY <2>2, <2>3
<1>7. PICK f : entity' = f /\ FallTo(f)
  BY <1>4, <1>6, RevokeFalls, SetGoneFalls, SameFalls
<1>8. /\ provider' \in [ImportBatch -> [Row -> Holdings]]
      /\ \A k \in ImportBatch, j \in Row : provider[k][j] = "absent" => provider'[k][j] = "absent"
  <2>1. provider \in [ImportBatch -> [Row -> Holdings]]
    BY DEF MigrationInv, MigrationTypeOK
  <2>2. \/ UNCHANGED provider
        \/ \E v \in Holdings : /\ provider' = [provider EXCEPT ![b] = [provider[b] EXCEPT ![i] = v]]
                               /\ provider[b][i] # "absent"
    <3>1. CASE DeleteGraph
      BY <1>2, <1>3, <2>1, <3>1 DEF DeleteGraph, Held, Holdings
    <3>2. CASE Compensate
      BY <3>2 DEF Compensate
    <3> QED BY <3>1, <3>2
  <2>3. ASSUME NEW v \in Holdings, provider' = [provider EXCEPT ![b] = [provider[b] EXCEPT ![i] = v]],
               provider[b][i] # "absent"
        PROVE  /\ provider' \in [ImportBatch -> [Row -> Holdings]]
               /\ \A k \in ImportBatch, j \in Row : provider[k][j] = "absent" => provider'[k][j] = "absent"
    BY <2>1, <2>3
  <2> QED BY <2>1, <2>2, <2>3
<1>9. call' = Idle \/ call' = c \/ \E pc \in {"snapshot", "delete"} : call' = [c EXCEPT !.pc = pc]
  <2>1. CASE DeleteGraph
    BY <1>2, <2>1 DEF DeleteGraph, Goto
  <2>2. CASE Compensate
    BY <1>2, <2>2 DEF Compensate, Goto
  <2> QED BY <2>1, <2>2
<1>10. PICK d : d = call'
  OBVIOUS
<1>11. d.pc # "fence" /\ (d = Idle \/ (d \in Calls /\ CallKnows(d)))
  <2>1. ASSUME NEW pc \in {"snapshot", "delete"}, d = [c EXCEPT !.pc = pc]
        PROVE  d.pc # "fence" /\ d \in Calls /\ CallKnows(d)
    <3>1. d \in Calls /\ d.pc = pc /\ d.batch = b /\ d.row = i
      BY <1>3, <2>1, GotoKeeps DEF UndoPc, CompensatePc
    <3> QED BY <1>1, <1>2, <1>3, <1>4, <3>1, UndoGoesOn DEF UndoPc, CompensatePc
  <2>2. Idle.pc # "fence"
    BY DEF Idle
  <2> QED BY <1>1, <1>2, <1>9, <1>10, <2>1, <2>2
<1> QED BY <1>5, <1>7, <1>8, <1>10, <1>11, FallKeeps

\* The owner revokes an imported source between two steps of a batch.
LEMMA OwnerRevokesStep ==
  ASSUME MigrationInv, NEW b \in ImportBatch, NEW i \in Row, OwnerRevokes(b, i)
  PROVE  MigrationInv'
<1>1. intent[b][i] \notin {"none", "notApplied"}
  BY DEF OwnerRevokes, MigrationInv, UnstartedIsAbsent
<1>2. PICK f : f = [entity EXCEPT ![b] = Revoke(b, i)] /\ FallTo(f)
  BY <1>1, RevokeFalls
<1>3. /\ UNCHANGED <<archive, plan, intent, provider, checkpoint, rolledBack, call>>
      /\ entity' = f /\ provider \in [ImportBatch -> [Row -> Holdings]]
  BY <1>2 DEF OwnerRevokes, MigrationInv, MigrationTypeOK
<1>4. PICK c : c = call
  OBVIOUS
<1>5. call' = c /\ (c = Idle \/ (c \in Calls /\ CallKnows(c)))
  BY <1>3, <1>4 DEF MigrationInv, MigrationTypeOK, CallIsSound
<1>6. c.pc = "fence" => f[c.batch][c.row] = "absent"
  <2>1. SUFFICES ASSUME c.pc = "fence" PROVE f[c.batch][c.row] = "absent"
    OBVIOUS
  <2>2. PICK k \in ImportBatch, j \in Row : k = c.batch /\ j = c.row
    BY <1>5, <2>1 DEF Calls, Idle
  <2>3. entity[k][j] = "absent"
    BY <1>5, <2>1, <2>2 DEF CallKnows, Idle
  <2>4. entity[b][i] # "absent"
    BY DEF OwnerRevokes
  <2>5. k = b => j # i /\ Revoke(b, i)[j] = entity[b][j]
    BY <2>3, <2>4 DEF Revoke
  <2> QED BY <1>2, <2>2, <2>3, <2>5 DEF MigrationInv, MigrationTypeOK
<1> QED BY <1>2, <1>3, <1>5, <1>6, FallKeeps

\* The owner changes an imported profile: what was visible may stay so, nothing appears.
LEMMA OwnerChangesProfileStep ==
  ASSUME MigrationInv, NEW b \in ImportBatch, NEW i \in Row, OwnerChangesProfile(b, i)
  PROVE  MigrationInv'
<1>1. PICK to \in {"live", "superseded", "gone"} :
        /\ entity[b][i] = IF to = "live" THEN "candidate" ELSE "live"
        /\ entity' = [entity EXCEPT ![b] = [entity[b] EXCEPT ![i] = to]]
  BY DEF OwnerChangesProfile, MigrationInv, MigrationTypeOK
<1>2. entity[b][i] # "absent" /\ Visible(b, i) /\ intent[b][i] \notin {"none", "notApplied"}
  BY <1>1 DEF Visible, MigrationInv, UnstartedIsAbsent
<1>3. /\ UNCHANGED <<archive, plan, intent, provider, checkpoint, rolledBack, call>>
      /\ provider \in [ImportBatch -> [Row -> Holdings]] /\ entity \in [ImportBatch -> [Row -> Entities]]
  BY DEF OwnerChangesProfile, MigrationInv, MigrationTypeOK
<1>4. /\ entity' \in [ImportBatch -> [Row -> Entities]]
      /\ \A k \in ImportBatch, j \in Row : k # b \/ j # i => entity'[k][j] = entity[k][j]
  BY <1>1, <1>3 DEF Entities
<1>5. ASSUME NEW k \in ImportBatch, NEW j \in Row
      PROVE  /\ intent[k][j] \in {"none", "notApplied"} => entity'[k][j] = "absent" /\ provider'[k][j] = "absent"
             /\ Visible(k, j)' => Visible(k, j)
  <2>1. CASE k = b /\ j = i
    BY <1>2, <2>1
  <2>2. CASE k # b \/ j # i
    <3>1. entity'[k][j] = entity[k][j] /\ provider'[k][j] = provider[k][j]
      BY <1>3, <1>4, <2>2
    <3> QED BY <3>1 DEF Visible, MigrationInv, UnstartedIsAbsent
  <2> QED BY <2>1, <2>2
<1>6. PICK c : c = call
  OBVIOUS
<1>7. call' = c /\ (c = Idle \/ (c \in Calls /\ CallKnows(c)))
  BY <1>3, <1>6 DEF MigrationInv, MigrationTypeOK, CallIsSound
<1>8. c.pc = "fence" => /\ entity'[c.batch][c.row] = entity[c.batch][c.row]
                        /\ provider'[c.batch][c.row] = provider[c.batch][c.row]
  <2>1. SUFFICES ASSUME c.pc = "fence" PROVE entity'[c.batch][c.row] = entity[c.batch][c.row]
    BY <1>3
  <2>2. PICK k \in ImportBatch, j \in Row : k = c.batch /\ j = c.row
    BY <1>7, <2>1 DEF Calls, Idle
  <2>3. entity[k][j] = "absent"
    BY <1>7, <2>1, <2>2 DEF CallKnows, Idle
  <2> QED BY <1>2, <1>4, <2>2, <2>3
<1> QED BY <1>3, <1>4, <1>5, <1>7, <1>8, EntitiesFall

\* The rollback of a batch ends: every projection reads back as gone, and the row
\* after the last checkpoint was seen to be invisible before the first was undone.
LEMMA EndRollbackStep ==
  ASSUME MigrationInv, EndRollback
  PROVE  MigrationInv'
<1>1. call.pc = "undo" /\ call.pc # "idle"
  BY DEF EndRollback
<1>2. PICK b \in ImportBatch : b = call.batch
  BY <1>1, RunningCall
<1>3. \A j \in Row : checkpoint[b][j] = "none" => ~Visible(b, j)
  BY <1>1, <1>2, RunningCall DEF CallKnows, UndoPc
<1>4. /\ UNCHANGED <<archive, plan, intent, entity, provider, checkpoint>> /\ call' = Idle
      /\ rolledBack' = rolledBack \/ (rolledBack' = rolledBack \union {b} /\ CompletedRollback(b))
  BY <1>2 DEF EndRollback
<1>5. MigrationTypeOK'
  BY <1>4 DEF MigrationInv, MigrationTypeOK
<1>6. UnstartedIsAbsent' /\ RowsInOrder' /\ ProjectedIsVerified' /\ CallIsSound'
  BY <1>4 DEF MigrationInv, UnstartedIsAbsent, RowsInOrder, ProjectedIsVerified, CallIsSound
<1>7. \A k, i : (Normalizes(k, i)' <=> Normalizes(k, i)) /\ (Visible(k, i)' <=> Visible(k, i))
  BY <1>4 DEF Normalizes, Known, Visible
<1>8. IntentNormalizes'
  BY <1>4, <1>7 DEF MigrationInv, IntentNormalizes
<1>9. ASSUME CompletedRollback(b), NEW i \in Row, Visible(b, i)
      PROVE  checkpoint[b][i] = "quarantined" /\ intent[b][i] # "none"
  <2>1. i \notin Known(b)
    BY <1>9 DEF CompletedRollback, ReadsRolledBack, Visible
  <2>2. checkpoint[b][i] \in Checkpoints /\ checkpoint[b][i] \notin {"none", "projected", "candidate"}
    BY <1>3, <1>9, <2>1 DEF Known, MigrationInv, MigrationTypeOK
  <2>3. intent[b][i] # "none"
    BY <1>9 DEF MigrationInv, UnstartedIsAbsent, Visible
  <2> QED BY <2>2, <2>3 DEF Checkpoints
<1>10. NothingLeftBehind'
  <2>1. SUFFICES ASSUME NEW k \in rolledBack', NEW i \in Row, Visible(k, i)
                 PROVE  checkpoint[k][i] = "quarantined" /\ intent[k][i] # "none"
    BY <1>4, <1>7 DEF NothingLeftBehind
  <2>2. k \in rolledBack \/ (k = b /\ CompletedRollback(b))
    BY <1>4
  <2> QED BY <1>9, <2>1, <2>2 DEF MigrationInv, NothingLeftBehind
<1> QED BY <1>5, <1>6, <1>8, <1>10 DEF MigrationInv

\* Every step of apply, rollback, crash and owner keeps the invariant.
LEMMA MigrationStep == MigrationInv /\ [MigrationNext]_migVars => MigrationInv'
<1> SUFFICES ASSUME MigrationInv, [MigrationNext]_migVars PROVE MigrationInv'
  OBVIOUS
<1>1. CASE \/ \E approved \in BOOLEAN : BeginApplyBatch(approved)
           \/ \E b \in ImportBatch : BeginUndo(b) \/ ReplayRollback(b)
           \/ ReplayApply \/ Crash \/ UNCHANGED migVars
           \/ \E i \in Row : ChangeAuthorization(i)
  BY <1>1, CallSteps
<1>2. CASE ApplyQuarantine
  BY <1>2, ApplyQuarantineStep
<1>3. CASE ApplyIntent
  BY <1>3, ApplyIntentStep
<1>4. CASE WriteMemory \/ WriteProfile \/ WriteGraph \/ UpsertGraph
  BY <1>4, WriteSteps
<1>5. CASE CompleteIntent
  BY <1>5, CompleteIntentStep
<1>6. CASE AppendCheckpoint
  BY <1>6, AppendCheckpointStep
<1>7. CASE ReconcileTail \/ CompleteFence
  BY <1>7, ReconcileTailStep, CompleteFenceStep
<1>8. CASE Undo
  BY <1>8, UndoStep
<1>9. CASE Compensate \/ DeleteGraph
  BY <1>9, CompensateStep
<1>10. CASE CompleteUndo \/ AppendUndone
  BY <1>10, UndoReceipts
<1>11. CASE EndRollback
  BY <1>11, EndRollbackStep
<1>12. CASE \E b \in ImportBatch, i \in Row : OwnerRevokes(b, i) \/ OwnerChangesProfile(b, i)
  BY <1>12, OwnerRevokesStep, OwnerChangesProfileStep
<1> QED
  BY <1>1, <1>2, <1>3, <1>4, <1>5, <1>6, <1>7, <1>8, <1>9, <1>10, <1>11, <1>12 DEF MigrationNext

\* The inductive invariant of import and rollback, for any archives, any lineage
\* between their rows and any number of plans.
THEOREM MigrationInvariant == MigrationSpec => []MigrationInv
  BY MigrationInitially, MigrationStep, PTL DEF MigrationSpec

\* A batch recorded as rolled back shows nothing it imported, wherever the calls
\* before died; rows that a later apply quarantined are the exception.
THEOREM MigrationNothingLeftBehind == MigrationSpec => []NothingLeftBehind
<1>1. MigrationInv => NothingLeftBehind
  BY DEF MigrationInv
<1> QED BY <1>1, MigrationInvariant, PTL

\* A row that a rollback declared not applied is never written by a later apply.
THEOREM MigrationNotApplied == MigrationSpec => []NotAppliedIsFinal
<1>1. MigrationInv => NotAppliedIsFinal
  BY DEF MigrationInv, UnstartedIsAbsent, NotAppliedIsFinal
<1> QED BY <1>1, MigrationInvariant, PTL

-----------------------------------------------------------------------------
(* The cascade of a revocation.                                            *)
(*                                                                         *)
(* The closures of ConversationMemory are recursive functions on 0 .. n.    *)
(* That such a function exists, and what holds of every value of it, is     *)
(* shown by looking at the least number at which it would fail.             *)

\* A step iterated from a start value, as a function of the number of steps.
IsIterate(f, a, g, n) == f = [i \in 0 .. n |-> IF i = 0 THEN a ELSE g[f[i - 1]]]

\* A function of a set to itself can be iterated n times: recursion over numbers, from
\* the least number at which it would fail.
LEMMA Iterates ==
  ASSUME NEW S, NEW a \in S, NEW g \in [S -> S], NEW n \in Nat
  PROVE  \E f \in [0 .. n -> S] : IsIterate(f, a, g, n)
<1> DEFINE T == {i \in Nat : ~ \E f \in [0 .. i -> S] : IsIterate(f, a, g, i)}
<1>1. CASE T = {}
  BY <1>1
<1>2. CASE T # {}
  <2>1. PICK m \in T : \A k \in T : m <= k
    BY <1>2, HasLeast
  <2>2. m \in Nat /\ ~ \E f \in [0 .. m -> S] : IsIterate(f, a, g, m)
    BY <2>1
  <2>3. CASE m = 0
    <3>1. PICK f : f = [i \in 0 .. 0 |-> a]
      OBVIOUS
    <3>2. f \in [0 .. 0 -> S]
      BY <3>1
    <3>3. f = [i \in 0 .. 0 |-> IF i = 0 THEN a ELSE g[f[i - 1]]]
      BY <3>1
    <3> QED BY <2>2, <2>3, <3>2, <3>3 DEF IsIterate
  <2>4. CASE m # 0
    <3>1. PICK k \in Nat : m = k + 1
      <4>1. m - 1 \in Nat /\ m = (m - 1) + 1
        BY <2>2, <2>4
      <4> QED BY <4>1
    <3>2. k \notin T
      BY <2>1, <3>1
    <3>3. PICK e \in [0 .. k -> S] : IsIterate(e, a, g, k)
      BY <3>2
    <3>4. /\ e[0] = a /\ \A i \in 0 .. k : e[i] \in S
          /\ \A i \in 0 .. k : e[i] = IF i = 0 THEN a ELSE g[e[i - 1]]
      BY <3>3 DEF IsIterate
    <3>5. PICK f : f = [i \in 0 .. m |-> IF i = m THEN g[e[k]] ELSE e[i]]
      OBVIOUS
    <3>6. ASSUME NEW i \in 0 .. m PROVE f[i] \in S /\ f[i] = IF i = 0 THEN a ELSE g[f[i - 1]]
      <4>1. CASE i = m
        BY <2>4, <3>1, <3>4, <3>5, <4>1
      <4>2. CASE i # m
        <5>1. i \in 0 .. k /\ (i # 0 => i - 1 \in 0 .. k /\ i - 1 # m)
          BY <3>1, <4>2
        <5>2. f[i] = e[i] /\ (i # 0 => f[i - 1] = e[i - 1])
          BY <3>1, <3>5, <4>2, <5>1
        <5> QED BY <3>4, <5>1, <5>2
      <4> QED BY <4>1, <4>2
    <3>7. f \in [0 .. m -> S] /\ f = [i \in 0 .. m |-> f[i]]
      BY <3>5, <3>6
    <3>8. f = [i \in 0 .. m |-> IF i = 0 THEN a ELSE g[f[i - 1]]]
      BY <3>6, <3>7
    <3> QED BY <2>2, <3>7, <3>8 DEF IsIterate
  <2> QED BY <2>3, <2>4
<1> QED BY <1>1, <1>2

\* A property of numbers up to n that starts and goes on, as the set of those that have it.
LEMMA UpTo ==
  ASSUME NEW n \in Nat, NEW P \in SUBSET (0 .. n), 0 \in P, \A i \in 0 .. n : i + 1 <= n /\ i \in P => i + 1 \in P
  PROVE  P = 0 .. n
<1> DEFINE T == (0 .. n) \ P
<1>1. CASE T = {}
  BY <1>1
<1>2. CASE T # {}
  <2>1. T \subseteq Nat
    OBVIOUS
  <2>2. PICK m \in T : \A k \in T : m <= k
    BY <1>2, <2>1, HasLeast
  <2>3. m \in 0 .. n /\ m # 0
    BY <2>2
  <2>4. m - 1 \in 0 .. n /\ (m - 1) + 1 = m
    BY <2>3
  <2>5. m - 1 \in P
    BY <2>2, <2>4
  <2>6. m \in P
    BY <2>3, <2>4, <2>5
  <2> QED BY <2>2, <2>6
<1> QED BY <1>1, <1>2

\* The number of messages.
LEMMA MsgCount == Cardinality(Msg) \in Nat
  BY FiniteAssumption, FS_CardinalityType

\* Whatever rests on s is in every set that holds s and is closed under citation.
LEMMA RestsWithin ==
  ASSUME msgs \in [Msg -> MsgRow], NEW s \in Msg, NEW X \in SUBSET Msg, s \in X, MessagesCiting(X) \subseteq X
  PROVE  RestsOn(s) \subseteq X
<1>1. PICK n \in Nat : n = Cardinality(Msg)
  BY MsgCount
<1> DEFINE down == CHOOSE f : f = [i \in 0 .. n |-> IF i = 0 THEN {s} ELSE f[i - 1] \cup MessagesCiting(f[i - 1])]
<1>2. RestsOn(s) = down[n]
  BY <1>1 DEF RestsOn
<1>3. PICK g : g = [Y \in SUBSET Msg |-> Y \cup MessagesCiting(Y)]
  OBVIOUS
<1>4. g \in [SUBSET Msg -> SUBSET Msg] /\ {s} \in SUBSET Msg
  BY <1>3 DEF MessagesCiting
<1>5. PICK f \in [0 .. n -> SUBSET Msg] : IsIterate(f, {s}, g, n)
  BY <1>4, Iterates
<1>6. f = [i \in 0 .. n |-> IF i = 0 THEN {s} ELSE f[i - 1] \cup MessagesCiting(f[i - 1])]
  <2>1. ASSUME NEW i \in 0 .. n, i # 0 PROVE g[f[i - 1]] = f[i - 1] \cup MessagesCiting(f[i - 1])
    <3>1. f[i - 1] \in SUBSET Msg
      BY <1>5, <2>1
    <3> QED BY <1>3, <3>1
  <2> QED BY <1>5, <2>1 DEF IsIterate
<1>7. down = [i \in 0 .. n |-> IF i = 0 THEN {s} ELSE down[i - 1] \cup MessagesCiting(down[i - 1])]
  BY <1>6
<1> HIDE DEF down
<1> DEFINE P == {i \in 0 .. n : down[i] \subseteq X}
<1>8. 0 \in P
  BY <1>7
<1>9. ASSUME NEW i \in 0 .. n, i + 1 <= n, i \in P PROVE i + 1 \in P
  <2>1. i + 1 \in 0 .. n /\ i + 1 # 0 /\ (i + 1) - 1 = i
    BY <1>9
  <2>2. down[i + 1] = down[i] \cup MessagesCiting(down[i])
    BY <1>7, <2>1
  <2>3. MessagesCiting(down[i]) \subseteq MessagesCiting(X)
    BY <1>9 DEF MessagesCiting
  <2> QED BY <1>9, <2>1, <2>2, <2>3
<1>10. P = 0 .. n
  <2> HIDE DEF P
  <2>1. P \in SUBSET (0 .. n)
    BY DEF P
  <2> QED BY <1>8, <1>9, <2>1, UpTo
<1>11. n \in P
  BY <1>10
<1> QED BY <1>2, <1>11

Cascade == [visited : SUBSET Msg, pending : SUBSET Msg, messages : SUBSET Msg, memories : SUBSET Mem]

\* The loop of _invalidate_source_dependents after n rounds: what it visited and what it has
\* still to visit are the messages it found; all that cites a visited message was found;
\* and it visits at least one more message in each round or has nothing left to visit.
Found(st, s, n) ==
  /\ st \in Cascade
  /\ st.visited \cup st.pending = {s} \cup st.messages
  /\ st.visited \cap st.pending = {}
  /\ MessagesCiting(st.visited) \subseteq {s} \cup st.messages
  /\ MemoriesCiting(st.visited) \subseteq st.memories
  /\ st.pending = {} \/ Cardinality(st.visited) >= n

\* A round of the cascade ends in a state of the cascade.
LEMMA RoundTypes ==
  ASSUME NEW st \in Cascade PROVE SourceRound(st) \in Cascade
  BY DEF Cascade, SourceRound, MemoriesCiting, MessagesCiting, MessagesCitingMemories, MemoriesDerivedFrom

\* One more round.
LEMMA RoundFinds ==
  ASSUME NEW st, NEW s \in Msg, NEW n \in Nat, Found(st, s, n)
  PROVE  Found(SourceRound(st), s, n + 1)
<1>1. st \in Cascade
  BY DEF Found
<1>2. PICK V, D, M, K : V = st.visited /\ D = st.pending /\ M = st.messages /\ K = st.memories
  OBVIOUS
<1>3. /\ V \cup D = {s} \cup M /\ V \cap D = {} /\ V \in SUBSET Msg /\ D \in SUBSET Msg /\ M \in SUBSET Msg
      /\ MessagesCiting(V) \subseteq {s} \cup M /\ MemoriesCiting(V) \subseteq K
      /\ D = {} \/ Cardinality(V) >= n
  BY <1>1, <1>2 DEF Found, Cascade
<1>4. PICK mm : mm = MemoriesCiting(D) \ K
  OBVIOUS
<1>5. PICK E : E = (MessagesCiting(D) \cup MessagesCitingMemories(mm)) \ (M \cup (V \cup D))
  OBVIOUS
<1>6. PICK r : r = SourceRound(st)
  OBVIOUS
<1>7. /\ r.visited = V \cup D /\ r.pending = E /\ r.messages = M \cup E
      /\ r.memories = K \cup mm \cup MemoriesDerivedFrom(mm) /\ r \in Cascade
  <2>1. D \ V = D
    BY <1>3
  <2>2. r \in Cascade
    BY <1>1, <1>6, RoundTypes
  <2> QED BY <1>2, <1>4, <1>5, <1>6, <2>1, <2>2 DEF SourceRound
<1>8. /\ r.visited \cup r.pending = {s} \cup r.messages /\ r.visited \cap r.pending = {}
  BY <1>3, <1>5, <1>7
<1>9. MessagesCiting(r.visited) \subseteq {s} \cup r.messages
  <2>1. MessagesCiting(V \cup D) = MessagesCiting(V) \cup MessagesCiting(D)
    BY DEF MessagesCiting
  <2>2. MessagesCiting(D) \subseteq E \cup M \cup (V \cup D)
    BY <1>5
  <2> QED BY <1>3, <1>7, <2>1, <2>2
<1>10. MemoriesCiting(r.visited) \subseteq r.memories
  <2>1. MemoriesCiting(V \cup D) = MemoriesCiting(V) \cup MemoriesCiting(D)
    BY DEF MemoriesCiting
  <2> QED BY <1>3, <1>4, <1>7, <2>1
<1>11. r.pending = {} \/ Cardinality(r.visited) >= n + 1
  <2>1. CASE D = {}
    <3>1. MemoriesCiting(D) = {} /\ MessagesCiting(D) = {}
      BY <2>1 DEF MemoriesCiting, MessagesCiting
    <3>2. MessagesCitingMemories(mm) = {}
      BY <1>4, <3>1 DEF MessagesCitingMemories
    <3> QED BY <1>5, <1>7, <3>1, <3>2
  <2>2. CASE D # {}
    <3>1. PICK d \in D : TRUE
      BY <2>2
    <3>2. IsFiniteSet(V) /\ IsFiniteSet(V \cup D)
      BY <1>3, FiniteAssumption, FS_Subset
    <3>3. IsFiniteSet(V \cup {d}) /\ Cardinality(V \cup {d}) = Cardinality(V) + 1
      <4>1. d \notin V
        BY <1>3, <3>1
      <4> QED BY <3>2, <4>1, FS_AddElement
    <3>4. Cardinality(V \cup {d}) <= Cardinality(V \cup D)
      <4>1. V \cup {d} \subseteq V \cup D
        BY <3>1
      <4> QED BY <3>2, <4>1, FS_Subset
    <3>5. Cardinality(V) \in Nat /\ Cardinality(V \cup D) \in Nat /\ Cardinality(V) >= n
      BY <1>3, <2>2, <3>2, FS_CardinalityType
    <3>6. Cardinality(V \cup D) >= n + 1
      BY <3>3, <3>4, <3>5
    <3> QED BY <1>7, <3>6
  <2> QED BY <2>1, <2>2
<1>12. Found(r, s, n + 1)
  BY <1>7, <1>8, <1>9, <1>10, <1>11 DEF Found
<1> QED BY <1>6, <1>12

\* The loop has as many rounds as it needs: the messages it finds are closed under citation,
\* and it finds every memory that cites one of them.
LEMMA CascadeCloses ==
  ASSUME NEW s \in Msg, NEW X, X = {s} \cup SourceDependents(s).messages
  PROVE  /\ X \in SUBSET Msg /\ MessagesCiting(X) \subseteq X
         /\ MemoriesCiting(X) \subseteq SourceDependents(s).memories
<1>1. PICK n \in Nat : n = Cardinality(Msg)
  BY MsgCount
<1>2. PICK a : a = [visited |-> {}, pending |-> {s}, messages |-> {}, memories |-> {}]
  OBVIOUS
<1> DEFINE round == CHOOSE f : f = [i \in 0 .. n |-> IF i = 0 THEN a ELSE SourceRound(f[i - 1])]
<1>3. SourceDependents(s) = round[n]
  BY <1>1, <1>2 DEF SourceDependents
<1>4. a \in Cascade
  BY <1>2 DEF Cascade
<1>5. PICK g : g = [st \in Cascade |-> SourceRound(st)]
  OBVIOUS
<1>6. g \in [Cascade -> Cascade]
  BY <1>5, RoundTypes
<1>7. PICK f \in [0 .. n -> Cascade] : IsIterate(f, a, g, n)
  BY <1>4, <1>6, Iterates
<1>8. f = [i \in 0 .. n |-> IF i = 0 THEN a ELSE SourceRound(f[i - 1])]
  <2>1. ASSUME NEW i \in 0 .. n, i # 0 PROVE g[f[i - 1]] = SourceRound(f[i - 1])
    <3>1. f[i - 1] \in Cascade
      BY <1>7, <2>1
    <3> QED BY <1>5, <3>1
  <2> QED BY <1>7, <2>1 DEF IsIterate
<1>9. round = [i \in 0 .. n |-> IF i = 0 THEN a ELSE SourceRound(round[i - 1])]
  BY <1>8
<1> HIDE DEF round
<1> DEFINE P == {i \in 0 .. n : Found(round[i], s, i)}
<1>10. 0 \in P
  <2>1. round[0] = a
    BY <1>9
  <2>2. MessagesCiting({}) = {} /\ MemoriesCiting({}) = {} /\ Cardinality({}) = 0
    BY FS_EmptySet DEF MessagesCiting, MemoriesCiting
  <2>3. a.visited = {} /\ a.pending = {s} /\ a.messages = {} /\ a.memories = {}
    BY <1>2
  <2>4. Found(a, s, 0)
    BY <1>4, <2>2, <2>3 DEF Found
  <2> QED BY <2>1, <2>4
<1>11. ASSUME NEW i \in 0 .. n, i + 1 <= n, i \in P PROVE i + 1 \in P
  <2>1. i \in Nat /\ i + 1 \in 0 .. n /\ i + 1 # 0 /\ (i + 1) - 1 = i
    BY <1>11
  <2>2. round[i + 1] = SourceRound(round[i])
    BY <1>9, <2>1
  <2>3. Found(SourceRound(round[i]), s, i + 1)
    BY <1>11, <2>1, RoundFinds
  <2> QED BY <2>1, <2>2, <2>3
<1>12. n \in P
  <2> HIDE DEF P
  <2>1. P \in SUBSET (0 .. n)
    BY DEF P
  <2>2. P = 0 .. n
    BY <1>10, <1>11, <2>1, UpTo
  <2> QED BY <2>2
<1>13. PICK st : st = SourceDependents(s)
  OBVIOUS
<1>14. Found(st, s, n)
  BY <1>3, <1>12, <1>13
<1>15. st.visited \in SUBSET Msg /\ st.pending \in SUBSET Msg /\ st.messages \in SUBSET Msg
  BY <1>14 DEF Found, Cascade
<1>16. st.pending = {}
  <2>1. CASE Cardinality(st.visited) >= n
    <3>1. Cardinality(st.visited) \in Nat /\ Cardinality(st.visited) <= n
      BY <1>1, <1>15, FiniteAssumption, FS_Subset, FS_CardinalityType
    <3>2. Cardinality(st.visited) = n
      BY <2>1, <3>1
    <3>3. st.visited = Msg
      BY <1>1, <1>15, <3>2, FiniteAssumption, FS_Subset
    <3> QED BY <1>14, <1>15, <3>3 DEF Found
  <2> QED BY <1>14, <2>1 DEF Found
<1>17. st.visited = {s} \cup st.messages
  BY <1>14, <1>16 DEF Found
<1> QED BY <1>13, <1>14, <1>15, <1>17 DEF Found

\* Messages that are over for good: all revoked, closed under citation, and cited by no
\* active memory.
Dead(X) ==
  /\ \A x \in X : msgs[x].status = "revoked"
  /\ MessagesCiting(X) \subseteq X
  /\ \A k \in MemoriesCiting(X) : mems[k].state # "active"

\* A message that rests on no memory is revoked together with such a set.
DeadTogether ==
  \A s \in Msg : msgs[s].status = "revoked" /\ msgs[s].memories = {} =>
    \E X \in SUBSET Msg : s \in X /\ Dead(X)

ReachInv == MemInv /\ DeadTogether

\* Rows are taken away, and new ones cite only what is active.
Shrinks ==
  /\ \A m \in Msg : \/ /\ msgs'[m].sources = msgs[m].sources
                       /\ msgs'[m].memories = msgs[m].memories
                       /\ msgs[m].status = "revoked" => msgs'[m].status = "revoked"
                    \/ /\ msgs[m].status # "revoked" /\ msgs'[m].status # "revoked"
                       /\ \A x \in msgs'[m].sources : msgs[x].status # "revoked"
  /\ \A k \in Mem : \/ /\ mems'[k].sources = mems[k].sources
                       /\ mems'[k].state = "active" => mems[k].state = "active"
                    \/ \A x \in mems'[k].sources : msgs[x].status # "revoked"

\* Then what is over stays over.
LEMMA DeadStays ==
  ASSUME Shrinks, NEW X \in SUBSET Msg, Dead(X) PROVE Dead(X)'
<1>1. \A x \in X : msgs'[x].status = "revoked"
  BY DEF Shrinks, Dead
<1>2. ASSUME NEW m \in Msg, NEW x \in msgs'[m].sources \cap X PROVE m \in X
  <2>1. msgs[x].status = "revoked"
    BY DEF Dead
  <2>2. msgs'[m].sources = msgs[m].sources
    BY <2>1 DEF Shrinks
  <2> QED BY <2>2 DEF Dead, MessagesCiting
<1>3. ASSUME NEW k \in Mem, NEW x \in mems'[k].sources \cap X PROVE mems'[k].state # "active"
  <2>1. msgs[x].status = "revoked"
    BY DEF Dead
  <2>2. mems'[k].sources = mems[k].sources /\ (mems'[k].state = "active" => mems[k].state = "active")
    BY <2>1 DEF Shrinks
  <2> QED BY <2>2 DEF Dead, MemoriesCiting
<1> QED BY <1>1, <1>2, <1>3 DEF Dead, MessagesCiting, MemoriesCiting

\* Closed sets stay closed when no live record starts to rest on a dead one.
LEMMA ShrinkStep ==
  ASSUME DeadTogether, Shrinks,
         \A m \in Msg : msgs'[m].status = "revoked" /\ msgs'[m].memories = {} =>
           \/ msgs[m].status = "revoked" /\ msgs[m].memories = {}
           \/ \E X \in SUBSET Msg : m \in X /\ Dead(X)'
  PROVE  DeadTogether'
<1>1. ASSUME NEW m \in Msg, msgs'[m].status = "revoked", msgs'[m].memories = {}
      PROVE  \E X \in SUBSET Msg : m \in X /\ Dead(X)'
  <2>1. CASE msgs[m].status = "revoked" /\ msgs[m].memories = {}
    <3>1. PICK X \in SUBSET Msg : m \in X /\ Dead(X)
      BY <2>1 DEF DeadTogether
    <3>2. Dead(X)'
      BY <3>1, DeadStays
    <3> QED BY <3>1, <3>2
  <2> QED BY <1>1, <2>1
<1> QED BY <1>1 DEF DeadTogether

\* Revoking messages changes their status alone.
LEMMA RevokedKeeps ==
  ASSUME msgs \in [Msg -> MsgRow], NEW ms, NEW m \in Msg
  PROVE  /\ Revoked(ms)[m].sources = msgs[m].sources /\ Revoked(ms)[m].memories = msgs[m].memories
         /\ Revoked(ms)[m].status = IF m \in ms THEN "revoked" ELSE msgs[m].status
  BY DEF Revoked, MsgRow

\* Invalidating memories changes no source.
LEMMA InvalidatedKeeps ==
  ASSUME mems \in [Mem -> MemRow], NEW ks, NEW k \in Mem
  PROVE  /\ Invalidated(ks)[k].sources = mems[k].sources
         /\ Invalidated(ks)[k].state = IF k \in ks THEN "invalidated" ELSE mems[k].state
  BY DEF Invalidated, MemRow

\* A new message or memory cites what its author can access, which is active.
LEMMA CreateShrinks ==
  ASSUME ReachInv, (\E m \in Msg : CreateMessage(m)) \/ \E k \in Mem : CreateMemory(k)
  PROVE  DeadTogether'
<1>1. msgs \in [Msg -> MsgRow] /\ mems \in [Mem -> MemRow] /\ DeadTogether
  BY MemTypes DEF ReachInv, MemInv
<1>2. \A c, ss : ss \in Citable(c) => \A x \in ss : msgs[x].status = "active"
  BY DEF Citable, CanAccessSource, Active
<1>3. ASSUME NEW m \in Msg, CreateMessage(m) PROVE DeadTogether'
  <2>1. PICK ss, rs : ss \in Citable(MsgContext(m)) /\ msgs' = [msgs EXCEPT ![m] = [status |-> "active", sources |-> ss, memories |-> rs]]
    BY <1>3 DEF CreateMessage
  <2>2. msgs[m].status = "absent" /\ mems' = mems
    BY <1>3 DEF CreateMessage
  <2>3. /\ msgs'[m].status = "active" /\ msgs'[m].sources = ss
        /\ \A x \in Msg : x # m => msgs'[x] = msgs[x]
    BY <1>1, <2>1
  <2>4. Shrinks
    BY <1>2, <2>1, <2>2, <2>3 DEF Shrinks
  <2> QED BY <1>1, <2>3, <2>4, ShrinkStep
<1>4. ASSUME NEW k \in Mem, CreateMemory(k) PROVE DeadTogether'
  <2>1. PICK ss, new : ss \in Citable(MemContext(k)) /\ mems' = [mems EXCEPT ![k] = new] /\ new.sources = ss
    BY <1>4 DEF CreateMemory
  <2>2. msgs' = msgs
    BY <1>4 DEF CreateMemory
  <2>3. mems'[k].sources = ss /\ \A j \in Mem : j # k => mems'[j] = mems[j]
    BY <1>1, <2>1
  <2>4. Shrinks
    BY <1>2, <2>1, <2>2, <2>3 DEF Shrinks
  <2> QED BY <1>1, <2>2, <2>4, ShrinkStep
<1> QED BY <1>3, <1>4

\* A correction or deletion revokes messages that cite memories, and no others.
LEMMA VersionShrinks ==
  ASSUME ReachInv, NEW k \in Mem, UpdateMemory(k) \/ DeleteMemory(k)
  PROVE  DeadTogether'
<1>1. msgs \in [Msg -> MsgRow] /\ mems \in [Mem -> MemRow] /\ DeadTogether
  BY MemTypes DEF ReachInv, MemInv
<1>2. PICK dep : dep = VersionDependents(k)
  OBVIOUS
<1>3. \A m \in dep.messages : msgs[m].memories # {}
  BY <1>2 DEF VersionDependents, MessagesCitingMemories
<1>4. PICK row : /\ mems' = [Invalidated(dep.memories) EXCEPT ![k] = row]
                 /\ row.sources = mems[k].sources /\ mems[k].state = "active"
  <2>1. mems[k] \in MemRow
    BY <1>1
  <2>2. ASSUME NEW until
        PROVE  [mems[k] EXCEPT !.version = @ + 1, !.index = "pending", !.epoch = memEpoch + 1,
                               !.until = until].sources = mems[k].sources
    BY <2>1 DEF MemRow
  <2>3. [mems[k] EXCEPT !.state = "deleted", !.index = "pending", !.epoch = memEpoch + 1].sources
          = mems[k].sources
    BY <2>1 DEF MemRow
  <2>4. CASE UpdateMemory(k)
    BY <1>2, <2>2, <2>4 DEF UpdateMemory
  <2>5. CASE DeleteMemory(k)
    BY <1>2, <2>3, <2>5 DEF DeleteMemory
  <2> QED BY <2>4, <2>5
<1>5. msgs' = Revoked(dep.messages)
  BY <1>2 DEF UpdateMemory, DeleteMemory
<1>6. \A m \in Msg : /\ msgs'[m].sources = msgs[m].sources /\ msgs'[m].memories = msgs[m].memories
                     /\ msgs'[m].status = IF m \in dep.messages THEN "revoked" ELSE msgs[m].status
  BY <1>1, <1>5, RevokedKeeps
<1>7. ASSUME NEW j \in Mem
      PROVE  mems'[j].sources = mems[j].sources /\ (mems'[j].state = "active" => mems[j].state = "active")
  <2>1. Invalidated(dep.memories) \in [Mem -> MemRow]
    BY <1>1, InvalidatedRows
  <2>2. CASE j = k
    BY <1>4, <2>1, <2>2
  <2>3. CASE j # k
    <3>1. mems'[j] = Invalidated(dep.memories)[j]
      BY <1>4, <2>1, <2>3
    <3> QED BY <1>1, <3>1, InvalidatedKeeps
  <2> QED BY <2>2, <2>3
<1>8. Shrinks
  BY <1>6, <1>7 DEF Shrinks
<1>9. \A m \in Msg : msgs'[m].status = "revoked" /\ msgs'[m].memories = {} =>
        msgs[m].status = "revoked" /\ msgs[m].memories = {}
  BY <1>3, <1>6
<1> QED BY <1>1, <1>8, <1>9, ShrinkStep

\* A revoked source takes with it everything the loop found.
LEMMA RevokeShrinks ==
  ASSUME ReachInv, NEW s \in Msg, RevokeSource(s)
  PROVE  DeadTogether'
<1>1. msgs \in [Msg -> MsgRow] /\ mems \in [Mem -> MemRow] /\ DeadTogether
  BY MemTypes DEF ReachInv, MemInv
<1>2. PICK dep : dep = SourceDependents(s)
  OBVIOUS
<1>3. PICK X : X = {s} \cup dep.messages
  OBVIOUS
<1>4. X \in SUBSET Msg /\ MessagesCiting(X) \subseteq X /\ MemoriesCiting(X) \subseteq dep.memories
  BY <1>2, <1>3, CascadeCloses
<1>5. PICK out : out = dep.memories \cup MemoriesCiting({s})
  OBVIOUS
<1>6. msgs' = Revoked(X)
  <2>1. MessagesCiting({s}) \subseteq MessagesCiting(X)
    BY <1>3 DEF MessagesCiting
  <2>2. {s} \cup dep.messages \cup MessagesCiting({s}) = X
    BY <1>3, <1>4, <2>1
  <2> QED BY <1>2, <2>2 DEF RevokeSource
<1>7. \A m \in Msg : /\ msgs'[m].sources = msgs[m].sources /\ msgs'[m].memories = msgs[m].memories
                     /\ msgs'[m].status = IF m \in X THEN "revoked" ELSE msgs[m].status
  BY <1>1, <1>6, RevokedKeeps
<1>8. ASSUME NEW k \in Mem
      PROVE  /\ mems'[k].sources = mems[k].sources
             /\ mems'[k].state = IF k \in out THEN "invalidated" ELSE mems[k].state
  <2>1. PICK row \in MemRow : row = Invalidated(out)[k]
    BY <1>1, InvalidatedRows
  <2>2. row.sources = mems[k].sources /\ row.state = IF k \in out THEN "invalidated" ELSE mems[k].state
    BY <1>1, <2>1, InvalidatedKeeps
  <2>3. mems'[k] = row \/ mems'[k] = [row EXCEPT !.epoch = memEpoch + 1]
    BY <1>2, <1>5, <2>1 DEF RevokeSource
  <2>4. mems'[k].sources = row.sources /\ mems'[k].state = row.state
    BY <2>3 DEF MemRow
  <2> QED BY <2>2, <2>4
<1>9. Shrinks
  BY <1>7, <1>8 DEF Shrinks
<1>10. Dead(X)'
  <2>1. MessagesCiting(X)' = MessagesCiting(X) /\ MemoriesCiting(X)' = MemoriesCiting(X)
    BY <1>7, <1>8 DEF MessagesCiting, MemoriesCiting
  <2>2. \A k \in MemoriesCiting(X) : k \in Mem /\ k \in out
    BY <1>4, <1>5 DEF MemoriesCiting
  <2> QED BY <1>4, <1>7, <1>8, <2>1, <2>2 DEF Dead
<1>11. \A m \in Msg : msgs'[m].status = "revoked" /\ msgs'[m].memories = {} =>
         \/ msgs[m].status = "revoked" /\ msgs[m].memories = {}
         \/ \E Y \in SUBSET Msg : m \in Y /\ Dead(Y)'
  BY <1>4, <1>7, <1>10
<1> QED BY <1>1, <1>9, <1>11, ShrinkStep

\* Every step of the memory authority keeps the sets that died together.
LEMMA ReachStep == ReachInv /\ [MemoryNext]_memVars => ReachInv'
<1> SUFFICES ASSUME ReachInv, [MemoryNext]_memVars PROVE ReachInv'
  OBVIOUS
<1>1. MemInv'
  BY MemStep DEF ReachInv
<1>2. msgs \in [Msg -> MsgRow] /\ mems \in [Mem -> MemRow] /\ DeadTogether
  BY MemTypes DEF ReachInv, MemInv
<1>3. ASSUME msgs' = msgs, \A k \in Mem : mems'[k].sources = mems[k].sources /\ mems'[k].state = mems[k].state
      PROVE  DeadTogether'
  <2>1. Shrinks
    BY <1>3 DEF Shrinks
  <2> QED BY <1>2, <1>3, <2>1, ShrinkStep
<1>4. CASE \/ UNCHANGED memVars \/ MemoryTick
           \/ \E g \in Grantable : GrantSource(g[1], g[2]) \/ RevokeSourceGrant(g[1], g[2])
           \/ \E k \in Mem : BeginIndex(k) \/ ProviderDelete(k)
           \/ \E c \in indexCalls : Upsert(c)
  <2>1. msgs' = msgs /\ mems' = mems
    BY <1>4 DEF memVars, MemoryTick, GrantSource, RevokeSourceGrant, BeginIndex, ProviderDelete, Upsert
  <2> QED BY <1>1, <1>3, <2>1 DEF ReachInv
<1>5. ASSUME NEW c \in indexCalls, EndIndex(c) PROVE DeadTogether'
  <2>1. PICK st : mems' = SetIndexState(c.mem, c.version, st) /\ msgs' = msgs
    BY <1>5 DEF EndIndex
  <2>2. mems' = mems \/ mems' = [mems EXCEPT ![c.mem] = [mems[c.mem] EXCEPT !.index = st]]
    BY <2>1 DEF SetIndexState
  <2>3. \A row \in MemRow : [row EXCEPT !.index = st].sources = row.sources /\ [row EXCEPT !.index = st].state = row.state
    BY DEF MemRow
  <2>4. \A k \in Mem : mems'[k].sources = mems[k].sources /\ mems'[k].state = mems[k].state
    BY <1>2, <2>2, <2>3, ZenonT(60)
  <2> QED BY <1>3, <2>1, <2>4
<1>6. CASE (\E m \in Msg : CreateMessage(m)) \/ \E k \in Mem : CreateMemory(k)
  BY <1>1, <1>6, CreateShrinks DEF ReachInv
<1>7. CASE \E k \in Mem : UpdateMemory(k) \/ DeleteMemory(k)
  BY <1>1, <1>7, VersionShrinks DEF ReachInv
<1>8. CASE \E m \in Msg : RevokeSource(m)
  BY <1>1, <1>8, RevokeShrinks DEF ReachInv
<1> QED BY <1>1, <1>4, <1>5, <1>6, <1>7, <1>8 DEF MemoryNext, ReachInv

\* The invariant of the cascade holds throughout.
THEOREM ReachInvariant == MemorySpec => []ReachInv
<1>1. MemoryInit => ReachInv
  <2>1. MemoryInit => DeadTogether
    BY DEF MemoryInit, DeadTogether
  <2> QED BY <2>1, MemInitially DEF ReachInv
<1> QED BY <1>1, ReachStep, PTL DEF MemorySpec

\* Revoking a message that cites no memory reaches every message that rests on it through
\* messages, at any depth, and every memory that cites one, whatever was revoked before
\* (revoke_source, _invalidate_source_dependents).
THEOREM MemoryRevocationReaches == MemorySpec => []RevocationReaches
<1>1. ReachInv => RevocationReaches
  <2> SUFFICES ASSUME ReachInv, NEW s \in Msg, msgs[s].status = "revoked", msgs[s].memories = {}
               PROVE  /\ \A m \in RestsOn(s) : ~Active(m)
                      /\ \A k \in MemoriesCiting(RestsOn(s)) : mems[k].state # "active"
    BY DEF RevocationReaches
  <2>1. PICK X \in SUBSET Msg : s \in X /\ Dead(X)
    BY DEF ReachInv, DeadTogether
  <2>2. msgs \in [Msg -> MsgRow]
    BY MemTypes DEF ReachInv, MemInv
  <2>3. RestsOn(s) \subseteq X
    BY <2>1, <2>2, RestsWithin DEF Dead
  <2>4. \A m \in RestsOn(s) : ~Active(m)
    BY <2>1, <2>3 DEF Dead, Active
  <2>5. MemoriesCiting(RestsOn(s)) \subseteq MemoriesCiting(X)
    BY <2>3 DEF MemoriesCiting
  <2> QED BY <2>1, <2>4, <2>5 DEF Dead
<1> QED BY <1>1, ReachInvariant, PTL

-----------------------------------------------------------------------------
(* The authorization epoch.                                                *)
(*                                                                         *)
(* Steps that keep the epoch and the clock add records or write an index    *)
(* state.  What a reader can reach before such a step does not involve the  *)
(* new record, so its lineage is the same after it.                         *)

Revision == Mem \X (0 .. MaxVersion)

\* The lineage of m in a table M of memories.
AncestryIn(M, m) ==
  LET up[k \in 0 .. Cardinality(Mem)] ==
        IF k = 0 THEN {<<m, M[m].version>>}
        ELSE up[k - 1] \cup UNION {M[r[1]].parents : r \in up[k - 1]}
  IN up[Cardinality(Mem)]

\* The lineage before and after a step, as a function of the table.
LEMMA AncestryOf ==
  ASSUME NEW m PROVE Ancestry(m) = AncestryIn(mems, m) /\ Ancestry(m)' = AncestryIn(mems', m)
  BY DEF Ancestry, AncestryIn

\* Generation by generation.
IsLineage(f, M, m, n) ==
  /\ f \in [0 .. n -> SUBSET Revision] /\ f[0] = {<<m, M[m].version>>}
  /\ \A i \in 0 .. n : i + 1 <= n => f[i + 1] = f[i] \cup UNION {M[r[1]].parents : r \in f[i]}

\* The recursive definition of a lineage has its generations, up to the number of memories.
LEMMA LineageExists ==
  ASSUME NEW M \in [Mem -> MemRow], NEW m \in Mem
  PROVE  \E f : IsLineage(f, M, m, Cardinality(Mem)) /\ AncestryIn(M, m) = f[Cardinality(Mem)]
<1>1. PICK n \in Nat : n = Cardinality(Mem)
  BY FiniteAssumption, FS_CardinalityType
<1>2. PICK a : a = {<<m, M[m].version>>}
  OBVIOUS
<1>3. a \in SUBSET Revision
  BY <1>2 DEF MemRow, Revision
<1> DEFINE up == CHOOSE f : f = [i \in 0 .. n |-> IF i = 0 THEN a ELSE f[i - 1] \cup UNION {M[r[1]].parents : r \in f[i - 1]}]
<1>4. AncestryIn(M, m) = up[n]
  BY <1>1, <1>2 DEF AncestryIn
<1>5. PICK g : g = [Y \in SUBSET Revision |-> Y \cup UNION {M[r[1]].parents : r \in Y}]
  OBVIOUS
<1>6. g \in [SUBSET Revision -> SUBSET Revision]
  <2>1. \A r \in Revision : M[r[1]].parents \in SUBSET MemRef
    BY DEF Revision, MemRow
  <2>2. MemRef \subseteq Revision
    BY MemoryAssumption DEF MemRef, Revision
  <2> QED BY <1>5, <2>1, <2>2
<1>7. PICK f \in [0 .. n -> SUBSET Revision] : IsIterate(f, a, g, n)
  BY <1>3, <1>6, Iterates
<1>8. f = [i \in 0 .. n |-> IF i = 0 THEN a ELSE f[i - 1] \cup UNION {M[r[1]].parents : r \in f[i - 1]}]
  <2>1. ASSUME NEW i \in 0 .. n, i # 0 PROVE g[f[i - 1]] = f[i - 1] \cup UNION {M[r[1]].parents : r \in f[i - 1]}
    <3>1. f[i - 1] \in SUBSET Revision
      BY <1>7, <2>1
    <3> QED BY <1>5, <3>1
  <2> QED BY <1>7, <2>1 DEF IsIterate
<1>9. up = [i \in 0 .. n |-> IF i = 0 THEN a ELSE up[i - 1] \cup UNION {M[r[1]].parents : r \in up[i - 1]}]
  BY <1>8
<1> HIDE DEF up
<1>10. up[0] = a /\ DOMAIN up = 0 .. n /\ up = [i \in 0 .. n |-> up[i]]
  BY <1>9
<1>11. ASSUME NEW i \in 0 .. n, i + 1 <= n PROVE up[i + 1] = up[i] \cup UNION {M[r[1]].parents : r \in up[i]}
  <2>1. i + 1 \in 0 .. n /\ i + 1 # 0 /\ (i + 1) - 1 = i
    BY <1>11
  <2> QED BY <1>9, <2>1
<1> DEFINE P == {i \in 0 .. n : up[i] \in SUBSET Revision}
<1>12. ASSUME NEW i \in 0 .. n, i + 1 <= n, i \in P PROVE i + 1 \in P
  <2>1. up[i] \in SUBSET Revision /\ i + 1 \in 0 .. n
    BY <1>12
  <2>2. g[up[i]] = up[i + 1]
    BY <1>5, <1>11, <1>12, <2>1
  <2>3. g[up[i]] \in SUBSET Revision
    BY <1>6, <2>1
  <2> QED BY <2>1, <2>2, <2>3
<1>13. 0 \in P
  BY <1>3, <1>10
<1>14. P = 0 .. n
  <2> HIDE DEF P
  <2>1. P \in SUBSET (0 .. n)
    BY DEF P
  <2> QED BY <1>12, <1>13, <2>1, UpTo
<1>15. up \in [0 .. n -> SUBSET Revision]
  BY <1>10, <1>14
<1>16. IsLineage(up, M, m, n)
  BY <1>2, <1>10, <1>11, <1>15 DEF IsLineage
<1> QED BY <1>1, <1>4, <1>16

\* A generation is in all later ones.
LEMMA LineageGrows ==
  ASSUME NEW n \in Nat, NEW f, NEW M, NEW m, IsLineage(f, M, m, n), NEW i \in 0 .. n
  PROVE  f[i] \subseteq f[n]
<1> DEFINE P == {k \in 0 .. n : \A j \in 0 .. k : f[j] \subseteq f[k]}
<1>1. 0 \in P
  OBVIOUS
<1>2. ASSUME NEW k \in 0 .. n, k + 1 <= n, k \in P PROVE k + 1 \in P
  <2>1. f[k] \subseteq f[k + 1] /\ k + 1 \in 0 .. n
    BY <1>2 DEF IsLineage
  <2>2. \A j \in 0 .. k + 1 : j = k + 1 \/ j \in 0 .. k
    BY <1>2
  <2> QED BY <1>2, <2>1, <2>2
<1>3. P = 0 .. n
  <2> HIDE DEF P
  <2>1. P \in SUBSET (0 .. n)
    BY DEF P
  <2> QED BY <1>1, <1>2, <2>1, UpTo
<1>4. n \in P
  BY <1>3
<1> QED BY <1>4

\* Tables that agree on the parents of everything m rests on give m the same lineage.
LEMMA SameAncestry ==
  ASSUME NEW M \in [Mem -> MemRow], NEW N \in [Mem -> MemRow], NEW m \in Mem,
         N[m].version = M[m].version, \A r \in AncestryIn(M, m) : N[r[1]].parents = M[r[1]].parents
  PROVE  AncestryIn(N, m) = AncestryIn(M, m)
<1>0. PICK n \in Nat : n = Cardinality(Mem)
  BY FiniteAssumption, FS_CardinalityType
<1>1. PICK f : IsLineage(f, M, m, n) /\ AncestryIn(M, m) = f[n]
  BY <1>0, LineageExists
<1>2. PICK h : IsLineage(h, N, m, n) /\ AncestryIn(N, m) = h[n]
  BY <1>0, LineageExists
<1> DEFINE P == {i \in 0 .. n : h[i] = f[i]}
<1>3. 0 \in P
  <2>1. f[0] = {<<m, M[m].version>>} /\ h[0] = {<<m, N[m].version>>}
    BY <1>1, <1>2 DEF IsLineage
  <2>2. h[0] = f[0] /\ 0 \in 0 .. n
    BY <2>1
  <2> QED BY <2>2
<1>4. ASSUME NEW i \in 0 .. n, i + 1 <= n, i \in P PROVE i + 1 \in P
  <2>1. f[i] \subseteq f[n]
    BY <1>1, LineageGrows
  <2>2. {N[r[1]].parents : r \in f[i]} = {M[r[1]].parents : r \in f[i]}
    BY <1>1, <2>1
  <2>3. f[i + 1] = f[i] \cup UNION {M[r[1]].parents : r \in f[i]}
    BY <1>1, <1>4 DEF IsLineage
  <2>4. h[i + 1] = h[i] \cup UNION {N[r[1]].parents : r \in h[i]}
    BY <1>2, <1>4 DEF IsLineage
  <2>5. h[i] = f[i] /\ i + 1 \in 0 .. n
    BY <1>4
  <2>6. h[i + 1] = f[i + 1]
    BY <2>2, <2>3, <2>4, <2>5
  <2> QED BY <2>5, <2>6
<1>5. P = 0 .. n
  <2> HIDE DEF P
  <2>1. P \in SUBSET (0 .. n)
    BY DEF P
  <2> QED BY <1>3, <1>4, <2>1, UpTo
<1>6. n \in P
  BY <1>5
<1> QED BY <1>1, <1>2, <1>6

\* A lineage holds the revision it is of, and revisions only.
LEMMA AncestryHas ==
  ASSUME NEW M \in [Mem -> MemRow], NEW m \in Mem
  PROVE  <<m, M[m].version>> \in AncestryIn(M, m) /\ AncestryIn(M, m) \subseteq Revision
<1>0. PICK n \in Nat : n = Cardinality(Mem)
  BY FiniteAssumption, FS_CardinalityType
<1>1. PICK f : IsLineage(f, M, m, n) /\ AncestryIn(M, m) = f[n]
  BY <1>0, LineageExists
<1>2. f[0] \subseteq f[n]
  BY <1>1, LineageGrows
<1> QED BY <1>1, <1>2 DEF IsLineage

\* Records are added, and those that are active keep all that reading looks at.
Adds ==
  /\ UNCHANGED <<grants, memClock, memEpoch>>
  /\ msgs \in [Msg -> MsgRow] /\ mems \in [Mem -> MemRow] /\ mems' \in [Mem -> MemRow]
  /\ \A s \in Msg : msgs[s].status = "active" => msgs'[s] = msgs[s]
  /\ \A k \in Mem : mems[k].state = "active" =>
       /\ mems'[k].state = "active" /\ mems'[k].version = mems[k].version /\ mems'[k].until = mems[k].until
       /\ mems'[k].sources = mems[k].sources /\ mems'[k].parents = mems[k].parents

\* Grants are as before.
LEMMA GrantedKept ==
  ASSUME Adds, NEW s, NEW conv PROVE Granted(s, conv)' = Granted(s, conv)
  BY DEF Adds, Granted, Live

\* A source that can be read still can be.
LEMMA SourceKept ==
  ASSUME Adds, NEW c, NEW s \in Msg, CanAccessSource(c, s) PROVE CanAccessSource(c, s)'
<1>1. msgs[s].status = "active"
  BY DEF CanAccessSource, Active
<1>2. Active(s)'
  BY <1>1 DEF Adds, Active
<1> QED BY <1>2, GrantedKept DEF CanAccessSource

\* A memory that can be read still can be, at the same version.
LEMMA MemoryKept ==
  ASSUME Adds, NEW c, NEW m \in Mem, CanAccessMemory(c, m)
  PROVE  CanAccessMemory(c, m)' /\ mems[m].state = "active" /\ mems'[m].version = mems[m].version
<1>1. PICK A : A = AncestryIn(mems, m)
  OBVIOUS
<1>2. <<m, mems[m].version>> \in A /\ A \subseteq Revision /\ Ancestry(m) = A
  BY <1>1, AncestryHas, AncestryOf DEF Adds
<1>3. \A r \in A : RevisionAccessible(c, r)
  BY <1>2 DEF CanAccessMemory
<1>4. \A r \in A : r[1] \in Mem /\ mems[r[1]].state = "active"
  BY <1>2, <1>3 DEF RevisionAccessible, Revision
<1>5. mems[m].state = "active"
  <2>1. PICK r \in A : r = <<m, mems[m].version>>
    BY <1>2
  <2>2. r[1] = m
    BY <2>1
  <2> QED BY <1>4, <2>2
<1>6. mems'[m].version = mems[m].version /\ \A r \in A : mems'[r[1]].parents = mems[r[1]].parents
  BY <1>4, <1>5 DEF Adds
<1>7. AncestryIn(mems', m) = A
  <2>1. PICK M \in [Mem -> MemRow], N \in [Mem -> MemRow] : M = mems /\ N = mems'
    BY DEF Adds
  <2>2. A = AncestryIn(M, m) /\ N[m].version = M[m].version /\ \A r \in AncestryIn(M, m) : N[r[1]].parents = M[r[1]].parents
    BY <1>1, <1>6, <2>1
  <2>3. AncestryIn(N, m) = AncestryIn(M, m)
    BY <2>2, SameAncestry
  <2> QED BY <2>1, <2>2, <2>3
<1>8. ASSUME NEW r \in A PROVE RevisionAccessible(c, r)'
  <2>1. PICK k \in Mem : k = r[1]
    BY <1>4
  <2>2. mems[k].state = "active" /\ mems[k].version = r[2] /\ Live(mems[k].until) /\ \A s \in mems[k].sources : CanAccessSource(c, s)
    BY <1>3, <2>1 DEF RevisionAccessible
  <2>3. /\ mems'[k].state = "active" /\ mems'[k].version = r[2] /\ mems'[k].until = mems[k].until
        /\ mems'[k].sources = mems[k].sources
    BY <2>2 DEF Adds
  <2>4. Live(mems[k].until)'
    BY <2>2, <2>3 DEF Adds, Live
  <2>5. mems[k].sources \subseteq Msg
    BY DEF Adds, MemRow
  <2>6. \A s \in mems'[k].sources : CanAccessSource(c, s)'
    BY <2>2, <2>3, <2>5, SourceKept
  <2> QED BY <1>3, <2>1, <2>3, <2>4, <2>6 DEF RevisionAccessible
<1>9. Ancestry(m)' = A
  BY <1>7, AncestryOf
<1>10. CanAccessMemory(c, m)'
  BY <1>8, <1>9 DEF CanAccessMemory
<1> QED BY <1>5, <1>6, <1>10

\* What a reader can use, is shown or can open stays so.
LEMMA ReaderKeeps ==
  ASSUME Adds, NEW c
  PROVE  Usable(c) \subseteq Usable(c)' /\ Shown(c) \subseteq Shown(c)' /\ Openable(c) \subseteq Openable(c)'
<1>1. Usable(c) \subseteq Usable(c)'
  <2>1. ASSUME NEW s \in Msg, AuthorizeSources(c, memEpoch, {SourceRef({s}, {})})
        PROVE  AuthorizeSources(c, memEpoch, {SourceRef({s}, {})})'
    <3>1. CanAccessSource(c, s)'
      BY <2>1, SourceKept DEF AuthorizeSources, SourceRef
    <3> QED BY <3>1 DEF AuthorizeSources, SourceRef
  <2>2. ASSUME NEW k \in Mem,
               AuthorizeSources(c, memEpoch, {SourceRef(mems[k].sources, {<<k, mems[k].version>>})})
        PROVE  AuthorizeSources(c, memEpoch, {SourceRef(mems[k].sources, {<<k, mems[k].version>>})})'
    <3>1. (\A s \in mems[k].sources : CanAccessSource(c, s)) /\ RefAccessible(c, <<k, mems[k].version>>)
      BY <2>2 DEF AuthorizeSources, SourceRef
    <3>2. CanAccessMemory(c, k)
      BY <3>1 DEF RefAccessible
    <3>3. CanAccessMemory(c, k)' /\ mems[k].state = "active" /\ mems'[k].version = mems[k].version
      BY <3>2, MemoryKept
    <3>4. mems'[k].sources = mems[k].sources /\ mems[k].sources \subseteq Msg
      BY <3>3 DEF Adds, MemRow
    <3>5. \A s \in mems'[k].sources : CanAccessSource(c, s)'
      BY <3>1, <3>4, SourceKept
    <3>6. RefAccessible(c, <<k, mems[k].version>>)'
      BY <3>3 DEF RefAccessible
    <3> QED BY <3>5, <3>6 DEF AuthorizeSources, SourceRef
  <2> QED BY <2>1, <2>2 DEF Usable
<1>2. ASSUME NEW m \in VisibleMessages(c) PROVE m \in VisibleMessages(c)'
  <2>1. m \in Msg /\ MsgInfo[m].actor = c.actor /\ MsgInfo[m].conv = c.conv /\ MessageLineageAccessible(c, m)
    BY DEF VisibleMessages
  <2>2. CanAccessSource(c, m)' /\ msgs'[m] = msgs[m]
    BY <2>1, SourceKept DEF MessageLineageAccessible, CanAccessSource, Active, Adds
  <2>3. msgs[m].sources \subseteq Msg /\ msgs[m].memories \subseteq MemRef
    BY <2>1 DEF Adds, MsgRow
  <2>4. \A s \in msgs'[m].sources : CanAccessSource(c, s)'
    BY <2>1, <2>2, <2>3, SourceKept DEF MessageLineageAccessible
  <2>5. ASSUME NEW r \in msgs'[m].memories PROVE RefAccessible(c, r)'
    <3>1. RefAccessible(c, r) /\ r[1] \in Mem
      BY <2>1, <2>2, <2>3, <2>5 DEF MessageLineageAccessible, MemRef
    <3> QED BY <3>1, MemoryKept DEF RefAccessible
  <2>6. MessageLineageAccessible(c, m)'
    BY <2>2, <2>4, <2>5 DEF MessageLineageAccessible
  <2> QED BY <2>1, <2>6 DEF VisibleMessages
<1>3. ASSUME NEW m \in VisibleMemories(c) PROVE m \in VisibleMemories(c)'
  <2>1. QueryOwners(c)' = QueryOwners(c)
    BY GrantedKept DEF QueryOwners
  <2>2. m \in Mem /\ CanAccessMemory(c, m) /\ mems[m].state = "active"
    BY DEF VisibleMemories
  <2>3. CanAccessMemory(c, m)' /\ mems'[m].state = "active"
    BY <2>2, MemoryKept DEF Adds
  <2> QED BY <2>1, <2>2, <2>3 DEF VisibleMemories
<1>4. Shown(c) \subseteq Shown(c)'
  BY <1>2, <1>3 DEF Shown
<1>5. ASSUME NEW a \in Openable(c) PROVE a \in Openable(c)'
  <2>1. PICK s \in Msg : a \in Artifact /\ AuthorizeArtifact(c, memEpoch, {SourceRef({s}, {})}, a)
    BY DEF Openable
  <2>2. CanAccessSource(c, s) /\ a \in MsgInfo[s].artifacts
    BY <2>1 DEF AuthorizeArtifact, SourceRef
  <2>3. CanAccessSource(c, s)'
    BY <2>2, SourceKept
  <2>4. AuthorizeArtifact(c, memEpoch, {SourceRef({s}, {})}, a)'
    BY <2>2, <2>3 DEF AuthorizeArtifact, SourceRef
  <2> QED BY <2>1, <2>4 DEF Openable
<1> QED BY <1>1, <1>4, <1>5

\* A step that leaves the epoch and the clock alone only adds records.
LEMMA StepAdds ==
  ASSUME MemInv, MemoryNext
  PROVE  \/ UNCHANGED <<msgs, mems, grants, memClock>>
         \/ memEpoch' > memEpoch \/ memClock' > memClock \/ Adds
<1>1. /\ msgs \in [Msg -> MsgRow] /\ mems \in [Mem -> MemRow] /\ memEpoch \in Nat /\ memClock \in Nat
      /\ mems' \in [Mem -> MemRow]
  <2>1. MemInv'
    BY MemStep
  <2>2. MemoryTypeOK /\ MemoryTypeOK'
    BY <2>1 DEF MemInv
  <2> QED BY <2>2, MemTypes DEF MemoryTypeOK, MemRow
<1>2. CASE \/ \E m \in Msg : RevokeSource(m)
           \/ \E g \in Grantable : GrantSource(g[1], g[2]) \/ RevokeSourceGrant(g[1], g[2])
           \/ \E k \in Mem : UpdateMemory(k) \/ DeleteMemory(k)
  <2>1. BumpEpoch
    BY <1>2, ZenonT(60) DEF RevokeSource, GrantSource, RevokeSourceGrant, UpdateMemory, DeleteMemory
  <2>2. memEpoch' > memEpoch
    BY <1>1, <2>1 DEF BumpEpoch
  <2> QED BY <2>2, SMTT(40)
<1>3. CASE MemoryTick
  BY <1>1, <1>3 DEF MemoryTick
<1>4. CASE \/ \E k \in Mem : BeginIndex(k) \/ ProviderDelete(k)
           \/ \E c \in indexCalls : Upsert(c)
  BY <1>4 DEF BeginIndex, ProviderDelete, Upsert
<1>5. ASSUME NEW m \in Msg, CreateMessage(m) PROVE Adds
  <2>1. /\ msgs[m].status = "absent" /\ UNCHANGED <<mems, grants, memEpoch, memClock>>
        /\ \E row : msgs' = [msgs EXCEPT ![m] = row]
    BY <1>5 DEF CreateMessage
  <2>2. \A s \in Msg : msgs[s].status = "active" => msgs'[s] = msgs[s]
    BY <1>1, <2>1
  <2> QED BY <1>1, <2>1, <2>2 DEF Adds
<1>6. ASSUME NEW k \in Mem, CreateMemory(k) PROVE Adds
  <2>1. /\ mems[k].state = "absent" /\ UNCHANGED <<msgs, grants, memEpoch, memClock>>
        /\ \E row : mems' = [mems EXCEPT ![k] = row]
    BY <1>6 DEF CreateMemory
  <2>2. \A j \in Mem : mems[j].state = "active" => mems'[j] = mems[j]
    BY <1>1, <2>1
  <2> QED BY <1>1, <2>1, <2>2 DEF Adds
<1>7. ASSUME NEW c \in indexCalls, EndIndex(c) PROVE Adds
  <2>1. PICK st : mems' = SetIndexState(c.mem, c.version, st) /\ UNCHANGED <<msgs, grants, memEpoch, memClock>>
    BY <1>7 DEF EndIndex
  <2>2. mems' = mems \/ mems' = [mems EXCEPT ![c.mem] = [mems[c.mem] EXCEPT !.index = st]]
    BY <2>1 DEF SetIndexState
  <2>3. \A row \in MemRow : LET new == [row EXCEPT !.index = st] IN
          /\ new.state = row.state /\ new.version = row.version /\ new.until = row.until
          /\ new.sources = row.sources /\ new.parents = row.parents
    BY DEF MemRow
  <2>4. \A k \in Mem :
          /\ mems'[k].state = mems[k].state /\ mems'[k].version = mems[k].version
          /\ mems'[k].until = mems[k].until
          /\ mems'[k].sources = mems[k].sources /\ mems'[k].parents = mems[k].parents
    <3>1. CASE mems' = mems
      BY <3>1
    <3>2. CASE mems' = [mems EXCEPT ![c.mem] = [mems[c.mem] EXCEPT !.index = st]]
      <4>1. PICK row : row = [mems[c.mem] EXCEPT !.index = st]
        OBVIOUS
      <4>2. ASSUME NEW k \in Mem PROVE mems'[k] = mems[k] \/ (k = c.mem /\ mems'[k] = row)
        BY <1>1, <3>2, <4>1
      <4>3. c.mem \in Mem => row.state = mems[c.mem].state /\ row.version = mems[c.mem].version
                             /\ row.until = mems[c.mem].until /\ row.sources = mems[c.mem].sources
                             /\ row.parents = mems[c.mem].parents
        BY <1>1, <2>3, <4>1
      <4> QED BY <4>2, <4>3
    <3> QED BY <2>2, <3>1, <3>2
  <2> QED BY <1>1, <2>1, <2>4 DEF Adds
<1> QED BY <1>2, <1>3, <1>4, <1>5, <1>6, <1>7 DEF MemoryNext

\* Whatever takes a source, a memory or an attachment away from a reader, or hides a
\* message it was shown, other than the passing of time, advances the epoch that
\* authorize_sources compares (_bump_epoch).
THEOREM MemoryEpochGuards == MemorySpec => EpochGuards
<1> DEFINE Guarded ==
      \/ UNCHANGED <<msgs, mems, grants, memClock>>
      \/ memEpoch' > memEpoch \/ memClock' > memClock
      \/ \A c \in Reader : /\ Usable(c) \subseteq Usable(c)' /\ Shown(c) \subseteq Shown(c)'
                          /\ Openable(c) \subseteq Openable(c)'
<1>1. MemInv /\ [MemoryNext]_memVars => [Guarded]_memVars
  <2>1. ASSUME Adds PROVE \A c \in Reader : /\ Usable(c) \subseteq Usable(c)' /\ Shown(c) \subseteq Shown(c)'
                                           /\ Openable(c) \subseteq Openable(c)'
    BY <2>1, ReaderKeeps
  <2> QED BY <2>1, StepAdds
<1>2. MemorySpec => [][Guarded]_memVars
  <2> HIDE DEF Guarded
  <2> QED BY <1>1, MemoryInvariant, PTL DEF MemorySpec
<1> QED BY <1>2 DEF EpochGuards
=============================================================================
