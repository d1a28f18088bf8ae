------------------------ MODULE ConversationDomains ------------------------
(***************************************************************************)
(* The actor-owned conversation domains,                                    *)
(* work/conversation_memory/domains.py, behind the routes of domain_api.py: *)
(* personas, behaviour policies, profiles, graph changesets, focus items,   *)
(* notes, handoffs, review events and imported batches.                     *)
(*                                                                         *)
(* The sources a record cites live in another database.  A route authorizes *)
(* them there, and then calls the domain store, whose every write is one    *)
(* BEGIN IMMEDIATE transaction: a source may be revoked, a version may move *)
(* and a candidate may expire in between.  So a route is two actions, a     *)
(* Begin that leaves the authorized call in domCalls and the store's write. *)
(* A call may also end in DropCall: the refusal or replay of a stale        *)
(* request, or the loss of the process.  A call carries the version of the  *)
(* record that its client read: versions only grow, so a call that starts   *)
(* from an older one is refused like one that a later write overtakes.      *)
(*                                                                         *)
(* Abstractions: one actor; a record is its idempotency key and cites one   *)
(* source; texts, categories and limits are left out.  A profile is named   *)
(* by its candidate, which becomes active once.                             *)
(***************************************************************************)
EXTENDS Naturals, FiniteSets

CONSTANTS
  DomSource,     \* messages that records cite
  Candidate,     \* profile candidates
  CandInfo,      \* slot (conversation, subject, category, persona), source, expiry
  DomConv,       \* conversations
  DomPersona,    \* personas
  PolicyValue,   \* behaviour policies to choose from
  Change,        \* graph changesets
  Focus,         \* focus items
  Note,          \* research notes without evidence
  NoteTitle,     \* [Note -> title]
  Entry,         \* handoffs and review events
  EntryKind,     \* [Entry -> {"handoff", "review"}]
  Batch,         \* import batches
  BatchRecords,  \* [Batch -> records], each [id, safe, provenanced]
  SourceOf,      \* the source cited by a change, item, note, entry or batch
  MaxDomVersion, MaxDomClock, MaxDomCalls,
  NoPersonaBound, NoProfile

VARIABLES
  domRevoked,    \* external: sources the memory authority no longer grants
  domClock,
  domCalls,      \* route calls between authorization and write
  personas, bindings, policies,
  cands, profiles,
  changesets,
  graphStore,    \* external: changesets the graph provider holds
  focus, notes, ledger, batches

domVars == <<domRevoked, domClock, domCalls, personas, bindings, policies, cands, profiles,
             changesets, graphStore, focus, notes, ledger, batches>>

DomVersion   == 0 .. MaxDomVersion
Op           == {"candidate", "activate", "rollback", "propose", "apply", "project",
                 "focus", "transition", "note", "entry", "import"}
DomRecord    == Candidate \cup Change \cup Focus \cup Note \cup Entry \cup Batch
DomCall      == [op : Op, id : DomRecord, expected : DomVersion]
FocusState   == {"none", "open", "waiting", "done", "cancelled"}
ProfileState == {"none", "active", "superseded", "expired", "rolled_back"}

ASSUME DomainAssumption ==
  /\ CandInfo \in [Candidate -> [slot : DomConv, source : DomSource, until : Nat]]
  /\ SourceOf \in [DomRecord \ Candidate -> DomSource]
  /\ DOMAIN NoteTitle = Note /\ EntryKind \in [Entry -> {"handoff", "review"}]
  /\ DOMAIN BatchRecords = Batch
  /\ NoProfile \notin Candidate /\ NoPersonaBound \notin DomPersona
  /\ {MaxDomVersion, MaxDomClock, MaxDomCalls} \subseteq Nat

DomainInit ==
  /\ domRevoked = {} /\ domClock = 1 /\ domCalls = {}
  /\ personas = [p \in DomPersona |-> [version |-> 0, enabled |-> FALSE, convs |-> {}]]
  /\ bindings = [c \in DomConv |-> [version |-> 0, persona |-> NoPersonaBound]]
  /\ policies = [c \in DomConv |-> [version |-> 0, value |-> CHOOSE v \in PolicyValue : TRUE]]
  /\ cands = [k \in Candidate |-> [state |-> "none", version |-> 0]]
  /\ profiles = [k \in Candidate |-> [state |-> "none", version |-> 0, prev |-> NoProfile]]
  /\ changesets = [g \in Change |-> [state |-> "none", version |-> 0]]
  /\ graphStore = {}
  /\ focus = [f \in Focus |-> [state |-> "none", version |-> 0]]
  /\ notes = [n \in Note |-> 0]
  /\ ledger = {}
  /\ batches = [b \in Batch |-> [state |-> "none", active |-> {}]]

(***************************************************************************)
(* Authorization and calls                                                  *)
(***************************************************************************)
\* validate_sources: every cited message is readable by this actor now.
ValidateSources(s) == s \notin domRevoked

\* view_sources_authorized: the same for a stored record, unless it has expired.
ViewSourcesAuthorized(s, until) == ValidateSources(s) /\ until > domClock

Begin(op, id, expected) ==
  /\ Cardinality(domCalls) < MaxDomCalls
  /\ domCalls' = domCalls \cup {[op |-> op, id |-> id, expected |-> expected]}

Finish(c) == domCalls' = domCalls \ {c}

DropCall(c) ==
  /\ Finish(c)
  /\ UNCHANGED <<domRevoked, domClock, personas, bindings, policies, cands, profiles,
                 changesets, graphStore, focus, notes, ledger, batches>>

personaVars == <<personas, bindings, policies>>
profileVars == <<cands, profiles>>
graphVars   == <<changesets, graphStore>>
ledgerVars  == <<focus, notes, ledger, batches>>
hostVars    == <<domRevoked, domClock>>

(***************************************************************************)
(* Personas and behaviour policies: no source, one transaction              *)
(***************************************************************************)
\* An update is unconditional; an identical one changes nothing.
PutPersona(p, enabled, convs) ==
  LET new == [version |-> personas[p].version + 1, enabled |-> enabled, convs |-> convs] IN
  /\ personas[p].version < MaxDomVersion
  /\ personas[p].version = 0 \/ personas[p].enabled # enabled \/ personas[p].convs # convs
  /\ personas' = [personas EXCEPT ![p] = new]
  /\ UNCHANGED <<bindings, policies, profileVars, graphVars, ledgerVars, hostVars, domCalls>>

\* An empty list of conversations stands for all of them.
PersonaAvailable(p, c) ==
  /\ personas[p].version > 0 /\ personas[p].enabled
  /\ personas[p].convs = {} \/ c \in personas[p].convs

PutPersonaBinding(c, p) ==
  LET expected == bindings[c].version IN
  /\ p # NoPersonaBound => PersonaAvailable(p, c)
  /\ expected < MaxDomVersion
  /\ expected = 0 \/ bindings[c].persona # p
  /\ bindings' = [bindings EXCEPT ![c] = [version |-> expected + 1, persona |-> p]]
  /\ UNCHANGED <<personas, policies, profileVars, graphVars, ledgerVars, hostVars, domCalls>>

PutActiveBehaviorPolicy(c, v) ==
  LET expected == policies[c].version IN
  /\ expected < MaxDomVersion
  /\ expected = 0 \/ policies[c].value # v
  /\ policies' = [policies EXCEPT ![c] = [version |-> expected + 1, value |-> v]]
  /\ UNCHANGED <<personas, bindings, profileVars, graphVars, ledgerVars, hostVars, domCalls>>

PersonaNext ==
  \/ \E p \in DomPersona, enabled \in BOOLEAN, convs \in SUBSET DomConv :
        PutPersona(p, enabled, convs)
  \/ \E c \in DomConv, p \in DomPersona \cup {NoPersonaBound} : PutPersonaBinding(c, p)
  \/ \E c \in DomConv, v \in PolicyValue : PutActiveBehaviorPolicy(c, v)

(***************************************************************************)
(* Profiles                                                                 *)
(***************************************************************************)
BeginCandidate(k) ==
  /\ ValidateSources(CandInfo[k].source)
  /\ Begin("candidate", k, 0)
  /\ UNCHANGED <<personaVars, profileVars, graphVars, ledgerVars, hostVars>>

CreateProfileCandidate(c) ==
  /\ c.op = "candidate" /\ cands[c.id].state = "none"
  /\ cands' = [cands EXCEPT ![c.id] = [state |-> "candidate", version |-> 1]]
  /\ Finish(c)
  /\ UNCHANGED <<profiles, personaVars, graphVars, ledgerVars, hostVars>>

BeginActivate(k) ==
  /\ cands[k].state = "candidate"
  /\ ViewSourcesAuthorized(CandInfo[k].source, CandInfo[k].until)
  /\ Begin("activate", k, cands[k].version)
  /\ UNCHANGED <<personaVars, profileVars, graphVars, ledgerVars, hostVars>>

ActiveInSlot(k) ==
  {p \in Candidate : profiles[p].state = "active" /\ CandInfo[p].slot = CandInfo[k].slot}

\* A plausible slip: the older profile of the slot stays active.
ActivateBeside(c) ==
  /\ c.op = "activate" /\ cands[c.id] = [state |-> "candidate", version |-> c.expected]
  /\ CandInfo[c.id].until > domClock
  /\ profiles' = [profiles EXCEPT ![c.id] = [state |-> "active", version |-> 1, prev |-> NoProfile]]
  /\ cands' = [cands EXCEPT ![c.id] = [state |-> "active", version |-> c.expected + 1]]
  /\ Finish(c)
  /\ UNCHANGED <<personaVars, graphVars, ledgerVars, hostVars>>

\* The slot's active profile is superseded and remembered as the predecessor.
ActivateProfileCandidate(c) ==
  LET previous == IF ActiveInSlot(c.id) = {} THEN NoProfile
                  ELSE CHOOSE p \in ActiveInSlot(c.id) : TRUE
  IN
  /\ c.op = "activate" /\ cands[c.id] = [state |-> "candidate", version |-> c.expected]
  /\ CandInfo[c.id].until > domClock
  /\ profiles' = [p \in Candidate |->
       CASE p = c.id     -> [state |-> "active", version |-> 1, prev |-> previous]
         [] p = previous -> [profiles[p] EXCEPT !.state = "superseded", !.version = @ + 1]
         [] OTHER        -> profiles[p]]
  /\ cands' = [cands EXCEPT ![c.id] = [state |-> "active", version |-> c.expected + 1]]
  /\ Finish(c)
  /\ UNCHANGED <<personaVars, graphVars, ledgerVars, hostVars>>

\* The predecessor must be readable too, or nothing is restored.
BeginRollback(k) ==
  /\ profiles[k].state = "active"
  /\ \A p \in {k, profiles[k].prev} \ {NoProfile} :
        ViewSourcesAuthorized(CandInfo[p].source, CandInfo[p].until)
  /\ Begin("rollback", k, profiles[k].version)
  /\ UNCHANGED <<personaVars, profileVars, graphVars, ledgerVars, hostVars>>

RollbackProfile(c) ==
  LET prev == profiles[c.id].prev IN
  /\ c.op = "rollback"
  /\ profiles[c.id].state = "active" /\ profiles[c.id].version = c.expected
  /\ c.expected < MaxDomVersion
  /\ prev # NoProfile => profiles[prev].version < MaxDomVersion
  /\ profiles' = [p \in Candidate |->
       CASE p = c.id -> [profiles[p] EXCEPT !.state = "rolled_back", !.version = @ + 1]
         [] p = prev /\ profiles[p].state = "superseded" ->
              [profiles[p] EXCEPT !.version = @ + 1,
                 !.state = IF CandInfo[p].until > domClock THEN "active" ELSE "expired"]
         [] OTHER -> profiles[p]]
  /\ cands' = [cands EXCEPT ![c.id] =
       IF @.state = "active" THEN [state |-> "rolled_back", version |-> @.version + 1] ELSE @]
  /\ Finish(c)
  /\ UNCHANGED <<personaVars, graphVars, ledgerVars, hostVars>>

ProfileNext ==
  \/ \E k \in Candidate : BeginCandidate(k) \/ BeginActivate(k) \/ BeginRollback(k)
  \/ \E c \in domCalls :
        CreateProfileCandidate(c) \/ ActivateProfileCandidate(c) \/ RollbackProfile(c)

(***************************************************************************)
(* Graph changesets: proposed here, applied by a provider, then projected   *)
(***************************************************************************)
BeginProposal(g) ==
  /\ ValidateSources(SourceOf[g])
  /\ Begin("propose", g, 0)
  /\ UNCHANGED <<personaVars, profileVars, graphVars, ledgerVars, hostVars>>

UpsertGraphEntities(c) ==
  /\ c.op = "propose" /\ changesets[c.id].state = "none"
  /\ changesets' = [changesets EXCEPT ![c.id] = [state |-> "proposed", version |-> 1]]
  /\ Finish(c)
  /\ UNCHANGED <<graphStore, personaVars, profileVars, ledgerVars, hostVars>>

BeginApply(g) ==
  /\ changesets[g].state = "proposed"
  /\ ValidateSources(SourceOf[g])
  /\ Begin("apply", g, changesets[g].version)
  /\ UNCHANGED <<personaVars, profileVars, graphVars, ledgerVars, hostVars>>

\* A plausible slip: the projection is recorded without waiting for the provider.
ProjectUnapplied(c) ==
  /\ c.op = "apply"
  /\ domCalls' = (domCalls \ {c}) \cup {[c EXCEPT !.op = "project"]}
  /\ UNCHANGED <<changesets, graphStore, personaVars, profileVars, ledgerVars, hostVars>>

\* The provider stores the changeset and its readback matches the proposal.
ProviderApply(c) ==
  /\ c.op = "apply"
  /\ graphStore' = graphStore \cup {c.id}
  /\ domCalls' = (domCalls \ {c}) \cup {[c EXCEPT !.op = "project"]}
  /\ UNCHANGED <<changesets, personaVars, profileVars, ledgerVars, hostVars>>

ApplyGraphChangeset(c) ==
  /\ c.op = "project"
  /\ changesets[c.id] = [state |-> "proposed", version |-> c.expected]
  /\ changesets' = [changesets EXCEPT ![c.id] = [state |-> "projected", version |-> c.expected + 1]]
  /\ Finish(c)
  /\ UNCHANGED <<graphStore, personaVars, profileVars, ledgerVars, hostVars>>

GraphNext ==
  \/ \E g \in Change : BeginProposal(g) \/ BeginApply(g)
  \/ \E c \in domCalls :
        UpsertGraphEntities(c) \/ ProviderApply(c) \/ ApplyGraphChangeset(c)

(***************************************************************************)
(* Focus items, notes, handoffs, review events, imports                     *)
(***************************************************************************)
BeginFocus(f) ==
  /\ ValidateSources(SourceOf[f])
  /\ Begin("focus", f, 0)
  /\ UNCHANGED <<personaVars, profileVars, graphVars, ledgerVars, hostVars>>

CreateFocusItem(c) ==
  /\ c.op = "focus" /\ focus[c.id].state = "none"
  /\ focus' = [focus EXCEPT ![c.id] = [state |-> "open", version |-> 1]]
  /\ Finish(c)
  /\ UNCHANGED <<notes, ledger, batches, personaVars, profileVars, graphVars, hostVars>>

BeginTransition(f) ==
  /\ focus[f].state \in {"open", "waiting"} /\ ValidateSources(SourceOf[f])
  /\ Begin("transition", f, focus[f].version)
  /\ UNCHANGED <<personaVars, profileVars, graphVars, ledgerVars, hostVars>>

TransitionFocusItem(c, target) ==
  /\ c.op = "transition"
  /\ focus[c.id].state \in {"open", "waiting"} /\ focus[c.id].state # target
  /\ focus[c.id].version = c.expected /\ c.expected < MaxDomVersion
  /\ focus' = [focus EXCEPT ![c.id] = [state |-> target, version |-> c.expected + 1]]
  /\ Finish(c)
  /\ UNCHANGED <<notes, ledger, batches, personaVars, profileVars, graphVars, hostVars>>

LatestRevision(t) ==
  LET revisions == {notes[n] : n \in {m \in Note : NoteTitle[m] = t}}
  IN CHOOSE r \in revisions \cup {0} : \A q \in revisions : q <= r

BeginNote(n) ==
  /\ ValidateSources(SourceOf[n])
  /\ Begin("note", n, 0)
  /\ UNCHANGED <<personaVars, profileVars, graphVars, ledgerVars, hostVars>>

CreateResearchNote(c) ==
  /\ c.op = "note" /\ notes[c.id] = 0
  /\ notes' = [notes EXCEPT ![c.id] = LatestRevision(NoteTitle[c.id]) + 1]
  /\ Finish(c)
  /\ UNCHANGED <<focus, ledger, batches, personaVars, profileVars, graphVars, hostVars>>

BeginEntry(x) ==
  /\ ValidateSources(SourceOf[x])
  /\ Begin("entry", x, 0)
  /\ UNCHANGED <<personaVars, profileVars, graphVars, ledgerVars, hostVars>>

CreateHandoff(c) ==
  /\ c.op = "entry" /\ EntryKind[c.id] = "handoff" /\ c.id \notin ledger
  /\ ledger' = ledger \cup {c.id}
  /\ Finish(c)
  /\ UNCHANGED <<focus, notes, batches, personaVars, profileVars, graphVars, hostVars>>

AppendReviewEvent(c) ==
  /\ c.op = "entry" /\ EntryKind[c.id] = "review" /\ c.id \notin ledger
  /\ ledger' = ledger \cup {c.id}
  /\ Finish(c)
  /\ UNCHANGED <<focus, notes, batches, personaVars, profileVars, graphVars, hostVars>>

BeginImport(b) ==
  /\ ValidateSources(SourceOf[b])
  /\ Begin("import", b, 0)
  /\ UNCHANGED <<personaVars, profileVars, graphVars, ledgerVars, hostVars>>

\* _prepare_import: the first record of an id that is safe and has its provenance.
Accepted(b) == {r.id : r \in {x \in BatchRecords[b] : x.safe /\ x.provenanced}}

\* A batch that was rolled back is replayed as it is, never applied again.
ApplyImportBatch(c) ==
  /\ c.op = "import" /\ batches[c.id].state = "none"
  /\ batches' = [batches EXCEPT ![c.id] = [state |-> "applied", active |-> Accepted(c.id)]]
  /\ Finish(c)
  /\ UNCHANGED <<focus, notes, ledger, personaVars, profileVars, graphVars, hostVars>>

RollbackImportBatch(b) ==
  /\ batches[b].state = "applied"
  /\ batches' = [batches EXCEPT ![b] = [state |-> "rolledBack", active |-> {}]]
  /\ UNCHANGED <<focus, notes, ledger, personaVars, profileVars, graphVars, hostVars, domCalls>>

LedgerNext ==
  \/ \E f \in Focus : BeginFocus(f) \/ BeginTransition(f)
  \/ \E n \in Note : BeginNote(n)
  \/ \E x \in Entry : BeginEntry(x)
  \/ \E b \in Batch : BeginImport(b) \/ RollbackImportBatch(b)
  \/ \E c \in domCalls :
        \/ CreateFocusItem(c) \/ CreateResearchNote(c) \/ CreateHandoff(c)
        \/ AppendReviewEvent(c) \/ ApplyImportBatch(c)
        \/ \E t \in {"open", "waiting", "done", "cancelled"} : TransitionFocusItem(c, t)

(***************************************************************************)
(* The memory authority, time, and the specification                        *)
(***************************************************************************)
RevokeDomSource(s) ==
  /\ s \notin domRevoked
  /\ domRevoked' = domRevoked \cup {s}
  /\ UNCHANGED <<domClock, domCalls, personaVars, profileVars, graphVars, ledgerVars>>

DomTick ==
  /\ domClock < MaxDomClock
  /\ domClock' = domClock + 1
  /\ UNCHANGED <<domRevoked, domCalls, personaVars, profileVars, graphVars, ledgerVars>>

DomHostNext ==
  \/ \E s \in DomSource : RevokeDomSource(s)
  \/ DomTick
  \/ \E c \in domCalls : DropCall(c)

DomainNext == PersonaNext \/ ProfileNext \/ GraphNext \/ LedgerNext \/ DomHostNext

DomainSpec == DomainInit /\ [][DomainNext]_domVars

(***************************************************************************)
(* Properties                                                               *)
(***************************************************************************)
\* Every table keeps its declared shape.
DomainTypeOK ==
  /\ domRevoked \subseteq DomSource /\ domClock \in 1 .. MaxDomClock
  /\ domCalls \subseteq DomCall
  /\ cands \in [Candidate -> [state : {"none", "candidate", "active", "rolled_back"},
                              version : DomVersion]]
  /\ profiles \in [Candidate -> [state : ProfileState, version : DomVersion,
                                 prev : Candidate \cup {NoProfile}]]
  /\ focus \in [Focus -> [state : FocusState, version : DomVersion]]

\* However activations and rollbacks of one slot interleave and expire, the
\* slot has at most one active profile; a superseded profile has exactly one
\* successor that was not rolled back, so a rollback restores it at most once;
\* and a candidate is active exactly while its profile is not rolled back
\* (activate_profile_candidate, rollback_profile).
ProfileChain ==
  /\ \A p, q \in Candidate :
        /\ profiles[p].state = "active" /\ profiles[q].state = "active"
        /\ CandInfo[p].slot = CandInfo[q].slot
        => p = q
  /\ \A p \in Candidate : profiles[p].state = "superseded" =>
        Cardinality({q \in Candidate : /\ profiles[q].prev = p
                                       /\ profiles[q].state # "rolled_back"}) = 1
  /\ \A k \in Candidate :
        /\ cands[k].state = "active" <=> profiles[k].state \in {"active", "superseded", "expired"}
        /\ cands[k].state = "rolled_back" <=> profiles[k].state = "rolled_back"

\* A changeset recorded as projected is held by the graph provider, whatever
\* calls were lost, retried or raced between the provider and the store
\* (apply_graph_changeset).
ProjectedIsApplied ==
  \A g \in Change : changesets[g].state = "projected" => g \in graphStore
=============================================================================
