---------------------------- MODULE MCConversation ----------------------------
(* One instance of the conversation stores for TLC. The components share no  *)
(* state, so the variable part picks the one that moves: the records and     *)
(* their readers, the index of two records, one group of domain tables, the  *)
(* maintenance jobs, the watches, an import, a subscription.                 *)
EXTENDS ConversationMemory, ConversationDomains, BackgroundJobs, MCConversationMigration,
        BilibiliSubscriptions

VARIABLE part

CONSTANTS a1, a2, d1, g1, x1, x2, x3, k1, k2,                         \* memory
          s1, s2, cA, p1, p2, p3, f1, n1, n2, h1, r1, b1, t1, u1, u2, u3  \* domains

-----------------------------------------------------------------------------
(* Memory: a1 talks in a private chat, a2 in a group. x1 is a private user   *)
(* message, x2 an answer, x3 an answer of the other actor.                   *)
ConvKinds == [c \in Conv |-> IF c = g1 THEN "group" ELSE "direct"]
Said(actor, conv, visibility, role) ==
  [actor |-> actor, conv |-> conv, visibility |-> visibility, persona |-> NoPersona,
   role |-> role, artifacts |-> Artifact]
Kept(actor, conv) ==
  [actor |-> actor, conv |-> conv, visibility |-> "workspace", persona |-> NoPersona]
ReaderIn(actor, conv) == [actor |-> actor, conv |-> conv, persona |-> NoPersona]

SharedMessages ==
  [m \in Msg |-> CASE m = x1 -> Said(a1, d1, "private", "user")
                   [] m = x2 -> Said(a1, d1, "workspace", "assistant")
                   [] OTHER  -> Said(a2, g1, "workspace", "assistant")]
SharedMemories == [k \in Mem |-> IF k = k1 THEN Kept(a1, d1) ELSE Kept(a2, g1)]
SharedReaders  == {ReaderIn(a1, d1), ReaderIn(a2, g1)}
SharedGrants   == {<<x1, g1>>, <<x2, Workspace>>}
Sometimes      == {1, Never}

-----------------------------------------------------------------------------
(* Domains: three candidates compete for the slot of cA; the second expires. *)
Contenders ==
  [k \in Candidate |->
     [slot |-> cA, source |-> IF k = p2 THEN s2 ELSE s1,
      until |-> IF k = p2 THEN 2 ELSE MaxDomClock + 1]]
DomSources == [r \in DomRecord \ Candidate |-> s1]
Titles     == [n \in Note |-> t1]
EntryKinds == [x \in Entry |-> IF x = h1 THEN "handoff" ELSE "review"]
Records    == [b \in Batch |-> {[id |-> u1, safe |-> TRUE, provenanced |-> TRUE],
                                [id |-> u2, safe |-> FALSE, provenanced |-> TRUE],
                                [id |-> u3, safe |-> TRUE, provenanced |-> FALSE]}]

-----------------------------------------------------------------------------
ReadingPart == MemoryNext /\ indexCalls' = {}
IndexPart   == MemoryNext /\ \A m \in Msg \ {x1} : msgs'[m].status = "absent"
DomainPart ==
  \/ part = "personas" /\ PersonaNext
  \/ part = "profiles" /\ (ProfileNext \/ DomHostNext)
  \/ part = "graph" /\ (GraphNext \/ DomHostNext)
  \/ part = "ledger" /\ (LedgerNext \/ DomHostNext)
BackgroundPart ==
  \/ part = "jobs" /\ JobNext
  \/ part = "watches" /\ WatchNext

MCInit ==
  /\ part \in {"reading", "index", "personas", "profiles", "graph", "ledger", "jobs", "watches",
               "import", "subscription"}
  /\ MemoryInit /\ DomainInit /\ BackgroundInit /\ BiliInit /\ MigrationInit
  /\ part # "import" => archive = <<"message", "memory">> /\ allowed = Row

MCNext ==
  /\ UNCHANGED part
  /\ \/ /\ \/ part = "reading" /\ ReadingPart
           \/ part = "index" /\ IndexPart
        /\ UNCHANGED <<domVars, backVars, migVars, biliVars>>
     \/ DomainPart /\ UNCHANGED <<memVars, backVars, migVars, biliVars>>
     \/ BackgroundPart /\ UNCHANGED <<memVars, domVars, migVars, biliVars>>
     \/ /\ part = "import" /\ MigrationNext
        /\ UNCHANGED <<memVars, domVars, backVars, biliVars>>
     \/ /\ part = "subscription" /\ BiliNext
        /\ UNCHANGED <<memVars, domVars, backVars, migVars>>

MCSpec == MCInit /\ [][MCNext]_<<part, memVars, domVars, backVars, migVars, biliVars>>
=============================================================================
