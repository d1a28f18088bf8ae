-------------------------- MODULE SourceInventories --------------------------
(***************************************************************************)
(* Inventories of one external source and the Work memory that leans on    *)
(* them (work/store.py: ingest_source_page, upsert_memory_fact and the     *)
(* reads that annotate freshness). A client delivers an inventory page by  *)
(* page; pages are staged, and only the final page of an unbroken chain    *)
(* replaces the facts of the source. Each call is one transaction, so a    *)
(* refused page leaves no trace; several clients may bring inventories of  *)
(* the same source, repeat pages, skip pages or stop half-way.             *)
(***************************************************************************)
EXTENDS Naturals, FiniteSets

CONSTANTS
  Inventory,   \* inventory ids
  NoInventory,
  PageToken,   \* page tokens of the provider
  First,       \* the empty token of a first page
  End,         \* no further page
  FactKey,
  FactValue,
  PageItems,   \* what one page may list: sets of items, a key once or several times
  Shelf        \* the shared memory table and the private one of each actor

Item == FactKey \X FactValue

ASSUME InventoryAssumption ==
  /\ First \notin PageToken /\ End \notin PageToken \cup {First} /\ NoInventory \notin Inventory
  /\ PageItems \subseteq SUBSET Item

Page == [token : PageToken \cup {First}, next : PageToken \cup {End},
         complete : BOOLEAN, successful : BOOLEAN, items : PageItems]

VARIABLES
  inventories, \* work_source_runs: status and expected page token
  accepted,    \* work_source_pages with their content (the table keeps its digest)
  staging,     \* work_source_staging
  sourceFacts, \* work_source_facts: the items, the inventory each was last in, if missing
  source,      \* work_sources: status, and whether the last completion is a day old
  memory,      \* work_memory_facts and work_private_memory_facts
  newest       \* history: the inventory completed last

inventoryVars == <<inventories, accepted, staging, sourceFacts, source, memory, newest>>

NoFact == [known |-> FALSE, items |-> {}, inventory |-> NoInventory, missing |-> FALSE]

InventoryInit ==
  /\ inventories = [i \in Inventory |-> [status |-> "none", expected |-> First]]
  /\ accepted = [i \in Inventory |-> {}]
  /\ staging = [i \in Inventory |-> {}]
  /\ sourceFacts = [k \in FactKey |-> NoFact]
  /\ source = [status |-> "absent", completed |-> FALSE, aged |-> FALSE]
  /\ memory = [s \in Shelf |-> [k \in FactKey |-> "none"]]
  /\ newest = NoInventory

-----------------------------------------------------------------------------
(* A page.                                                                 *)

\* The two refusals of WORK_SOURCE_INVALID_COMPLETION.
WellFormed(p) ==
  /\ p.complete => p.successful /\ p.next = End
  /\ (p.next = End /\ p.successful) => p.complete

\* An inventory that starts needs its first page, and no other one in progress.
MayStart(i, p) ==
  /\ inventories[i].status = "none" /\ p.token = First
  /\ \A j \in Inventory : inventories[j].status # "in_progress"

\* The next page of the accepted chain. A token that was accepted before is a
\* replay or a conflict and changes nothing.
Continues(i, p) ==
  /\ inventories[i].status = "in_progress" /\ p.token = inventories[i].expected
  /\ \A q \in accepted[i] : q.token # p.token

\* A key is not repeated with different data, neither here nor in an earlier page.
OneValueEach(items) == \A x, y \in items : x[1] = y[1] => x = y

KeysOf(items) == {x[1] : x \in items}

\* An unsuccessful page closes the inventory; nothing of it is staged.
FailInventory(i, p) ==
  /\ ~p.successful
  /\ inventories' = [inventories EXCEPT ![i].status = "failed"]
  /\ source' = [source EXCEPT !.status = "failed"]
  /\ UNCHANGED <<staging, sourceFacts, newest>>

\* A page in the middle waits for the next one.
StagePage(i, p) ==
  /\ p.successful /\ ~p.complete /\ OneValueEach(staging[i] \cup p.items)
  /\ staging' = [staging EXCEPT ![i] = @ \cup p.items]
  /\ inventories' = [inventories EXCEPT ![i] = [status |-> "in_progress", expected |-> p.next]]
  /\ source' = [source EXCEPT !.status = "incomplete"]
  /\ UNCHANGED <<sourceFacts, newest>>

\* Mutant: facts the inventory no longer lists are left alone.
ReplacedOnly(i, staged) ==
  [k \in FactKey |->
     IF k \in KeysOf(staged)
     THEN [known |-> TRUE, items |-> {x \in staged : x[1] = k}, inventory |-> i, missing |-> FALSE]
     ELSE sourceFacts[k]]

\* Facts of a complete inventory: staged ones are present, all others missing.
Replaced(i, staged) ==
  [k \in FactKey |->
     IF k \in KeysOf(staged)
     THEN [known |-> TRUE, items |-> {x \in staged : x[1] = k}, inventory |-> i, missing |-> FALSE]
     ELSE [sourceFacts[k] EXCEPT !.missing = sourceFacts[k].known]]

CompleteInventory(i, p) ==
  LET staged == staging[i] \cup p.items IN
  /\ p.complete /\ OneValueEach(staged)
  /\ sourceFacts' = Replaced(i, staged)
  /\ staging' = [staging EXCEPT ![i] = {}]
  /\ inventories' = [inventories EXCEPT ![i] = [status |-> "completed", expected |-> First]]
  /\ source' = [status |-> "fresh", completed |-> TRUE, aged |-> FALSE]
  /\ newest' = i

IngestSourcePage(i, p) ==
  /\ WellFormed(p)
  /\ MayStart(i, p) \/ Continues(i, p)
  /\ accepted' = [accepted EXCEPT ![i] = @ \cup {p}]
  /\ FailInventory(i, p) \/ StagePage(i, p) \/ CompleteInventory(i, p)
  /\ UNCHANGED memory

-----------------------------------------------------------------------------
(* Work memory.                                                            *)

\* A fact is written over whatever its key held, with or without a source.
UpsertMemoryFact(s, k, about) ==
  /\ memory' = [memory EXCEPT ![s][k] = about]
  /\ UNCHANGED <<inventories, accepted, staging, sourceFacts, source, newest>>

\* The explicit freshUntil of a fact passes.
FactExpires(s, k) ==
  /\ memory[s][k] \in {"sourced", "unsourced"}
  /\ memory' = [memory EXCEPT ![s][k] = "expired"]
  /\ UNCHANGED <<inventories, accepted, staging, sourceFacts, source, newest>>

\* A day passes since the last completion.
SourceAges ==
  /\ source.completed /\ ~source.aged
  /\ source' = [source EXCEPT !.aged = TRUE]
  /\ UNCHANGED <<inventories, accepted, staging, sourceFacts, memory, newest>>

\* Mutant: an inventory under way does not make the source stale.
SourceStaleIfFailed == ~source.completed \/ source.aged \/ source.status = "failed"

\* What a read says of a source: it counts as stale while an inventory is open.
SourceStale == ~source.completed \/ source.aged \/ source.status \in {"failed", "incomplete"}

\* A read of a fact, as list_memory_facts and query_memory return it without stale ones.
ReadsAsCurrent(s, k) ==
  \/ memory[s][k] = "unsourced"
  \/ memory[s][k] = "sourced" /\ ~SourceStale /\ ~sourceFacts[k].missing

\* Source facts are searched too, by readers without a private scope.
SearchedAsCurrent(k) == sourceFacts[k].known /\ ~sourceFacts[k].missing /\ ~SourceStale

InventoryNext ==
  \/ \E i \in Inventory, p \in Page : IngestSourcePage(i, p)
  \/ \E s \in Shelf, k \in FactKey :
        \/ \E about \in {"sourced", "unsourced"} : UpsertMemoryFact(s, k, about)
        \/ FactExpires(s, k)
  \/ SourceAges

InventorySpec == InventoryInit /\ [][InventoryNext]_inventoryVars

-----------------------------------------------------------------------------
(* Properties.                                                             *)

ItemsOf(i) == UNION {p.items : p \in accepted[i]}

\* The pages of an inventory lead without a gap from the first page to the last.
Unbroken(i) ==
  /\ \E p \in accepted[i] : p.token = First
  /\ \A p \in accepted[i] : p.complete \/ \E q \in accepted[i] : q.token = p.next

\* The facts a source shows as present are, key by key and value by value, what the
\* pages of the last completed inventory listed, and those pages form one unbroken
\* chain: no page of an open, failed or older inventory shows through
\* (ingest_source_page replaces presence only on final success).
SnapshotIsLastComplete ==
  LET shown == UNION {sourceFacts[k].items : k \in {j \in FactKey : ~sourceFacts[j].missing}} IN
  IF newest = NoInventory THEN shown = {} ELSE shown = ItemsOf(newest) /\ Unbroken(newest)

\* What the memory or the search reports as current rests on a complete snapshot with
\* no inventory under way, and a fact the source once listed is in that snapshot.
CurrentIsBacked ==
  \A k \in FactKey :
    ((\E s \in Shelf : memory[s][k] = "sourced" /\ ReadsAsCurrent(s, k)) \/ SearchedAsCurrent(k)) =>
      /\ \A i \in Inventory : inventories[i].status # "in_progress"
      /\ newest # NoInventory
      /\ sourceFacts[k].known => k \in KeysOf(ItemsOf(newest))
=============================================================================
