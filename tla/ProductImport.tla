---------------------------- MODULE ProductImport ----------------------------
(***************************************************************************)
(* The import of the product catalogue of one seller account: the import   *)
(* tasks of the products domain page through Ozon's product list, upsert   *)
(* every product of a page and then move the shared row of sync_cursors to *)
(* the last id of the page (productsync/service.go).  Every delivery of a  *)
(* task starts from that row (handleProducts in ozon_import_handlers.go);  *)
(* the tasks of several syncs run concurrently, and an administrator may   *)
(* reset the cursor at any time (admin/actions.go).                        *)
(*                                                                         *)
(* A product is known by its rank in the list, which Ozon orders by id: a  *)
(* new product comes last.  Rank 0 stands for the absent cursor.  What     *)
(* happens to the import_jobs row is in SyncPipeline.                      *)
(***************************************************************************)
EXTENDS Naturals

CONSTANTS
  Tasks,        \* import tasks of the products domain, one per sync
  MaxProduct,   \* bound on the number of products at Ozon
  Limit,        \* defaultPageSize
  MaxPages,     \* maxPagesPerRun
  MaxAttempts,  \* deliveries of one task: asynq's MaxRetry + 1
  MaxFaults,    \* bound on the number of injected faults
  ResetValues   \* the values an administrator may reset the cursor to

ASSUME ConstantsAssumption ==
  /\ MaxProduct \in Nat
  /\ Limit \in Nat \ {0}
  /\ MaxPages \in Nat
  /\ MaxAttempts \in Nat \ {0}
  /\ MaxFaults \in Nat
  /\ ResetValues \subseteq Nat

VARIABLES
  last,         \* the products at Ozon are 1 .. last
  stored,       \* the products that have a row in the products table
  cursor,       \* sync_cursors.cursor_value of (products, last_id)
  vouched,      \* history: the greatest value an administrator has set
  pc,           \* where the import task is
  try,          \* deliveries of the task so far
  request,      \* requestLastID: the id the current page was asked to follow
  pageEnd,      \* the last product of the current page, request if it is empty
  written,      \* the products of the page up to this one are upserted
  pages,        \* pagesFetched
  seen,         \* history: `last' when the current page was fetched
  faults        \* injected faults so far

dataVars == <<last, stored, cursor, vouched>>
runVars  == <<request, pageEnd, written, pages, seen>>
vars == <<dataVars, pc, try, runVars, faults>>

Steps == {"resolve", "fetch", "store", "complete"}
Pcs == Steps \cup {"none", "queued", "done", "archived"}

TypeOK ==
  /\ last \in 0 .. MaxProduct
  /\ stored \subseteq 1 .. last
  /\ cursor \in Nat
  /\ vouched \in Nat
  /\ pc \in [Tasks -> Pcs]
  /\ try \in [Tasks -> 0 .. MaxAttempts]
  /\ request \in [Tasks -> Nat]
  /\ pageEnd \in [Tasks -> Nat]
  /\ written \in [Tasks -> Nat]
  /\ pages \in [Tasks -> 0 .. MaxPages]
  /\ seen \in [Tasks -> 0 .. MaxProduct]
  /\ faults \in 0 .. MaxFaults

Init ==
  /\ last \in 0 .. MaxProduct
  /\ stored = {}
  /\ cursor = 0
  /\ vouched = 0
  /\ pc = [t \in Tasks |-> "none"]
  /\ try = [t \in Tasks |-> 0]
  /\ request = [t \in Tasks |-> 0]
  /\ pageEnd = [t \in Tasks |-> 0]
  /\ written = [t \in Tasks |-> 0]
  /\ pages = [t \in Tasks |-> 0]
  /\ seen = [t \in Tasks |-> 0]
  /\ faults = 0

Goes(t, where) == pc' = [pc EXCEPT ![t] = where]

\* asynq: a task whose delivery failed waits for the next one, or is archived.
AfterFailedDelivery(n) == IF n < MaxAttempts THEN "queued" ELSE "archived"

-----------------------------------------------------------------------------
(* Around the importer.                                                     *)

\* The seller creates a product at Ozon.
CreateProduct ==
  /\ last < MaxProduct
  /\ last' = last + 1
  /\ UNCHANGED <<stored, cursor, vouched, pc, try, runVars, faults>>

\* An administrator overwrites the cursor; an absent value starts over.
ResetCursor(v) ==
  /\ cursor' = v
  /\ vouched' = IF v > vouched THEN v ELSE vouched
  /\ UNCHANGED <<last, stored, pc, try, runVars, faults>>

\* The coordinator of a sync enqueues its products task.
Enqueue(t) ==
  /\ pc[t] = "none"
  /\ Goes(t, "queued")
  /\ UNCHANGED <<dataVars, try, runVars, faults>>

Deliver(t) ==
  /\ pc[t] = "queued"
  /\ Goes(t, "resolve")
  /\ try' = [try EXCEPT ![t] = @ + 1]
  /\ UNCHANGED <<dataVars, runVars, faults>>

-----------------------------------------------------------------------------
(* One delivery.                                                            *)

\* Mutant: the run starts from the cursor its import_job was created with.
ResolveCursorOfImportJob(t) ==
  /\ pc[t] = "resolve"
  /\ request' = [request EXCEPT ![t] = 0]
  /\ pages' = [pages EXCEPT ![t] = 0]
  /\ Goes(t, "fetch")
  /\ UNCHANGED <<dataVars, try, pageEnd, written, seen, faults>>

ResolveCursor(t) ==
  /\ pc[t] = "resolve"
  /\ request' = [request EXCEPT ![t] = cursor]
  /\ pages' = [pages EXCEPT ![t] = 0]
  /\ Goes(t, "fetch")
  /\ UNCHANGED <<dataVars, try, pageEnd, written, seen, faults>>

\* Ozon answers with the next Limit products of the list, or with what is left.
PageAfter(id) ==
  IF id >= last THEN id
  ELSE IF id + Limit <= last THEN id + Limit ELSE last

\* Mutant: nothing counts the pages of a run.
FetchPageUnbounded(t) ==
  /\ pc[t] = "fetch"
  /\ pages' = [pages EXCEPT ![t] = @ + 1]
  /\ pageEnd' = [pageEnd EXCEPT ![t] = PageAfter(request[t])]
  /\ written' = [written EXCEPT ![t] = request[t]]
  /\ seen' = [seen EXCEPT ![t] = last]
  /\ Goes(t, "store")
  /\ UNCHANGED <<dataVars, try, request, faults>>

\* ListProducts, the raw payload and ListProductsInfo: no table a run reads.
FetchPage(t) ==
  /\ pc[t] = "fetch"
  /\ pages[t] < MaxPages
  /\ pages' = [pages EXCEPT ![t] = @ + 1]
  /\ pageEnd' = [pageEnd EXCEPT ![t] = PageAfter(request[t])]
  /\ written' = [written EXCEPT ![t] = request[t]]
  /\ seen' = [seen EXCEPT ![t] = last]
  /\ Goes(t, "store")
  /\ UNCHANGED <<dataVars, try, request, faults>>

\* ErrMaxPagesPerRun: the delivery fails and keeps the cursor of its pages.
StopAtMaxPages(t) ==
  /\ pc[t] = "fetch"
  /\ pages[t] >= MaxPages
  /\ Goes(t, AfterFailedDelivery(try[t]))
  /\ UNCHANGED <<dataVars, try, runVars, faults>>

UpsertProduct(t) ==
  /\ pc[t] = "store"
  /\ written[t] < pageEnd[t]
  /\ stored' = stored \cup {written[t] + 1}
  /\ written' = [written EXCEPT ![t] = @ + 1]
  /\ UNCHANGED <<last, cursor, vouched, pc, try, request, pageEnd, pages, seen, faults>>

\* Mutant: a full page is taken for the last one.
AnotherProductsPageNever(t) == pageEnd[t] > request[t] + Limit

\* anotherProductsPage: the page was full and moved the cursor.
AnotherProductsPage(t) == pageEnd[t] = request[t] + Limit

\* Mutant: the cursor moves before the products of the page are stored.
AdvanceCursorEarly(t) ==
  /\ pc[t] = "store"
  /\ cursor' = pageEnd[t]
  /\ \/ /\ AnotherProductsPage(t)
        /\ request' = [request EXCEPT ![t] = pageEnd[t]]
        /\ Goes(t, "fetch")
     \/ /\ ~ AnotherProductsPage(t)
        /\ Goes(t, "complete")
        /\ UNCHANGED request
  /\ UNCHANGED <<last, stored, vouched, try, pageEnd, written, pages, seen, faults>>

\* After the last product of the page.  For an empty page Ozon may repeat the
\* id it was asked for or give none, and then the cursor is not written.
AdvanceCursor(t) ==
  /\ pc[t] = "store"
  /\ written[t] >= pageEnd[t]
  /\ \/ cursor' = pageEnd[t]
     \/ pageEnd[t] = request[t] /\ UNCHANGED cursor
  /\ \/ /\ AnotherProductsPage(t)
        /\ request' = [request EXCEPT ![t] = pageEnd[t]]
        /\ Goes(t, "fetch")
     \/ /\ ~ AnotherProductsPage(t)
        /\ Goes(t, "complete")
        /\ UNCHANGED request
  /\ UNCHANGED <<last, stored, vouched, try, pageEnd, written, pages, seen, faults>>

\* completeImport: NextCursorValue is empty, the cursor stays where it is.
CompleteImport(t) ==
  /\ pc[t] = "complete"
  /\ Goes(t, "done")
  /\ UNCHANGED <<dataVars, try, runVars, faults>>

\* A call or a statement fails, or the worker dies: what is written stays.
ImportFails(t) ==
  /\ pc[t] \in Steps
  /\ faults < MaxFaults
  /\ faults' = faults + 1
  /\ Goes(t, AfterFailedDelivery(try[t]))
  /\ UNCHANGED <<dataVars, try, runVars>>

-----------------------------------------------------------------------------
HandlerStep(t) ==
  \/ Deliver(t)
  \/ ResolveCursor(t)
  \/ FetchPage(t)
  \/ StopAtMaxPages(t)
  \/ UpsertProduct(t)
  \/ AdvanceCursor(t)
  \/ CompleteImport(t)

Next ==
  \/ CreateProduct
  \/ \E v \in ResetValues : ResetCursor(v)
  \/ \E t \in Tasks : Enqueue(t) \/ HandlerStep(t) \/ ImportFails(t)

Spec == Init /\ [][Next]_vars

\* The asynq server delivers what is queued and a handler keeps running.
FairSpec == Spec /\ \A t \in Tasks : WF_vars(HandlerStep(t))

-----------------------------------------------------------------------------
(* Properties.                                                              *)

\* Every product up to this one has a row, but for those an administrator
\* declared done by setting the cursor beyond them.
ImportedUpTo(n) == \A p \in 1 .. n : p > vouched => p \in stored

\* No sync, retry, crash, concurrent import or reset ever leaves the cursor
\* beyond a product that was not imported: what the cursor hides from later
\* syncs is in the products table.
CursorHidesNothing == ImportedUpTo(cursor)

\* An import that ends by itself (anotherProductsPage says no) has brought
\* the table up to the end of the catalogue as its last page saw it.
CompletedImportIsComplete ==
  \A t \in Tasks : pc[t] \in {"complete", "done"} => ImportedUpTo(seen[t])

\* A run has imported everything before the page it asks for, and the page it
\* is storing up to the last product it wrote.
RunInv(t) ==
  /\ pc[t] \in {"none", "queued"} => try[t] < MaxAttempts
  /\ pc[t] \in {"fetch", "store"} => ImportedUpTo(request[t])
  /\ pc[t] = "store" =>
       /\ request[t] <= written[t]
       /\ written[t] <= pageEnd[t]
       /\ ImportedUpTo(written[t])
       /\ pageEnd[t] <= request[t] + Limit
       /\ pageEnd[t] = request[t] \/ pageEnd[t] <= last
       /\ pageEnd[t] < request[t] + Limit => seen[t] <= pageEnd[t]
  /\ pc[t] \in {"complete", "done"} => ImportedUpTo(seen[t])

\* The inductive invariant: what each run relies on while others move the
\* cursor it started from.
ProductInv ==
  /\ TypeOK
  /\ CursorHidesNothing
  /\ \A t \in Tasks : RunInv(t)

\* "so retries resume correctly" (handleProducts): a catalogue that is too
\* large for one run is imported by its retries, each of which continues
\* where the one before stopped.
ImportCompletes == \A t \in Tasks : pc[t] = "queued" ~> pc[t] = "done"
=============================================================================
