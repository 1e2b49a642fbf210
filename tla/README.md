# Formal models of the marketplace backend

TLA+ models of the Go backend (`backend/`), TLC configurations that check them on
small instances, and TLAPS proofs for every value of the constants.  Paths below are
relative to `backend/internal` unless they start with `backend/`, `docs/` or `cmd/`.

## 1. The system

The product imports the data of an Ozon seller account, derives metrics and alerts
from it, and answers questions about it with an LLM.  Two processes share one
PostgreSQL database and one Redis: the HTTP API (`cmd/api`) and the worker
(`cmd/worker`), which runs asynq tasks ten at a time.

| Component | State it keeps | Operations | Correct when |
|---|---|---|---|
| Sync orchestration (`ingestion`) | `sync_jobs` | start a sync: insert, enqueue coordinator | a requested sync is eventually terminal |
| Coordinator (`jobs/ozon_sync_coordinator.go`) | `sync_jobs`, `import_jobs`, tasks | mark running, then per domain: snapshot cursor, insert, enqueue | every row it leaves has a task |
| Import handlers (`jobs/ozon_import_handlers.go`) | `import_jobs`, `sync_cursors`, data | fetching, importing, run, advance cursor, completed / failed | the row tells what happened to the data |
| Finalization (`jobs/sync_job_finalize.go`) | `sync_jobs` | two conditional updates, completion hook | exactly one handler observes completion |
| Recalculation (`jobs/recalculate_after_sync.go`) | metrics, alerts | account metrics, SKU metrics, alerts | runs after each completion |
| Cursors and importers (`syncstate`, `productsync`, `ordersync`, `stocksync`, `adsync`) | `sync_cursors`, data tables | resolve, import a window, advance, reset | no record is skipped |
| Ozon connection (`integrations/ozon`) | `ozon_connections` | create, update, check, performance token | the verdict is about the stored credentials |
| Alerts (`alerts`) | `alerts`, `alert_runs` | run, upsert by fingerprint, resolve, dismiss | one open alert per fingerprint, runs end |
| Recommendations (`recommendations`) | `recommendations`, `recommendation_runs`, diagnostics | generate, upsert, accept, dismiss, resolve | runs end, user decisions survive |
| Chat (`chat`) | sessions, messages, traces, feedback | ask, archive, feedback | a trace ends with its question |
| Auth (`auth`, `cleanup`) | users, sessions | register, login, resolve, logout, expire | a logged-out token opens nothing |
| Admin (`admin`) | `admin_action_logs` | audited actions that call the components above | every action is logged with its outcome |
| Pricing constraints (`pricingconstraints`) | rules, effective constraints | upsert a rule, resolve precedence | one active rule per scope |
| Analytics (`analytics`) | daily metrics | rebuild a window, read | a rebuild is idempotent |

Components interact through the database (a handler reads rows another one writes),
through the queue (API → coordinator → imports → recalculation) and through one
callback, the completion hook `WithSyncJobCompletedHook`.  Only two operations open a
transaction: the registration of a user, and a metric rebuild, which runs read committed.
Everywhere else a handler is a sequence of statements that commit on their own, so every
statement, enqueue and call is a point at which another request, a failure or a crash may
fall.  `PROJECT.json` lists all components, modelled or not, and the hazards found in the
code, each with its line.

Which module models which component:

| Component | Modules | Run | Proofs |
|---|---|---|---|
| Ingestion: orchestration, coordinator, imports, finalization, recalculation | `SyncPipeline`, `SyncLifecycle`, `SyncPipelineInv` | `pipeline`, `refines`, `settles`, `premature`, `hook` | `SyncPipelineProofs` |
| Products importer and cursor | `ProductImport` | `products`, `retries` | `ProductImportProofs` |
| Orders importer and cursor | `OrderWindow`, `MCOrderWindow` | `windows` | `OrderWindowProofs` |
| Alert engine | `Alerts` | `insights` | `InsightsProofs`, `Sums` |
| Recommendations | `Recommendations` (extends `Alerts`) | `insights`, `insights_cites` | `InsightsProofs` |
| Pricing constraints | `PricingRules`, `MCPricing` | `services`, `overrides` | `ServicesProofs` |
| Chat | `Chat` | `services` | `ServicesProofs` |
| Ozon connection and its clients | `OzonConnection` | `services` | `AccountProofs` |
| Auth and sessions | `Sessions` | `services` | `AccountProofs` |
| Listings and details of the API, ingestion status | `AccountRows`, `AdminRepository`, `AdminService`, `AdminHandler`, `SellerReads`, `SellerHandler`, `AccountData` | `services` | `AccountProofs` |
| Audited admin actions | `Admin` | `services` | `AccountProofs` |
| Metric rebuilds, screens | `Analytics`, `MetricReads` | `services` | `MetricsProofs`, `Sums` |
| Alert rules, advertising risk | `AlertRules` | `services` | `MetricsProofs` |

## 2. What is modelled

### SyncPipeline: the ingestion pipeline

One step is one SQL statement or one asynq call.

| State | In the code |
|---|---|
| `syncStatus`, `importStatus` | `sync_jobs.status`, `import_jobs.status`; "none" while the row does not exist |
| `coordPc`, `coordTry`, `coordDomain` | the coordinator task: its next statement, its deliveries, its loop variable |
| `importPc`, `importTry`, `failing` | the import task of each import_job; `failing` are the handlers inside `failImport` |
| `recalcPc`, `recalcTry`, `uniqueLock` | the recalculation task and its `asynq.Unique` lock |
| `derived` | a history variable: the stages rebuilt since the sync_job last completed |
| `faults` | faults injected so far, bounded by `MaxFaults` |

An import_job is the triple (sync_job, attempt of the coordinator, domain): the
coordinator inserts at most one per domain and attempt, and no key forbids a second one
for the same domain.  Names follow the code: `MarkRunning` is `UpdateSyncJobToRunning`,
`TryFinalizeFailed` and `TryFinalizeCompleted` are the two updates of
`runParentSyncJobFinalization`, `EnqueueRecalc` is the hook of `cmd/worker/main.go`.

Errors: any statement of the coordinator or of an import handler may fail
(`CoordinatorFails`, `ImportError`), a worker may die at any point (`ImportCrash`, and
`CoordinatorFails` for the coordinator, which undoes nothing either way), the hook's
enqueue may fail, a recalculation may fail, the unique lock may expire.  `ImportRaises`
is the error path of the four `handle*` functions: `failImport`, which updates the row and
finalizes the parent as well, then the task's error.

asynq is not in the repository.  What is assumed of it: a task is delivered to one worker
at a time, redelivered when its handler returns an error or its worker dies, and archived
after its last attempt; `Unique` takes a lock that is released when the task succeeds or
after the given time; an enqueue whose task id exists is refused with
`ErrTaskIDConflict`, which is not `ErrDuplicateTask`.

### SyncLifecycle: what the pipeline promises

A sync_job without tasks, handlers or retries: it settles only while it has no open
import, as failed only if an import failed and as completed only if none did; each
completion leaves a notice with the import that completed it; a recalculation is requested
only by consuming a notice.  `SyncPipeline!ImplementsLifecycle` is the refinement.

### ProductImport: the products cursor

Zooms into `RunImporter` for the products domain: what one run reads and writes, while
other syncs of the account run the same import, tasks are redelivered, the catalogue grows and
an administrator resets the cursor.  One step is one answer of Ozon, one upsert or one write of
the cursor.

| State | In the code |
|---|---|
| `last`, `stored` | the catalogue at Ozon, `products`; a product is its rank in Ozon's list |
| `cursor` | the `sync_cursors` row (products, last_id); 0 is absent |
| `request`, `pageEnd`, `written`, `pages` | the locals of `productsync.Service.Run`: `requestLastID`, the page and how far it is stored, `pagesFetched` |
| `pc`, `try` | the import task and its deliveries |
| `vouched`, `seen` | history: the greatest value a reset has set; the catalogue as the page saw it |

`FetchPage` to `AdvanceCursor` are one turn of the loop of `Run`; `StopAtMaxPages` is
`ErrMaxPagesPerRun`; an empty page may or may not repeat its `last_id`, so `AdvanceCursor` may
write the cursor or not (`effectiveListLastID`).  Ozon is external: its list is ordered,
new products come last, and a page is short only at the end of the list.

### OrderWindow: the orders cursor

The orders domain differs in every respect that matters: the coordinator freezes the cursor in the
import_job (`source`), the window is `[since, now]` in whole seconds and inclusive, the cursor is
written once, after both lists (`stream` 1 and 2: postings and finance operations) were read,
and it may go backwards, because `completeImport` overwrites it with the end of a window that an
overlapping sync has passed.  `created` and `imported` are the records at Ozon and in the tables; `floor`
is a history variable, the second before which nothing is promised (initial lookback of an
import without cursor, or a value an administrator set).  Ozon is external: a record is
listed from the moment it exists, oldest first.

`ProductImport` and `OrderWindow` abstract the import_jobs row and the parent sync_job, which
`SyncPipeline` models; the three meet in `RunImporter`, which writes none of the state of
`SyncPipeline`.

### Alerts: the alert engine

A run (`alerts.Service.RunForAccountWithType`) evaluates four groups of rules in a fixed order and upserts
each result by its fingerprint.  Runs overlap: the post-sync task, a seller and an administrator
all start them.  One step is one statement, except that the reads of one group are one step.

| State | In the code |
|---|---|
| `alert` | the `alerts` table by fingerprint: status, the evaluation its title and message (`body`) and its `evidence` come from, whether `resolved_at` or `dismissed_at` is set |
| `alertRun` | `alert_runs`: status and the counts of the four groups |
| `engine` | the goroutine of each run: its group (`stage`), whether that group is evaluated (`loaded`), the version of the metrics each group read, how often each result was stored (`done`); `lost` and `overlapped` are history |
| `data` | a version number of the metrics; `Rebuild` replaces them |
| `decision` | history: the body the user saw when he dismissed an alert |

`StartRun` is `CreateRun`, `Evaluate` the reads of `Run<Group>Alerts`, `StoreResult` one turn of its loop,
`NextGroup` its return, `GroupFails` is `failRunAndWrap`, whose own update may fail, `CompleteRun` the last
statement.  `DismissAlert` and `ResolveAlert` are the user's.  Which results fire on which version is a
constant here; `AlertRules` has the rules themselves.

### Recommendations: generations over open alerts

`Recommendations` extends `Alerts`: both work on one alert table.  `ReadOpenAlerts` and `ReadAlertCounts` are the two reads of
`context_builder.go` that can disagree; `JudgeAnswer` is the model's answer, `validator.go` and the rules of
`run_outcome.go`: the valid items are a sequence, which keeps the answer's order and its repetitions.  `SaveItem`,
`ClearLinks` and `LinkAlert` are the three statements that store one item, `ItemLinked` the end of its loop: a request
inserts each id of its own list once (`left`), whatever another generation deletes meanwhile.  The foreign
key of a link names no account, so it takes an alert of this account (`Existing`) or of another one (`OtherAlerts`).
`StoreDiagnostic`, `CompleteGeneration` and `GenerationFails` end the run.  `rec` is the
table with its links, `generation` the `recommendation_runs` row together with the request that executes it.
The model is an input: it may cite alerts that do not exist.  `Decide` is accept, dismiss and resolve.

### PricingRules: rules, precedence, effective constraints

A request writes or deactivates one rule and recomputes the effective constraint of every product:
look up, update or insert, drop a duplicate, clear, then per product resolve and store.  `rules` is the table
in the order of its ids, `effective` the materialised row of each product, `request` the handler of
each request with what it has read.  The terms of a rule are the request that wrote it; `formulas.go`, which
computes prices from them, is left out.  `Resolve` is translated from `resolver.go`; the
properties restate precedence from the scopes of the rules (`Applies`, `Precedence`), independently of the look-ups.

### Chat: one question from its session to its trace

`ResolveSession` to `CloseTrace` are the nine statements and calls of `Ask`; `AskFails` is its error path with
`failTraceBestEffort`, `AskIsLost` a process that dies.  `Registry` is `tool_registry.go` with the arguments, limits and
intents of its thirteen tools; `PlanIsValid` and `ValidatedPlan` are `tool_validator.go`, `Assemble` is
`context_assembler.go` with both of its cuts: `Sanitized` cuts every list to `MaxItemsPerSection` and tells nobody, the cut
to the size in bytes sets `Truncated`.  `ReplyIsValid` and `FinalConfidence` are `answer_validator.go`.  Plans, tool results and
replies are inputs.  `ArchiveSession` and `ArchiveStaleActiveChatSessions` (the daily cleanup) race the questions.

### OzonConnection: checks against changing secrets

`link` is the row of `ozon_connections`, `check` the checks under way: which secret they have read,
which of their calls they are at (`first`: seller info, `second`: roles; a performance token has one
call), which attempt.  `CallAgain` is the retry of `retry.go`: network errors and overloaded answers, three
attempts in all.  `StoreVerdict` writes to the row whatever has become of the secret; the histories
`overtaken` and `tokenOvertaken` mark the verdicts of such checks.  Ozon's opinion of a secret is a constant, its availability
is not.

### Sessions: users, logins and the three middlewares

`Register` (one transaction), `Login`, `Logout`, `Tick`, and `DeleteExpiredSessions`, the cleanup of
`cleanup/sessions.go`.  `Middleware`, `RequireSellerAccount` and `AdminMiddleware` are
what a request passes; `loggedOut` is a history of the tokens that were logged out.

### AccountData: who sees which rows

Five layers, each a module and each written from its layer of the code: `AccountRows` (the statements of `dbgen`),
`AdminRepository` and `AdminService` (`admin`), `AdminHandler` (`handlers/admin.go`), `SellerReads` (repositories and
services behind the seller's pages and the chat's tools, with the ingestion status), `SellerHandler`.
`AccountData` composes them with `Sessions`: `ReadDetail` is one request through the middleware of its route;
`BeginWalk` and `ReadPage` are a client that pages through a listing by the limits and offsets it is told, while `Write`
inserts and changes rows.  A row keeps what a statement can tell apart: table, account, references,
status, one further filter column and the columns it is ordered by.  A link of a recommendation may lead to any alert
(`UpsertARow`), as its foreign key lets it.

### Admin: audited actions

`op` is a request with its row of `admin_action_logs`: `OpenLog`, `Act`, `CompleteLog` or `FailLog`, and
`ReadBack` (the billing state is re-read for the answer).  `Acting` lists, per action, what the called
service can leave behind: everything, a part, or nothing, with or without an error.  Looking at raw AI
payloads is audited the same way.

### Analytics and MetricReads: daily metrics

`sale`, `order` and `stockRows` are the sources, `daily` the two metric tables, `rebuild` the transactions: read the
sources (and, for products, the stock), delete the range, insert.  Read committed: each statement sees what
is committed when it starts, and the deletion hits the rows committed before it.  `MetricReads` is what the dashboard,
the stock, replenishment and critical-SKU screens and the chat's summaries compute from the tables.  A sale is any
operation of Ozon's transaction list, which the importer does not filter: its amount may be negative (a refund), and
it may name no product (product 0), in which case only the account's revenue has it.  Amounts are cents; the dashboard
rounds to them (`math.Round`), the chat's tools by `int64(v*100+0.5)` (`round2`), which goes towards zero.

### AlertRules: thresholds

Every rule of `sales_rules.go`, `stock_rules.go`, `price_rules.go` and `advertising_rules.go`, with its
severity and urgency, and the risk signals of the advertising screen, as functions of the facts of one
product: its stock, demand, price, the latest day with the one before (either row may be missing), its campaign
with spend, revenue, clicks and impressions over two halves of the period.  The actions (`StockSells`, `DemandGrows`,
`RevenueFalls`, `SalesStop`, `AdRevenueFalls`, ... `PriceFalls`) each move one fact in the bad direction.  `StockRanks` are the six ranks
that screens and chat give a product by its stock: depletion risk, stock risk, the chat's stock problem, the stock signal of the
advertising screen, the critical-SKU score and the replenishment priority.

## 3. Runs

| Run | Bounds | Shows |
|---|---|---|
| `pipeline` | 1 sync, 2 domains, 2 attempts, 2 faults of any kind; 1.9 M states | type, no sync forgotten, one completion, sticky terminal status, and the inductive invariant |
| `refines` | 2 syncs, 1 domain, 2 attempts, 1 fault | the lifecycle, with concurrent syncs |
| `settles` | 1 sync, 2 domains, 3 attempts, 2 faults (errors, crashes, failed recalculations, expiry of the lock) | every requested sync becomes terminal, and a completed one is recalculated |
| `premature` | 1 sync, 2 domains, no fault | violated: see below |
| `hook` | 1 sync, 1 domain, 1 hook fault | violated: see below |
| `products` | 2 tasks, up to 4 products in pages of 2, 2 pages per run, 2 attempts, 1 fault, resets to none and to 2 | the cursor hides no missing product; a completed import is complete |
| `retries` | 2 tasks, up to 4 products in pages of 2, 1 page per run, 6 attempts, 1 fault | retries finish what one run may not |
| `windows` | 2 tasks, 2 lists, 3 seconds, lookback 1, 2 attempts, 1 fault, resets; tasks symmetric; 4.9 M states | no record is lost between windows |
| `insights` | 2 alert runs, or 1 run and 1 generation, or 2 generations; 2 fingerprints, one emitted twice; one rebuild; answers of two items, one of them citing an alert of another account; 1.8 M states | alert runs and generations against each other, against failures and against the seller's decisions |
| `insights_cites` | the same room | violated: see below |
| `services` | one part at a time, see below; 1.0 M states | pricing, chat, connection, sessions, account data, admin actions, metrics, alert rules |
| `overrides` | 3 pricing requests, 3 products | violated: see below |

Why these bounds are enough: the handlers of one sync meet in two statements that
quantify over the rows of the parent, so two imports already show every order of their
updates; a second attempt of a task is the first one that finds what an earlier attempt
left behind, and two faults allow a fault during the recovery from another one.  Two
sync_jobs share no row, which the refinement run confirms.  The safety results do not
rest on the bounds at all: section 4 proves them for all values.

For the cursors: a full page, a short page and an empty page all occur with up to four products in
pages of two, two tasks show a cursor that moves backwards, and three seconds
hold two windows that meet in one second plus a record before the lookback.  The six attempts of
`retries` are exactly what is needed: three deliveries read four products when alone, a concurrent
import that moves the cursor back can cost two more, and the fault one.  asynq gives 26.

`insights` has two rows of everything that can collide: two runs show every order of two upserts of one
fingerprint, the result that is emitted twice shows that results and not alerts are counted, one rebuild separates
what two runs have read.  Alert runs and generations meet only in the alerts they write and
read, so the three `Scenarios` share the room instead of multiplying it; `EarlierRun` gives the third its
alerts.  `MaxRecommendations` of two lets an answer repeat an item; alert 98 is another account's, and an alert that
does not exist is one no run has stored yet.  `InsightsBound` lets the seller decide on one open recommendation and only where no alert run
interferes (no alert action reads recommendations), breaks off only the first generation before it saves, and gives the second
one answers of at most one item.

`services` explores eight parts of the server, each with the others at rest (`focus`).  That loses nothing:
`PricingRules`, `Chat`, `OzonConnection`, `Admin`, `Analytics` and `AlertRules` declare disjoint variables, and no action of one
reads a variable of another, as their tables are disjoint in the code.  `AccountData` shares `Sessions`, so the part "data" moves both,
and "sessions" moves the users alone.  The bounds:

* pricing: three products, one without price and one whose product id is another one's sku; nine request
  bodies, three requests of which the first two overlap and the third runs alone (`AtMostTwoOverlap`):
  the properties speak of what a request that ran alone leaves;
* chat (`ChatBound`): two questions, the second one asked after the first and with one tool, two sessions opened in turn;
  plans with one and two calls, a call without its required argument and an unsupported question; replies of high and low confidence;
  tools return up to two rows and a section keeps one of them (`MaxItemsPerSection`, 20 in the code: only that a list may be longer matters);
* Ozon (`OzonBound`): two checks started in turn, secrets with every right, some and none;
* sessions: three users (new, disabled, administrator), two tokens, a lifetime of 2 in 4 ticks;
* data (`DataBound`): two accounts with one to three rows in each of twenty-one tables, pages of one and two rows (20, 50, 100 and
  200 in the code: only their order matters), two writes during a walk (`MayWrite`: the second one after its first page), every route;
* admin (`AdminBound`): two requests of any kind, started in turn;
* metrics (`MetricsBound`): two days, a sale and a refund, one order, a product with one unit, one with four and one
  without any, two rebuilds that overlap, two edits of the sources, so that
  an edit falls between any two statements of a rebuild; a week and the demand window are 1 and 2 days long;
* rules: sweeps from typical facts near every threshold, one fact at a time.

`CHECK_DEADLOCK FALSE` everywhere: when all requested syncs have been handled, the system
waits for a request that may never come.

Fairness (`Fairness`): the HTTP handler that has inserted a row goes on to the enqueue,
and every coordinator, import and recalculation task that can be delivered or can run
its next statement eventually does.  That is the worker's job (`asynq.Server` with ten
goroutines and one queue).  Requests and faults get no fairness.
`ProductImport!FairSpec` assumes the same of its tasks, and no resets, which can start an import
over without end.  `SyncSettles` is checked
with fewer faults than attempts, so that no import is archived, and without coordinator
faults and lost enqueues: those leave a sync open for ever, as `StuckSyncIsExplained`
says.  `CompletedSyncIsRecalculated` holds without faults between the completing update
and the enqueue, an error there (`hook`) or a crash (`crashAtHook`); the run `hook` shows why.  Leaving these two out takes nothing from
`SyncSettles`: they occur when the sync is terminal already.

What the two violated properties show:

* `premature` — the comment over `runParentSyncJobFinalization` says that the parent is
  finalized when every import_job of the sync is terminal.  The coordinator enqueues
  `products` before it inserts `orders`; if the first import is quick, the update sees one
  completed row and completes the parent.  The later rows are then created, imported, and
  possibly fail, under a completed sync_job, and the recalculation has already been
  enqueued (its later enqueues are not attempted).
* `hook` — `WithSyncJobCompletedHook` says that when the hook fails "the import task fails and
  can retry".  It does, but the retry's finalization finds a completed parent, so the hook is
  not called again: metrics and alerts are not rebuilt for that sync.
* `overrides` — `docs/stage-6-pricing-constraints-validation.md` has an override created by sku, product id or
  offer id win for its product.  `PostSKUOverride` stores the offer id as `scope_target_code` next
  to the numeric target; the resolver looks a sku or a product id up with no code, and an offer id
  with no number.  An override sent with both is stored, answered with success, and never applied.
* `insights_cites` — `docs/stage-8-ai-output-validation.md` says that the validator cuts off recommendations with
  alert references that do not exist "before any saving to the database".  `validateOne` looks at the cited ids only if the context
  has alerts; without open alerts such an item is stored, and only then the foreign key refuses its link and fails
  the run.  The recommendation stays.

What the properties of `insights` and `services` say:

| Property | About |
|---|---|
| `CompletedRunStoredAll` | a completed alert run stored and counts every result of its four groups |
| `StuckRunLostItsLastWrite`, `StuckGenerationLostItsLastWrite` | nothing but a lost last write or a dead process leaves a run "running" |
| `OpenAlertIsCoherent` | an open alert and its evidence are of one evaluation; a dismissed one still shows what was dismissed |
| `EvidenceNotOlderThanRun` | a run that overlapped no other never loses to older evidence |
| `RunsKeepDecisions`, `GenerationsKeepDecisions` | no run undoes what the seller decided |
| `LinksTornOnlyMidSave` | a recommendation's links are incomplete only while a generation is between its upsert and its last link, or broke off there, and what is missing is what that one has still to insert; a link to another account's alert comes from a context without alerts |
| `RefusedOnlyWithoutContext` | a cited alert is unknown only when the context had no alerts, the case the validator does not check |
| `CompletedGenerationIsWhole` | a completed generation has stored and linked all its valid items, counts them as often as the answer has them, and is not empty while alerts were open |
| `LastRequestIsInEffect` | after a request that ran alone, every product has the terms of the rule with the highest precedence, whatever earlier overlapping or failed requests left |
| `DuplicatesNeedARace` | two active rules of one scope need two overlapping requests; the next one that runs alone leaves one |
| `EffectiveRuleCovers` | at every moment an effective row names a rule that covers its product |
| `TraceTellsTheOutcome` | the trace, the messages and the outcome of a question agree |
| `ConfidenceIsEarned` | answers cite what their tools returned; confidence needs tools that worked, something they returned, and a context not cut to its size in bytes (cut lists leave no trace, see section 5) |
| `ArchiveIsFinal` | an archived session takes no new question |
| `VerdictIsAboutTheStoredSecret` | the verdict on a secret is one Ozon gave on it, except by an overtaken check |
| `SessionEndIsFinal` | a session that ended stays ended; the cleanup ends none |
| `AnswersStayInTheAccount` | every row of an answer belongs to the account the request is about, alerts shown only because a link names them excepted |
| `WalkMissesNothing` | a client that pages by what it is told receives every row that was there all the time, unless one it has come past left the listing |
| `AuditTellsTheOutcome` | the log of an admin action never says more than happened |
| `MetricsMatchSources` | an undisturbed rebuild equals its sources, the account's revenue is that of its products and of what names none, and the screens agree, a cent in the chat on days below zero excepted |
| `WorseIsNeverCalmer` | no alert, rank by stock or advertising signal gets calmer when one fact gets worse, outside the four exceptions it names |

## 4. Proofs

`SyncPipelineProofs` proves, for every set of sync_jobs, every
number of domains, attempts and faults:

| Theorem | Property |
|---|---|
| `TypeCorrect` | `TypeOK` |
| `InvariantHolds` | `IInv` |
| `NoSyncIsForgotten` | `StuckSyncIsExplained` |
| `OneCompletion` | `CompletionIsUnique` |
| `TerminalIsFinal` | `TerminalStatusIsSticky` |
| `Refinement` | `ImplementsLifecycle` |

The only assumption is `ConstantsAssumption` of `SyncPipeline`: at least one domain and one
attempt, and fault kinds from the known ones.

The argument.  `StuckSyncIsExplained` is not inductive: it says nothing before all handlers
are at rest.  `IInv` (module `SyncPipelineInv`) strengthens it in three layers, proved in this
order.  `Typed` bounds the counters: a delivery increments a counter, so a queued task must
have attempts left.  `Shape` adds which rows and tasks exist (`RowsAreDispatched`: the rows of
the current attempt are those of the iterations that are over; `RowsHaveTasks`: a row without
a task is the one about to be enqueued, unless a coordinator failed) and what a handler past
its last statement has left in its row (`SettledImportIsCompleted`).  `Parent` adds the heart of it,
`OpenSyncIsOwed`: while a dispatched sync is open, some import is not settled.  The only step
that could break it is an import that finalizes unsuccessfully and returns; but its own row is
completed, so the failed update has seen another row that is not, and that import cannot be
settled.  `ImportStepEffect` and `ImportParentEffect` summarise the twelve import actions once, and
the preservation lemmas use the summaries.

The refinement maps the import rows to the sets `open` and `failed` and the handlers at the hook to
`notices`.  `RowMoves`, `SetsApart` and `NoticeConsumed` say what an update of one row or one handler does
to these sets; then each action is matched with one lifecycle step or a stutter.

`ProductImportProofs` and `OrderWindowProofs` prove, for any number of concurrent tasks, any page
size, catalogue, lookback, number of lists, and any values an administrator may set:

| Theorem | Property |
|---|---|
| `ProductInvHolds`, `CursorIsHonest`, `ImportsAreComplete` | `ProductInv`, `CursorHidesNothing`, `CompletedImportIsComplete` |
| `WindowInvHolds`, `NoRecordIsLost`, `ImportsAreRead` | `WindowInv`, `CursorHidesNoRecord`, `CompletedImportIsRead` |

Both arguments are about honesty of a value rather than about its order: the cursor may move in either
direction, so the invariant never compares two cursors.  In `ProductInv` every id a run asks for
is itself honest (`ImportedUpTo(request)`), whether it came from the cursor or from the run's own
previous page; a page extends it product by product (`written`), and only its stored end is written
back.  In `WindowInv` the frozen source cursor is honest and *closed*: no record can still appear before it.
Closedness is what makes a stale source harmless, and it is why the window's end must be the
current second and its start inclusive.  `ReadSoFar` then carries what the delivery has read
through both lists, and `AdvanceInv` joins the records before the window (honest source, or below
`floor`) with those inside it.

Of the alert engine, `InsightsProofs` proves, for any rules, any number of overlapping runs and any decisions of the user:

| Theorem | Property |
|---|---|
| `AlertsAreTyped` | `AlertTypeOK` |
| `CompletedRunsStoreAll` | `CompletedRunStoredAll` |
| `StuckRunsLostTheirLastWrite` | `StuckRunLostItsLastWrite` |
| `AlertsAreCoherent` | `OpenAlertIsCoherent` |
| `EvidenceIsFresh` | `EvidenceNotOlderThanRun` |
| `DecisionsAreKept` | `RunsKeepDecisions` |

from `AlertConstants` (the rules are functions with the ranges the code gives them, over finitely many fingerprints).  `AlertInv` adds to the
properties where an engine is and what it has stored (`RunFollowsEngine`, `ResultsInOrder`: everything of the groups before its
own, nothing of those after), and two facts that make freshness inductive.  `OverlapsAreMarked` says that engines that
run together are both marked, and that what an active engine has loaded is not older than what an unmarked
run that has ended had read; a run ends unmarked only while no other is active, so every later evaluation
reads later metrics.  `EvidenceIsAsNew` then survives each upsert.  The counts are sums over a group's
fingerprints (`CountsAreNatural`, from the set induction in `Sums`).  `StartsEngine` to `EndsEngine` say what a step makes of its engine,
`EngineStep`, `OverlapStep` and `OthersKeep` what it leaves alone; there is one lemma per action.

Of recommendations it proves, for any model, any items it may answer and any number of overlapping generations:

| Theorem | Property |
|---|---|
| `InsightsInvHolds` | the invariant: `AlertInv` and `RecInv` |
| `RecommendationsAreTyped` | `RecTypeOK` |
| `LinksAreWhole` | `LinksTornOnlyMidSave` |
| `ValidatedLinksAreAccepted` | `RefusedOnlyWithoutContext` |
| `CompletedGenerationsAreWhole` | `CompletedGenerationIsWhole` |
| `StuckGenerationsLostTheirLastWrite` | `StuckGenerationLostItsLastWrite` |
| `RecommendationDecisionsAreKept` | `GenerationsKeepDecisions` |

They are theorems of `InsightsSpec`, the composition: an alert engine and a generator take turns on one alert
table, in any order.  The generator's argument rests on the engine's: a link is accepted because the
alert the model was shown still exists, and alerts are never deleted, which is `AlertInv` together with the
alert steps (`Existing` only grows).  `RecInv` follows a generation from stage to stage: `RowFollowsStage`
ties its row to the request that executes it, `ItemsFollowStage` says which items are saved, what is left of the list of the
current one, and that a refused link came from a context without alerts.  What a link table lacks is charged to a generation
that still works on that item, so an insertion by one and a deletion by another keep `LinksTornOnlyMidSave` in any order.
`RecommendationConstants` assumes finitely many fingerprints, that an item cites alert ids and that
an answer may have an item.  In the
run, `EarlierRun` stands for a whole alert run at once; the theorems have the run's steps instead.

`ServicesProofs` proves of pricing, for any catalogue, request bodies, number of requests and stored rules:

| Theorem | Property |
|---|---|
| `PricingInvHolds` | `PricingInv` |
| `RequestsAloneAreInEffect` | `LastRequestIsInEffect` |
| `DuplicatesComeFromRaces` | `DuplicatesNeedARace` |
| `EffectiveRulesCover` | `EffectiveRuleCovers` |

Two arguments meet.  One is about the resolver, for a single state: `HitsApply` (whatever a look-up returns applies to
the product and covers it), `ApplicableRulesAreHit` (whatever applies is returned by one of the five
look-ups) and, from both, `ResolveIsRight` and `ExpectedIsRight`.  They need that the ORDER BY of the statement picks a
row, which `FiniteSetsHaveAFirst` and `RowBeforeOrders` prove.  The other is about interleavings.
`RulesStay` is what every step grants every other one: a rule is never deleted and never changes its
scope, so the rows a request has read and the rule an effective row quotes stay what they were (`FoundRulesStay`,
`RowsQuoteRules`).  Requests that are in progress together are both marked
(`OverlappedRequestsAreMarked`), so an unmarked one sees nobody else's steps, and `AloneIsInEffect` follows it: what it has read is what
is stored, at most the rows still to be deactivated are duplicates, and the products before `at` carry what the
rules of the moment say.  `NoRaceNoDuplicates` is the same without any overlap: the rows a lone
upsert finds contain at most one active rule, and it is the first.  `RequestEnters`, `OneRequestMoves` and
`RecomputationMoves` state once what the ten actions share.  Assumptions (`PricingConstants`, `LegacyRulesAreRules`): every product has
an id (the primary key), a NULL is not a target kind, an operation is one of the five the handlers have, and the rules stored earlier
are rows of the table without duplicates, each category rule naming its category (`PostCategoryRule` in `handlers/pricing_constraints.go` asks for it).

Of the chat it proves, for any plans and replies of the model and any number of questions and sessions:

| Theorem | Property |
|---|---|
| `ChatInvHolds` | `ChatInv` |
| `TracesTellTheOutcome` | `TraceTellsTheOutcome` |
| `ConfidenceIsAlwaysEarned` | `ConfidenceIsEarned` |
| `ArchivingIsFinal` | `ArchiveIsFinal` |

`RowsFollowStage` ties trace and messages to the stage of the handler; that a message is the question or the answer
of one handler (`MessagesAreTheirQuestions`) makes "it was answered" a fact about `ask`.  Confidence is earned step by step:
`ContextTells` says what the assembled context admits about the tools (failed, truncated, no factual
data), `ReplyIsGrounded` that the stored reply cites only what it was shown, and the lemmas about `FinalConfidence` that more than
low confidence needs a context without these limitations.  `ChatConstants` assumes that a reply's confidence is low,
medium or high, the only values `answer_validator.go` accepts.

`AccountProofs` proves four components around the account:

* Ozon connection (`ConnectionInvHolds`, `VerdictsAreHonest`: `VerdictIsAboutTheStoredSecret`), for any secrets, rights and overlapping
  checks; assumption: `NoSecret` is not a secret.  The invariant splits the row in its two halves and adds `CheckIsHonest`: a
  check under way that was not overtaken holds the stored secret, and what it has heard so far is what Ozon says of it.
* Sessions (`SessionInvHolds`, `EndedSessionsStayEnded`: `SessionEndIsFinal`), for any users, tokens and lifetimes; assumption
  `SessionConstants`.  A token is unused or belongs to an existing user, and a logged-out session is revoked; a step then
  changes the answer for one token only, and its own row tells how.
* Admin actions (`AdminInvHolds`, `AuditIsHonest`: `AuditTellsTheOutcome`), for any number of requests, no assumption.  `RowIsHonest`
  says what log, effect and answer can be at each stage of a request.
* Account data, whose rows (`DataInvHolds`, `AnswersAreTheAccounts`: `AnswersStayInTheAccount`), for any rows and any queries to the lists, details
  and chat tools of the API.  A page is made of ranks, so first every ORDER BY over unique keys is a total order and every
  rank is taken (`EveryRankIsTaken`, `PagesHoldListed`, one lemma per order); then each statement's rows are of the account it
  names (`AdminStatementsKeepToTheAccount`, `SellerStatementsKeepToTheAccount`), each route passes the account on
  (`AdminListingsKeepToTheAccount` and its three sisters), and writes keep keys (`WritesKeepRows`).  The one
  statement that names no account, the alerts of a recommendation, joins by id alone: the rows it adds are among those
  that links of the account name (`ShownByLink`), of which the property says nothing.  Assumptions: `PageLimits`, and `DataConstants`:
  primary keys are unique, queries are well-formed, routes about all clients name no account.
* Account data, page by page (`WalkInvHolds`, `WalksMissNothing`: `WalkMissesNothing`), for any rows, limits and number of
  writes between two pages.  The rank of a row is the number of rows before it: a page from offset `n` with `m` rows is
  the ranks `n` to `n + m - 1` of its listing (`PagesAreCutByRank`), and every route answers such a page of one listing with the
  `m` that the client steps by (`AdminPages`, `SellerPages`, `ListingsAnswerByRank`), the billing list above the cap excepted.  A write
  gives a row a later time than any other has, so of two rows it leaves alone the one that was before stays before
  (`RewrittenRowsStayBefore`, `RowsBeforeStayBefore`), and as long as no row before the offset leaves, the rank
  of a row behind it does not fall (`RanksDoNotFall`).  `WalkInv` (module `AccountData`) says it of the client: a row that was
  listed all the time has been received or has a rank from the offset on.  A listing depends on who asks, therefore `HoldersStay`: the
  session of a walk keeps its holder.  `DataConstants` adds that the clock of the writes goes on from the stamps of
  the rows at the start and that a walk begins at offset 0.

`MetricsProofs` proves what is made of the data, `Sums` the lemmas about sums it needs:

| Theorem | Property |
|---|---|
| `MetricsAreTheSources` | `MetricsMatchSources` |
| `RulesNeverCalm` | `WorseIsNeverCalmer` |

The first holds for any sources, amounts, days, imports and overlapping rebuilds, from `AnalyticsConstants` (finite sets,
positive product ids, amounts whole numbers of either sign, stocks natural: `stocksync` clamps them at zero).
`MetricsInv` follows a rebuild statement by statement: what it has read is what the sources say
unless it is `stale`, what its DELETE has found is what its table has in the range unless it is `mixed`; so a commit that
is neither leaves exactly the source rows (`HasSourceRows`), with one lemma per action (`SourcesMakeStale`,
`RebuildsBegin`, `StatementsRead`, `RebuildDeletes`, `CommitKeepsInv`, `RebuildEnds`).  The rest is about one state: the cover's demand,
a sum over days, counts the recent sales (`DemandIsACount`); the account's revenue is the sum over its products
plus what names none (`ProductsAndTheRest`); the chat's `round2` is the identity from zero up and adds a cent
below; the lists of the chat tools begin with a row that none outranks (`RisksComeFirst`, `OutOfStockComesFirst`).
`Sums` proves, by choosing a smallest counterexample among the subsets of a finite set, that a fold
does not depend on its order (`SumSplits`) and adds up over disjoint sets (`SumsAddUp`).

The second holds for any facts, amounts and number of days, from `RuleConstants` (bounds positive, facts whole numbers, counts and
demand natural).  A cover is an integer division, which sinks when the stock sinks or the demand grows (`CoverSinks`); each rule is then
shown to get no calmer under each worsening (`OOSRiskWorsens` and its kin), a low cover gives way only to the out-of-stock
risk, which ranks higher, and alert, replenishment and chat tool classify a stock alike.  The exceptions are part of the
statement (`StopsSelling`, `LosesItsRevenue`, `CalmAtThreeUnits`, `CalmWhenEmpty`); none can be left out, TLC refutes the property
without any one of them.

Every inductive invariant was an invariant of the corresponding run, on its instance, before it was proved.

Only model-checked:

* the three liveness properties: liveness under fairness is out of the prover's reach.

## 5. Observations

What the models showed of the code that no comment or document contradicts:

* An administrator's list of billing states echoes the limit it was asked for (`ListBillingStates` in `handlers/admin.go`) although lower
  layers cap it at 200: a client that pages by the echo skips rows.  `WalkMissesNothing` leaves this case out.
* Pages by offset: a row that leaves a listing moves the later ones up, and the client misses one of them.  The row
  need not be one it has received: it may have slipped in before the offset and left again, which two writes between two
  pages can do.  The proof found this; an earlier form of `WalkMissesNothing` excused received rows only, and one write did not refute it.
* The chat's tools filter after the LIMIT of the statement (`tool_data_repository_sqlc.go`): matching rows may be
  hidden behind rows that do not match.  The date a question is about is 1970-01-01 while there are no metrics.
* An administrator's rerun of a sync may create the `sync_jobs` row and fail to enqueue its task: the log says "failed" though a
  row exists.  When the closing update of an action fails, its log stays "running" although all is done.
* A total stop is calmer than a drop in a few places, which `WorseIsNeverCalmer` names as its exceptions and covers around them.
  `StopsSelling`: a product without a row for the latest day fires no sales alert, and the advertising screen calls its sales weak or
  stable instead of declining.  `LosesItsRevenue`: a campaign that spent less than 10000 and falls to no revenue at all may
  leave the rule for low returns for the calmer one for none (still medium at least), and with less than 1000 for neither.
  `CalmAtThreeUnits`: the critical-SKU score gives a stock of at most 3 units a lower risk than a larger one with a short
  cover.  `CalmWhenEmpty`: replenishment ranks an empty but unimportant product, or a negative stock, below one with a short cover.
  The decline signals of `critical_sku_service.go`, which are relative to the current revenue, are not among the ranks.  The severities below 2 and 3 days of the low-coverage rule are unreachable.
* A rebuild of product metrics over part of the history sees only part of the demand window of its first days, writes today's
  stock into every day of its range, and leaves rows outside the range of its sources as they are.
* `criticalProblemScore` (`tool_data_repository_sqlc.go`) gives a product that is out of stock but earned something that day
  6 points, no more than one with at most 3 units, at most 3 days of cover and no revenue.  Equal scores are ordered by product, so
  the chat may name the latter first.  `MetricsMatchSources` says exactly when; the proof found this, with the run's
  former stock the tie did not occur.
* A refund lowers the revenue of its product and day below zero if nothing else was sold, but counts as an order and
  as demand of the cover: both count rows of `sales`.
* On a day whose refunds outweigh its sales the chat's summary says a cent more than the dashboard: `round2` of
  `tool_data_repository_sqlc.go` adds a half and truncates towards zero.
* The chat's assembler cuts every list to 20 items (`sanitizeContextValue` in `context_assembler.go`) and neither `Truncated` nor a limitation says so:
  an answer of high confidence may come from a part of the rows.
* An answer that repeats a recommendation is counted twice in its run, though one row is stored.  When two generations save one
  recommendation at once, each deletes the other's links: if the later one breaks off, links are missing although the other completed.
* The links of recommendations have no account: an id of another account's alert, cited by an answer to a context without alerts, is
  linked, and the pages that list the alerts of that recommendation join it by id alone (`ListAlertsByRecommendationID`).
* The dashboard counts `ordersToday` as sales rows and the chat's summary as orders; `ordersYesterday` only counts products that
  also have a row today.
* The fingerprint of an advertising alert on low stock has no campaign: two campaigns of one product share an alert.
* A check that was under way while its secret was replaced or cleared stores its verdict with the new
  secret.
* A question and its answer may be added to a session after it was archived, if it was found active before.
* `ptrToNumeric` of `pricingconstraints` scans a float into a numeric; the model takes amounts as opaque.

## 6. Limits of the models

* A statement that was applied but whose answer was lost is not a separate error in the ingestion models: a crash just
  after the statement reaches the same rows, and the same redelivery.  `Admin` has it as an outcome of its own.
* asynq's recoverer may, after a very long stall, deliver a task whose first delivery is still
  running; the model delivers a task to one worker at a time.
* A graceful shutdown requeues a task without counting an attempt; the model counts it.
* In `SyncPipeline` what the importers write is one step, `RunImporter`.
* A row of `products`, `orders` or `sales` either exists or not.  What it holds is not modelled: the
  upserts take the last answer written, so an older answer of a concurrent import can win, and a
  product or order behind the cursor is not read again until the cursor is reset.
* Ozon lists a record as soon as it exists.  If it listed records late, `CursorHidesNoRecord` would not
  hold: the window has no overlap beyond its shared second.
* Texts, prompts, prices and the wording checks of both validators are left out: they can only refuse more.
* The reads of one alert group, of one pricing look-up and of one API request are one step each.  No statement among
  them depends on the result of another in a way the properties could tell.
* Passwords, token hashes and encryption are opaque; a token is never issued twice.

## 7. Not modelled

* Raw payload store: append-only writes to S3 and one table that no other component reads.
* AI client and cost: an HTTP call, and arithmetic on its token counts.
* Account and crypto, infrastructure, dev seed, frontend: no state the others depend on.
* Stock and advertising importers beyond `RunImporter`: a snapshot without cursor, and a window like that of the orders.
* Paging and decoding of the import calls in the Ozon clients; `formulas.go` and the pricing preview; JSON rendering and the
  filters and sorting of the analytics routes; statements and methods that nothing calls (the initial-sync task,
  `GetFeedbackSummary`); `TouchSession`, which only reorders lists.
