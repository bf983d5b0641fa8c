# RestoLedger in TLA+

RestoLedger is a bookkeeping service for restaurants: a NestJS API over Postgres
(`src/api`), a web client (`src/web`) and a mobile client that works offline
(`src/mobile`). This directory holds a formal model of the parts in which
concurrency, failure and retries decide whether the books are right, the TLC
configurations that check it on small instances, and theorems about it whose
proofs TLAPS checks.

## 1. Inventory

### Components

| component | state | operations | talks to |
|---|---|---|---|
| Ledger service (`api/src/ledger`) | table `ledger_entry` | create, create from an integration, reverse, list | Prisma transaction, audit |
| Audit log (`api/src/audit`) | table `audit_log_entry` | record (inside the caller's transaction), list | called by the ledger |
| Tenant scope (`api/src/prisma`, row-level policies) | one Postgres transaction per call, session variables `app.current_tenant_id`, `app.current_user_id` | withTenant, withUser | every service |
| Tenants and membership guard (`api/src/tenants`, `api/src/common/guards`) | tables `tenant`, `tenant_membership` | createTenant, addMembership, listMyTenants, canActivate | in front of every tenant route |
| Authentication (`api/src/auth`) | table `app_user` with the failure counter and `lockedUntil` | register, login, refresh | issues the tokens the clients hold |
| POS integrations (`api/src/integrations`) | table `integration_connection` | connect, handleWebhook | posts through the ledger service |
| Reporting (`api/src/reporting`, `common/money.ts`) | none | getDashboardSummary | reads `ledger_entry` |
| Mobile offline queue (`mobile/src/lib/offline-queue.ts`) | one AsyncStorage key, flag `syncing` | enqueueEntry, trySync, startAutoSync | API client, NetInfo |
| Mobile session (`mobile/src/lib/api.ts`, `auth-context.tsx`) | access token in memory, refresh token in secure storage, the state of `AuthProvider` | restore, login, register, logout, refreshTenants, the 401 handler | API, secure storage |
| Web session (`web/src/lib`, `web/src/app/(app)/layout.tsx`) | the same, the refresh token in localStorage | the same, createTenant | API |
| Screens (`web/src/app/(app)`, `mobile/src/app/(app)`) | data shown, loading and refusal flags, dialogs | load on selection or focus, refresh, post, reverse | API, session |
| UI components, health check, throttling, CI, backups | display and wiring | | |

### How they interact

A client sends a request with an access token. The guards check the token and the
membership; the service opens an interactive transaction through `withTenant` (the dashboard three at
once) and awaits its statements one by one. Between two awaits the Node event loop runs
other requests, and other API processes may do so at any time: the database
is the only point of coordination, at READ COMMITTED, with a unique index on
`(tenant_id, idempotency_key)`. The mobile client saves an entry to its queue
first; a sync posts the queue in order, with one idempotency key per entry.
The POS webhook posts with the provider's transaction id as the key.

### What is hard, and what makes each component correct

* **Ledger.** Retried and concurrent requests with one key must leave one entry
  and agree on it; an entry and its audit record are two statements that must
  stand or fall together; a reversal is built from a row read earlier; an answer
  must not be given for a row that is then rolled back; nothing committed is ever
  rewritten (ADR-3); a crash can strike between any two statements, and a commit can
  succeed without its acknowledgement.
* **Offline queue.** `enqueueEntry` and `trySync` both read the whole queue, await,
  and write the whole queue. The network fails with requests in flight; the app is
  killed; the token expires. Requests whose sender has given up may arrive much later. An entry must not be lost, must keep its
  place and its key until it is answered, and the `syncing` flag must come back.
* **Authentication.** The failure counter is read before a bcrypt comparison and
  written after it; parallel logins lose updates. An expired lock leaves the counter at its limit.
* **Tenant scope.** Isolation rests on a session variable of a pooled
  connection and on a membership read in a separate transaction. The dashboard holds connections of a small pool while
  it waits for more.
* **Webhook.** A batch is posted item by item; redelivery repeats all of it; credentials
  can be replaced meanwhile.
* **Reporting.** Three periods from three snapshots while midnight passes; calendar boundaries; sign
  of small amounts; lists read page by page while rows are added in the middle.
* **Sessions.** Restore, login, logout and the 401 handler await the network, and on mobile storage, and race each
  other. Memory, storage and screen must end up telling the same story, and an answer must not be
  applied to another person's session.
* **Screens.** A page asks whenever the selection changes and shows whatever answer comes; dialogs can be
  closed, and pages left, with a request in flight.

`PROJECT.json` lists each hazard at its line, with the properties that cover
it or the reason why none does.

## 2. Modules

| module | models |
|---|---|
| `LedgerData` | requests, rows, audit rows; the pure functions `NewRow`, `NegatedRow`, `AuditOf`, `SameKey`, `Truthy` |
| `IdempotentLedger` | the abstract specification: what the ledger promises its clients |
| `Ledger` | `LedgerService` statement by statement over Postgres transactions; its properties, inductive invariant and refinement mapping |
| `LedgerProofs` | theorems about `Ledger`, and that it implements `IdempotentLedger` |
| `OfflineQueue`, `QueueProofs` | `offline-queue.ts` with the network, the session and the operating system around it; theorems about it |
| `AuthLockout`, `AuthProofs` | `AuthService` for one email: registration, login and the lock; theorems about it |
| `TenantScope`, `TenantProofs` | pooled connections, the settings the row-level policies read, the membership guard, tenants and memberships; theorems about them |
| `Webhook`, `WebhookProofs` | the POS integration, composed with `IdempotentLedger`; theorems about it |
| `Session`, `SessionProofs` | `AuthProvider` of the web and of the mobile client as continuations; theorems about it |
| `Screens`, `ScreensProofs` | the pages that show a restaurant's data, and the dialogs of the web ledger; theorems about them |
| `ReportingData`, `Reporting`, `ReportingProofs` | calendar and money as pure operators; the dashboard's three reads and paging over growing books; theorems about both |
| `MCLedger`, `MCOfflineQueue`, `MCAuthLockout`, `MCTenantScope`, `MCWebhook`, `MCSession`, `MCScreens`, `MCReporting` | small instances and symmetry sets |

How they fit together: `Ledger` implements `IdempotentLedger`, and `Webhook` uses the ledger only
through `IdempotentLedger`, whose variables and actions it extends with its own; the offline queue
relies on the same promise in its `Accept`. `TenantScope` justifies `Ledger!Visible`: a statement of a
request sees the rows of its own restaurant. `Session` and `Screens` divide the client: `Session` says whose token is sent and
which restaurant is selected, `Screens` takes one account whose selection changes at will, and says what a page then shows.
`Reporting` reads what `Ledger` commits: a row and its audit record appear together.

### Ledger and the code

A request (`Requests`) is one HTTP call or one webhook item, and stands for the uuid of the row
it inserts: one request inserts at most one. Tables are kept per transaction: `row[r]` and
`trail[r]` are what request `r` wrote to `ledger_entry` and `audit_log_entry`,
and they are part of the tables when `xact[r] = "committed"`. `pc[r]` names the next
statement of its handler.

| action | code |
|---|---|
| `Receive` | controller, guards, `withTenant` opens the transaction |
| `LookupHit`, `LookupMiss` | `findUnique` by tenant and key (ledger.service.ts:49-59), skipped for a falsy key |
| `Insert`, `InsertConflict` | `ledgerEntry.create` (61-73) and the P2002 path (88-107) |
| `FindOriginal`, `RejectReversal`, `InsertReversal` | `reverseEntry` (176-197), 404 and 400 included |
| `Record` | `AuditService.record` |
| `Commit`, `Respond`, `Fail` | `$transaction` resolves, the answer is sent; any further statement of an aborted transaction fails |
| `Abort`, `CommitUnacknowledged`, `Crash` | transaction timeout, lost acknowledgement, process death |

Three facts about Postgres are modelled, not assumed away. An insert whose key
an open transaction holds waits for it (`Blocked`). An insert whose key is
committed fails (`Conflict`). After a failed statement the transaction accepts
only a rollback, so the catch block's query for the winner (96-103) fails:
this is why `InsertConflict` leads to `Fail` and not to a second lookup. Prisma
opens no savepoint around a single query.

An empty `Idempotency-Key` header is falsy in JavaScript (no lookup, no catch) but is
stored, and the unique index counts it: `EmptyKey` keeps the two apart.
Descriptions, dates, currency and JSON states are left out; no property looks at them. A row's
amount is in cents, after `BigInt(Math.round(amount * 100))`.

### OfflineQueue and the code

`storage` is the AsyncStorage value; `saving[e]`, `local[e]` are the progress and the local
`queue` of each `enqueueEntry`; `run[s]` those of each `trySync` in progress (`batch` is
what the `for` loop still iterates over, `queue` the reassigned variable).
Every `await` separates two actions. An entry stands for its idempotency key. The server is the
ledger's promise for keyed requests: an entry is on the books once it has been accepted (`Accept`), and that it is there once
is the ledger's `OneEntryPerKey`.

| action | code |
|---|---|
| `EnqueueRead`, `EnqueueWrite`, `EnqueueReturn` | `enqueueEntry` (41-50) |
| `Trigger`, `Connect` | the entry screen's effect; the NetInfo listener |
| `TrySync` (in `Trigger`, `Connect`, `EnqueueReturn`) | the guard and the flag (61-62) |
| `SyncRead`, `Post`, `Store`, `Finish` | 64-65, 67-73, 74-75 and 79-80, the end of the loop with `finally` |
| `Created`, `Rejected`, `NetworkFailure` | the three outcomes of the request: 201, `ApiError`, `fetch` rejects |
| `Disconnect`, `LateArrival`, `TokenExpires`, `SignIn`, `Restart` | environment |

A request sent before or across a disconnection is `doomed`: `fetch` will reject, at once or
much later, and the server may or may not have it. `stale` is a history
variable: some write replaced a queue its writer had not read. Keys in a queue are distinct, so
`queue.filter` takes out one entry or none (`Without`).

### AuthLockout and the code

One email; `user` is its `app_user` row. `Calls` are requests in progress, each of which may be used
again; `seen[c]` is the row `c` has read.

| action | code (`auth.service.ts`) |
|---|---|
| `Register`, `RegisterCheck`, `RegisterCreate` | `register`: `findUnique`, 409; after `bcrypt.hash`, `create` under the unique index |
| `Login`, `LoginRead` | `login`: `findUnique`; 401 without an account or under a lock |
| `RecordFailure`, `Succeed` | after `bcrypt.compare`: `registerFailedAttempt`; the reset of a non-zero counter and the tokens |
| `Lose`, `Tick` | a query fails or the process dies; time passes |

`lockedUntil` is only compared with the time, so it is kept as the time left. Counts are only compared
with zero and the limit, so they stop at the limit. Writing a row and answering for it
are one step: losing the answer changes the answer only. `failures`, `streak`, `since` and `stale` are history: the
failures ever, those since the last success, the time since the last of them, and whether some login wrote on top of
a count that was no longer the row's. Token signing and refresh keep no state and are left out.

### TenantScope and the code

`creator` and `members` are the committed tables; `setting[c]` holds the two session
variables of connection `c`. `conn[r][k]` is the connection of a transaction of request `r`: its own one (`k = "own"`), or one of the
dashboard's three, of which `waiting[r]` have no connection yet. A setting is `Unset` on a
new connection, `Empty` after the transaction that made it (Postgres leaves an empty string, which does not
cast to uuid), `Nil` for `NIL_UUID`.

| action | code |
|---|---|
| `Receive` | an authenticated request; routes under `tenants/:tenantId` meet the guard |
| `InsertTenant` | `createTenant`: `tenant.create`, a statement of its own |
| `GuardBegin`, `GuardLookup` | `TenantMembershipGuard.canActivate` in its own `withTenant` |
| `HandlerBegin`, `Query` | `withTenant` / `withUser` of the handler; any statement under the policies |
| `InsertMember`, `UnknownUser`, `InsertConflict` | `createTenant`, `addMembership`: membership, 404, P2002 |
| `Commit`, `Fail` | the transaction ends; its connection returns to the pool or is replaced |
| `Dashboard`, `ReadBegin`, `ReadEnd`, `ReadFail`, `ReadsOver` | `getDashboardSummary`: `Promise.all` over three `summarizeSince`, each with a `withTenant` of its own that gets a connection, ends or fails by itself |

The guarded routes differ in the roles they ask for and in their transactions: `addMembership` (owner), `postEntry` (all but
firm_admin) and `manage` (owner, accountant) stand for those with one transaction, `dashboard` is the one with three. When one
of its reads fails, `Promise.all` rejects and the answer is sent, but the other reads go on; here the request lasts until the last of
them has ended. `BEGIN` and the `set_config` calls are one step, as are
the guard's read and commit: nothing else uses the connection between them. `Tenants` bounds the tenants ever created. A
crash of the process is every request failing. `createTenant` commits the
tenant before the transaction that makes its owner: a failure between them leaves a tenant without members. The
model has this state; no property forbids it.

### Webhook and the code

A delivery (`Deliveries`) is one call of the webhook route; its item `i` is the ledger request
`ItemId[<<d, i>>]`. `asked`, `posted`, `outcome` are the ledger's.

| action | code |
|---|---|
| `Connect` | `connect`: the upsert by tenant and provider |
| `Receive`, `Verify` | the controller; the lookup function, then signature check and parsing, which await nothing |
| `Post`, `Return` | `createFromIntegration` is called; it returns or throws |
| `Ledger` | `PostNew`, `Confirm` or `Break` of the ledger's promise |
| `Lose` | the lookup fails, the process dies, the caller is gone |

A provider that redelivers is a second delivery with the same batch. A signature is represented by the secret it was made
with. Transactions are identified by the provider's id, which is the idempotency key; a malformed one
(amount or time that cannot be stored) throws when its turn comes. Members' own requests are not here: they are
in `Ledger`, and their keys are random uuids, which are assumed to be none of the provider's ids
(both share one unique index). `fetchTransactions` returns nothing and nobody calls it, so
the polling that the system design mentions does not exist to be modelled.

### Session and the code

`platform` is the client. `token`, `stored`, `ready`, `authed`, `tenants` and `selected` are the session: the
access token in memory and the refresh token in storage, each as the account it belongs to, and the state of `AuthProvider`.
`flow[f]` is an asynchronous function in progress: its kind, the await it is suspended at, the account its
tokens are for, and the bearer and the answer of its request. What a flow does when its await
resolves, it does to the session it then finds.

| action | code (`auth-context.tsx` unless noted) |
|---|---|
| `Init`, `Reopen`, `Load` | the restore effect; on mobile `getItem` first. A reopened client has lost its memory, and a write to storage in progress has happened or not |
| `LoginPage`, `LoginScreen` (`SignIn`) | submit on the login pages. The web page does not wait until the restore is over, the mobile one does |
| `WebEstablish`; `MobileEstablish`, `MobileSaved` | `establishSession` up to `refreshTenants`; on mobile before and after `setItem` |
| `ServeTenants`, `RefreshTenants` | `GET /tenants/mine` on the server; `refreshTenants` with its answer |
| `Logout` (`WebLogout`, `MobileLogout`), `MobileRemoved` | `logout`; on mobile before and after `removeItem` |
| `WebUnauthorized`, `MobileUnauthorized` | `request` on 401: the handler logs out, nobody awaits it, and the error is thrown; a restore catches it and logs out again |
| `WebRestoreFails`, `MobileRestoreFails`, `RequestFails` | any other failure |
| `SelectTenant`, `CreateTenant`, `ServeCreate`, `Created` | the switcher and `NoTenantState` of the web layout |
| `Call`, `Answered`, `Invited` | any other request, the queue's at start-up too; somebody adds the account to a restaurant |

A form is disabled while its flow runs and enabled again when the flow ends or the form is mounted anew (`EnableForm`).
`mixed` is a history variable: some answer was applied to a session that had not asked for it, replaced another account's
token, or brought an older list over a newer one. The code does nothing to exclude this, so the properties say what holds as
long as it has not happened.

### Screens and the code

One page of one account, with the five pages as values of `page`. `XLoad` and `XAnswer` are what page `X` does to its state
before it asks and with an answer, `XShows` what it renders. `asked` are its requests in flight in the order they were made;
`Receive(i)` for `i > 1` is an answer that overtakes. `form[f]` are the submissions of dialogs in flight: each of the two dialogs
disables its own button while it submits, so a posting and a reversal can be in flight together, and with them what a page left behind.
Owner and accountant may see and do the same on these pages and are one role here.
A submission keeps the restaurant of the click, and its `load` is that of the click too: this is what the closure in `ledger/page.tsx` has captured. Leaving a web page
unmounts it, with its requests; a mobile tab stays mounted, and its late answers still arrive. `excuse` is
history: what has gone wrong since the page last asked.

### Reporting and the code

`ReportingData` has `StartOfUtcDay`, `StartOfUtcWeek`, `StartOfUtcMonth` as in `reporting.service.ts`, over a calendar given by
the days on which months begin and by which days are Mondays, and `CentsToAmount` as sign, units and
two digits. `InPeriod` says what a period means without computing its beginning. In `Reporting`, `row[e]` has the two times by
which the lists are ordered; `dashboard` is a call of `getDashboardSummary`, whose `now` is read once and whose three
`SummarizeSince` are transactions of their own; `pages` is a client that asks for one page after another. `Orders` are the
orders the query may return: by time, latest first, and equal times any way round at each query.

## 3. What is checked

| run | instance | distinct states | shows |
|---|---|---|---|
| `ledger_race` | 3 requests, 1 restaurant, 1 user, 1 key, 1 fault | 592,860 | the inductive `Inv`, `OneEntryPerKey`, `AuditMatchesLedger`, `ReversalCancelsOriginal`, `ReplaysAgree`, `AppendOnly`, and the refinement `KeepsPromise` |
| `ledger_tenants` | 2 requests, 2 restaurants, 2 faults, fairness | 211,089 | `AnswersAreTruthful`: no answer crosses restaurants; `EveryRequestSettles` |
| `queue` | 2 entries, 2 syncs, 1 restart, fairness | 621,012 | `Inv`, `OneSyncAtATime`, `BookedInOrder`, `QueuedUntilAnswered`, `NoOvertaking`, `SyncEnds` |
| `auth_lockout` | 2 calls, 2 passwords, limit 3, lock of 2 ticks, fairness | 47,519 | `Inv`, `TokensToTheOwner`, `LockIsEarned`, `QuietLockout`, `LockoutEnds` |
| `tenants` | 2 requests, 2 tenants, 2 users, 2 connections | 471,878 | `Inv`, `PoliciesIsolate`, `OnlyMembersAct`, `OwnedByCreator`, `PoolDrains` |
| `webhook` | 2 deliveries of 2 overlapping batches with one malformed item, 2 restaurants, 2 secrets, 2 connections | 520,231 | `Inv`, `AcknowledgedIsBooked`, `BookedOnce`, `OnlyVouched` |
| `session` | both clients, 2 accounts (one in a restaurant, one in none yet), 2 restaurants, 2 flows, 1 reopening, fairness | 78,768 | `Inv`, `OnePersonsSession`, `RemembersSession`, `AlwaysASelection`, `NothingSpins` |
| `screens` | all 5 pages and all roles, 2 restaurants, 2 entries, 2 requests and 2 submissions in flight, fairness | 435,166 | `Inv`, `SettledIsScoped`, `SavedIsShown`, `LoadingEnds` |
| `reporting` | 3 entries dated before, in and after, the midnight that begins a week and a month, pages of 1 and 2 rows | 1,275,518 | `FiguresAreExact`, `PagesComplete` |

The runs check the inductive `Inv` of the proofs, of which the type invariant is the first conjunct. `reporting` is the exception:
its inductive invariants, `DashboardInv` and `PagesInv`, one for each reader, are defined in `Reporting` and proved, and the run
checks the two properties only.

Why these sizes suffice. In the ledger, two requests make a race; the third makes the
chains: a replay of a race's loser, a reversal of a reversal, two reversals
of one entry, a conflict met by a request while another waits. A fault changes
one transaction or all of those in flight, and the invariants speak of pairs of
entries. Waiting and crossing restaurants need two requests. In the queue, two entries give
the two writers of every lost update and both orders of posting; two calls of `trySync` are what the flag must
keep apart; one kill strikes at every point of a sync. Two logins lose an update, and a
limit of 3 leaves room for counts below it; more calls only repeat this. Two requests on two connections give every
order in which a connection is handed from one scope to another, two dashboards that share what one of them needs, and an insert
that waits for another with no connection left. Two
deliveries are a redelivery and an overlap, two items a failure in the middle. Two flows are a restore that meets a
login, a login that meets a logout, two refused requests, and a request whose session ends; a reopening
strikes at every await. Two requests of a page overtake each other; two entries are one that is on the books and one
being posted, or an original and its reversal; the run has two submissions in flight from a page and the one before it. A posting
and a reversal in flight together need a third entry. Three entries put two pages of one row
each before the last, with one more row arriving between them. The safety properties of `session` were checked with 3 flows
and those of `queue` and `screens` with 3 entries as well. The theorems remove these bounds from
all the safety properties.

Where a run bounds something unbounded it is a constant: `MaxFaults`, `MaxRestarts`, `MaxReopens`, `MaxAsked` (a page stops asking
while so many requests are in flight), `MaxSeen` (a client stops reading: entries of equal times can come round for
ever), `LastTick`, and the sets `Flows`, `Forms`, `Syncs`, `Calls`, `Deliveries`, `Connections` of things in progress.

Symmetry is used in the runs without liveness properties only: requests in `ledger_race`; every kind of id in `tenants`; tenants,
secrets and connections in `webhook`; entries in `queue_loses_entries`. The ledger's
`Rest` step is the idle service; in the other modules a new request may always come, so deadlock is checked everywhere.

### Where the code does not do what is said of it

Three of them are runs that must find a violation.

| run | said | done |
|---|---|---|
| `ledger_race_loser` | the comment at ledger.service.ts:94, a unit test and an end-to-end test: the loser of the race is given the winner's entry | it is answered 500: the query runs in an aborted transaction. The unit test mocks the database. The entry itself is safe, and a retry finds it |
| `queue_loses_entries` | story 3.3: 'so that I never lose an entry' | a write replaces a queue its writer has not read |
| `screens_scoped` | story 2.4: switching restaurants scopes all views correctly | the late answer for the restaurant left shows its data under the name of the one selected |

The models have others, which are consequences of the same actions and have no run of their own:

* Only a reversal is refused; an original can be reversed repeatedly, although an end-to-end test is named
  'rejects reversing an already-reversed entry' (`ReversalCancelsOriginal` says that each reversal is the exact negative of
  its original, and no more).
* Every error status drops a queued entry, also 401, 429 and 5xx, which a retry could get past. This too is against story 3.3. A
  sync at start-up runs before the session is restored, and gets a 401.
* A reconnect event that finds a sync still waiting for a doomed request is lost; the entry stays queued until the
  next trigger.
* Parallel failed logins each write the count they have read plus one, so the account may take more than
  the five failures that security-restoledger.md:13 allows before it is locked.
* The dashboard and the mobile screens leave the former restaurant's data on screen when the request for the
  selected one fails or is refused; the mobile home screen shows it until the answer comes. The audit page never takes its
  notice of a refusal back on a later answer. A dialog that ends after the selection has changed reloads the restaurant
  of the click.
* A sign-in on the web while a stored session is being restored, or on mobile next to a logout that awaits storage, can mix two
  sessions: `mixed` in `Session`.
* Paging through entries of equal times may repeat rows or skip them.

### Fairness

`Ledger!Fairness` is weak fairness of each request's handler: the event loop runs
continuations and Postgres answers statements. Faults and arrivals are not
fair. A request waiting for a key is not enabled until the holder's transaction ends, so
the property has to come from the holder's own progress.
`OfflineQueue!Fairness` is weak fairness of each sync and each save: AsyncStorage
operations end and `fetch` resolves or rejects. Nothing makes the user save,
the network return or the token valid.

`AuthLockout!Fairness` is weak fairness of the clock and of each request in progress. The clock does not stop, and bcrypt
and Postgres answer. Nobody has to log in; under a lock attempts may come all the time, and `LockoutEnds` says that they
do not prolong it. `TenantScope` and `Webhook` are checked for safety only. `PoolDrains` is the safety form of the
absence of pool deadlock: some requests wait while they hold connections, but whoever holds one can go on and give it back, or
waits for somebody who can. It does not say that each request gets a connection in the end.

`Session!Fairness` is weak fairness of what each flow awaits: a request is answered or fails, storage answers. Nobody has to
submit, click or reopen. `Screens!Fairness` is weak fairness of the page's requests taken together, answered or failed: `fetch`
settles. It says nothing about their order. `Reporting` is checked for safety.

## 4. What is proved

Everything here holds for every value of the constants.

### Ledger (`LedgerProofs`)

Assumptions `NullIsFresh`, `EmptyKeyIsFresh`,
`AmountsAreCents`, `NullIsNoRecord`, `NullIsNoAnswer`, `MaxFaultsIsNat`, which say only that
`Null` and the empty key are distinct from other values, that amounts are integers and
that the fault bound is a natural number.

| theorem | statement |
|---|---|
| `Invariance` | `Spec => []Inv` |
| `TypeCorrect`, `UniqueKeys`, `AuditComplete`, `ReversalsCancel`, `TruthfulAnswers`, `ReplayAgreement` | `Spec => []P` for the six safety properties |
| `NothingIsRewritten` | `Spec => AppendOnly` |
| `Refinement` | `Spec => KeepsPromise` |

None of the properties is inductive. `Inv` adds:

* `HandlerInv`: what a handler at each statement has and has not written, and that only a handler
  past its last statement has committed;
* `RowInv`: a row and its audit record are the functions of the request, and for a reversal
  of the original row, that the code computes;
* `KeyInv`: rows of *open* and committed transactions never share a key. This
  is what waiting in the index buys: committing an open transaction cannot
  create a duplicate. Without the open rows `OneEntryPerKey` is not preserved by `Commit`;
* `ReversalInv`: from the moment a handler has read its original, that
  original stays committed, in the tenant, and not a reversal;
* `AnswerInv`: a found entry is committed and matches the key; a handler that may
  answer has something to answer with; an affirmative answer implies a commit and
  a refusal a rollback.

The refinement maps a committed row and its audit record to one posting. `Commit` of a
handler that inserted maps to `PostNew` or `PostReversal`, `Respond` to `Confirm`,
`RejectReversal` to `Refuse`, `Crash` and `Fail` to `Break`, everything else to a
stutter or `Ask`.

### Authentication (`AuthProofs`)

`Invariance`, `OwnerOnly` (`TokensToTheOwner`), `EarnedLock` (`LockIsEarned`) and `QuietLock` (`QuietLockout`), from
`NullIsFresh`, `NullIsNoAccount`, `MaxFailedIsPositive`, `LockTicksIsPositive`. `CallInv` says that a row a login holds has the
account's password, which never changes once the unique index has let one registration through. `CountInv` bounds every count
by the number of failures, also the counts logins still hold: without the held ones, a stale write
could not be shown to earn its lock.

### Tenant scope (`TenantProofs`)

`Invariance`, `Isolation`, `MembersOnly`, `SingleMembership`, `CreatorOwns`, `NoPoolDeadlock` (`PoolDrains`), from `NullIsFresh`,
`IdsAreNotSettings`, `NullIsNoMembership`, `NullIsNoAsk`. `ScopeInv` ties the settings of a connection in use to
its request; by `HolderInv`, no two transactions have one connection, nobody else changes them. `CallInv` says what a request at each
step holds and waits for: an uncommitted row belongs to a request whose next step is its commit, and a read that has a connection
ends without another one, which is why the pool drains. `RowInv` extends the uniqueness of
memberships to uncommitted rows, as `KeyInv` does for entries. What the guard found stays true because
the service never removes or changes a membership.

### Webhook (`WebhookProofs`)

`Invariance`, `Acknowledged`, `Once`, `Vouched` and `KeepsTheContract`, from the assumptions of the ledger's vocabulary and
`TransactionsAreKeys`, `CentsAreAmounts`, `BatchesAreSequences`, `ItemsAreRequests`, `NullIsNoPlace`,
`NullIsNothingSent`. `DeliveryInv` carries "the items before the current one are booked" through every delivery; `AskInv` says
which item each ledger request stands for, so that the holder of a key can be shown to be the same
transaction; `LedgerInv` restates what the promise gives: distinct keys, and answers the request is entitled to. Since `Refinement` proves
that the service keeps this promise, the two proofs together reach from statements in Postgres to the answer the provider gets.
`KeepsTheContract` (`Spec => AbsSpec`) is the other side of it: with the webhook as its client the ledger takes only steps of
`IdempotentLedger`, since no item asks twice under one id and none asks for what the ledger has no row for.

### Offline queue (`QueueProofs`)

`Invariance`, `SingleSync` (`OneSyncAtATime`), `BooksInOrder` (`BookedInOrder`), `KeptUntilAnswered` (`QueuedUntilAnswered`) and
`InQueueOrder` (`NoOvertaking`), for any number of entries, syncs and restarts. `CopyInv` says that storage and every copy of it
that a save or a sync holds have distinct entries, all of them saved; `OrderInv` that what is ahead of an entry in one copy is ahead of it in every
copy that has the entry, or has been answered: it is what keeps `NoOvertaking` true when a stale write brings old entries back;
`SentInv` that everything unanswered stays behind what has been sent, in every copy, and for as long as the request may still
arrive: `NoOvertaking` is about the moment a sync gets its 201, `BookedInOrder` about the books at any time;
`RunInv` that what a sync has still to post is exactly the queue it holds, so that the entry it stores away is the one that was
answered. That a server
keeps one entry per key is `UniqueKeys` of the ledger.

### Session (`SessionProofs`)

`Invariance`, `OnePerson` (`OnePersonsSession`), `Remembers` (`RemembersSession`) and `Selects` (`AlwaysASelection`), for any accounts,
restaurants and number of flows, from `NullIsFresh`, `NullIsNoFlow`, `SomeFlow`, `MembershipsOfUsers`, `MaxReopensIsNat`.
What memory, storage and screen say agrees only when nothing is under way, so the invariant has to say what is under way when
they differ. `FlowInv` says which awaits a flow of each kind can be at, on which client; `RestoreInv` that there is one restore, that the client is ready
when it has ended and that on mobile nobody signs in before; `SignInInv` that a sign-in on mobile has its screen to itself until it has
saved; `WebInv` and `MobileInv` name the flow that will settle each difference: a token not yet stored has a flow at `setItem`, a
stored token without one in memory has a restore or a flow at `removeItem`.

### Screens (`ScreensProofs`)

`Invariance`, `TypeCorrect`, `ScopedAtRest` (`SettledIsScoped`) and `ShownIfSaved` (`SavedIsShown`), for any restaurants, roles, entries
and number of requests and of submissions in flight, from `NullIsNoTenant` and `MaxAskedIsPositive`. The two properties speak of a page at
rest, and say nothing of how it got there. `LastInv` does: nothing having gone wrong since, the *last* request is for the selected
restaurant and, once served, has every entry the user was told is saved. It holds because a switch, a confirmation and
a return to the page each ask again, and it is why the order of the answers matters: only if they arrive in the order asked is the last one
applied last. `HeldInv` is the same of what the page holds when no request is in flight; `Receive` takes the one to the
other. `WaitInv` says that a page that waits has asked, so that a page that is not waiting and has not been overtaken has been
answered; `BooksInv` that what is shown or on its way is on the books of its restaurant, and refused only to those who may not
see it; `FormInv` that a dialog that has its answer saved what is on the books of the restaurant of the click. `excuse` names what
these statements except: an answer that overtook another, a request whose failure the page does not recover from, and a dialog
confirmed after its page or its restaurant was left, when the load that follows is for the restaurant of the click or is lost.
Each lasts until the page asks again for the selected restaurant.

### Reporting (`ReportingProofs`)

`PeriodsBegin`: comparing with the computed beginning of a period tells whether an instant lies in it, for every instant and any
calendar. `AmountsReadBack`: a printed amount has its sign and its cents. `EachCountsOnce`: the fold that adds up a period counts each
entry once with its own cents, in whatever order it takes them. (An entry and its reversal need not be in one period: a reversal is dated
when it is made.)
`ExactFigures` (`FiguresAreExact`) uses the first two and that such a sum is an integer, with `DashboardInv`.

What a fold computes needs induction over finite sets. The library's induction theorems take an operator, which the provers
cannot instantiate, but `WFMin` does not: a set of finite sets that is not empty has a smallest member (`SmallestSet`), so a
statement that fails for some set of entries fails for a smallest one, and that is refuted. The existence of the
recursive function in the fold is proved the same way.

`CompletePages` (`PagesComplete`) holds for any sizes of pages, both lists, and every order the query may give to rows of equal times. `PagesInv`
says that the rows read so far are booked and in the order of their times, that none with a time of its own is among
them twice, and that each such row that was booked at the beginning either is among them or comes no earlier than the last one read, and
the client is not at the end. An entry posted meanwhile can take a time from another but cannot come to be among the rows
read; a page begins after the last row in the order of *this* query (`PageProperties`), in which every row occurs
once (`OrderProperties`, by counting).

### Only model-checked

The liveness properties `EveryRequestSettles`, `SyncEnds`, `LockoutEnds`, `NothingSpins` and `LoadingEnds`: they need fairness, and the
prover has no `ENABLED`. Every safety invariant and action property of the passing runs is a theorem.

## 5. What is not modelled

* Several browser tabs that share localStorage; storage that rejects instead of answering (a mobile restore whose
  `getItem` rejects leaves the client on its spinner); a refresh token that expires while the client is open, other than as a 401.
* On screens: `NoTenantState` shown while the list of restaurants is loading or has failed; books of more than one page;
  the date and amount fields, the team page and the settings; a reversal whose dialog is opened and submitted are one step.
* A second tap or a second submission after a lost answer, in the mobile entry screen and in the web form, which has no idempotency
  key: the server cannot tell them from another sale, and `Ledger` books an entry for each.
* Query parameters out of range: a negative or non-numeric `take`.
* Encryption of stored credentials, password hashing and token signing: taken as what they are meant to be.
* UI components and themes: display only. Health check, bootstrap, CI, backups: outside the
  program's state. Throttling appears to the queue as status 429.
* Isolation levels other than READ COMMITTED; deletion of users or tenants (the API
  has no such operation); direct writes to the database.

## 6. Plan

Done, in this order: the ledger, its promise and their proofs; the offline queue and its proofs; `AuthLockout`, `TenantScope` and `Webhook` with
proofs; `Session`, `Screens` and `Reporting` with proofs.

What would come next:

1. The form of the web client and the mobile entry screen composed with `IdempotentLedger`: what a user who submits again after a
   lost answer has booked, with and without a key.
2. Two tabs of the web client over one localStorage.
3. `Session` with the queue: whose token posts an entry that was saved under another account.

New runs replace narrower ones: the number of runs stays at what a reader can keep in view.
