# Payment wallet: specification, model checking and proofs

The payment wallet is a NestJS service that keeps, for every retailer and
currency, a wallet as a ledger of rows in one MySQL table
(`wallet_transaction_entity`). Other services charge and recharge wallets;
consumer applications read balances and lists. This directory specifies its
behaviour in TLA+, checks it on small instances with TLC and proves the main
results for all instances with TLAPS. Paths below are relative to the
repository.

## 1. Inventory

| Part | State it keeps | Operations | Interacts with |
|---|---|---|---|
| `WalletService`: charge, recharge (`src/wallet/services/wallet.service.ts:22-64`) | the local variables of each running handler | `chargeWallet`, `rechargeWallet` | ledger table through `DbWrapperService`, one query per `await` |
| `WalletService`: reports (`wallet.service.ts:66-191`) | none | `fetchBalance`, `fetchDatewiseTransactions`, `getWallets`, `getWalletTransactions` | ledger table; `getWallets` also the auth library and the user service |
| `DbWrapperService` and the ledger (`db-wrapper.service.ts`, the entity, the migrations) | the rows; the unique index on `idempotency_key` | insert in a transaction, find by key, sum of a wallet, two paged listings | MySQL |
| Money (`money.dto.ts`, `app.constants.ts`) | an amount and a currency | conversion to and from the lowest denomination, comparisons, arithmetic | validation pipe, JSON |
| User service client (`api-wrapper.service.ts`, `retry.util.ts`) | one subscription per call: attempt count, timeout, backoff timer | `fetchRetailersDetails`, `fetchRetailerByPhone`, `genericRetryStrategy` | the user service over HTTP |
| Authentication (`auth/`, `core/guards`) | none | strategies, guards, service tokens | the auth library |
| Request pipeline (`main.ts`, `core/filters`, `core/interceptors`, `core/middleware`, the DTOs, health) | the request, its Sentry transaction, its lines in the log | request id, validation, interceptors, response envelope, error envelope, capture of exceptions | every handler; Sentry and the log |
| Rollout (`package.json` scripts, `database/migrations`, `pm2.config.js`, `main.ts`) | the schema, the migrations table, the restarts pm2 counts | `migration:run`, start under pm2, bootstrap | one database for all pods; Kubernetes |
| Http cache interceptor | Redis, were it registered | none runs: no module registers it | |
| Slack, gRPC, configuration, log format, Swagger | none | output and wiring only | |

What is hard here:

* Every `await` of `chargeWallet` lets other requests run, on the same pod or on
  another one. The balance is read in one transaction and the row inserted in
  another, with no lock between them.
* Only the unique index decides between two calls with the same key; an insert
  waits for the transaction that holds the key, and that transaction may belong
  to a pod that is gone.
* A client that gets no answer repeats the call. The first one may have
  committed, may still commit, or may have been rolled back.
* Pages of a listing are separate queries on a table that grows meanwhile, and
  the rows of a page and their total are two queries as well.
* Transactions by date are cut off at a limit and grouped with an `await` for each
  row; nothing in the answer says what was left out.
* Calls to the user service time out, fail with or without a response, and are
  retried after a growing delay.
* An error may leave a request at any stage, past some of the interceptors and
  not others; whether it reaches Sentry and the log depends on which.
* The pods of a release migrate one database with no lock between them. MySQL
  commits `CREATE TABLE` by itself, so a pod may die between the table and its
  record. pm2 gives up on a program after five restarts in a row.

What makes each part correct: a key moves money at most once; what a client was
told stays true of the table; a wallet is overdrawn by no more than what races
can explain; every call ends; a listing read page by page leaves no row out, and a
statement by date only the oldest ones; a call of the user service makes a bounded
number of requests, one at a time, and ends in a bounded time; an operator sees
every failure once; no program serves on a table that lacks a migration.

## 2. Plan

The order is that of what would hurt most: first the movement of money, then
what readers of the table see, then the calls and the pipeline around both.

| # | Modules | Composes | State |
|---|---|---|---|
| 1 | `IdempotentLedger`: what charge and recharge promise, with no database in sight | | done |
| 2 | `WalletService`: charge and recharge on several pods, the ledger table with its unique index, crashes and errors | implements `IdempotentLedger` | done, proved |
| 3 | `TransactionPaging`: `walletTransactions` page by page while rows commit | the table of 2, reduced to its rows | done, proved |
| 4 | `UserServiceCall`: timeout, retries and delays of a call of the user service | | done, safety proved |
| 5 | `RequestPipeline`: strategies, validation, interceptors, handler, filter, Sentry and log | the ends of the handlers of 2 | done, safety proved |
| 6 | `MoneyDto`: amounts from a request to the column and back | the balance check of 2, sequentially | done, proved |
| 7 | `WalletsReport`: `walletUsers` page by page | the statement over the table, the user service by its answers | done, proved |
| 8 | `DatewiseTransactions`: `GET /transactions`, the newest 1000 rows grouped by day | 3, by `EXTENDS` | done, proved |
| 9 | `Rollout`: migrations, bootstrap and restarts of several pods | | done, safety proved |
| 10 | `PagedListing`: what a client that reads a list page by page may rely on | implemented by 3, 8 and 7 | done, proved |
| 11 | `WalletAmounts`: charge and recharge with the amounts of 6, so that rounding and races meet | 2 by `EXTENDS`, 6 for each wallet; implements 2 and, in a wallet whose charges do not race, 6 | done, safety proved |
| 12 | `SchemaHistory`: what a database that is migrated may rely on | implemented by 9 | done, proved |

## 3. Modules and the code

A name of a module is the name in the code where TLA+ allows it. Definitions
whose comment begins with *Variant* are no part of a specification: each is its
neighbour with a plausible mistake in it (a guard dropped, a `return` missing, an
offset off by one), kept to show that a property notices the mistake.

### `WalletService` and `IdempotentLedger`

One *attempt* is one HTTP call of `/charge` or `/recharge`; a retry is another
attempt with the same key. `pc` says which `await` of the handler the attempt is
at; between two of them anything else may happen.

| Action | Code |
|---|---|
| `Arrive` | the controller calls `chargeWallet` or `rechargeWallet` |
| `RejectCharge`, `ApproveCharge` | `fetchBalance` and `money.greaterThan(balance)` (`wallet.service.ts:27-28`) |
| `FindByIdempKey` | the lookup; a recharge returns the row, a charge only reads `walletTransaction.id` and goes on (`wallet.service.ts:29-30`, `50-51`) |
| `Insert`, `DuplicateKey`, `FindOne`, `Commit` | the statements of `createWalletTransaction` (`db-wrapper.service.ts:18-24`) and the unique index on the key |
| `Respond` | the id is returned |
| `DbError`, `Crash`, `Rollback`, `OrphanCommit` | a query fails; a pod dies; MySQL rolls back what was left or had executed the `COMMIT` nobody heard of |

A row is named by the attempt that inserted it. The balance is the sum over the
rows, as in the SQL. A wallet is a retailer and a currency. The amount of a
request is that of its row, a whole number of the lowest denomination, while the
code compares the amount before it is rounded. For that reason `RejectCharge` and
`ApproveCharge` are both possible when the amount equals the balance: 2.01 paisas are
more than a balance of 2, and would become a row of 2. Which of the two it is,
`WalletAmounts` says.
`IdempotentLedger` keeps, for every key, the one entry it may have, and lets
answers be given only as far as they are true of it. The refinement maps the
entry of a key to its committed row.

### `WalletAmounts`

`WalletService` with one variable more, the `amount` of each call as validated. A
client sends one of `Bodies`; `ArriveWith` takes what `toFixed` may make of its value
and asks `WalletService` for the row as the column will keep it (`Recorded`).
`RejectAmount` and `ApproveAmount` are `money.greaterThan(balance)` with the decimals in
it; every other step is that of `WalletService`. `Money(w)` is `MoneyDto` of one wallet:
its balance is the sum over the rows, what was asked is the same sum over the
amounts before they were stored. `WalletServiceSpec` says that the whole implements
`WalletService`; `MoneyOfEachWallet` that each wallet implements `MoneyDto` unless two
of its charges are past the comparison with its balance at once (`Racing`). The code
does nothing against that race, so it is an alternative and not an assumption.

### `PagedListing`

The promise of both paged routes, without offsets, totals or queries: a page holds
nothing that is not in the list; while the list has not grown, nothing is given
twice; and with the last page everything has been given that was there at the
beginning. Entries whose place in the list is not determined are excepted: rows of
one `created_at` in `TransactionPaging`, all wallets in `WalletsReport` when groups
come in no order. An entry may become such a one, never stop being one.

### `TransactionPaging`

A client asks for pages 1, 2, ... until the `totalPages` it was last told; that
client is not in the repository. `findAndCount` of TypeORM reads the rows and
then counts them, in two queries and no transaction: `Find`, `Count`. `created_at`
is set by the `INSERT`, so rows commit in another order than they are listed in,
and rows of one `created_at` come in any order. Time is the clock of the database.

### `DatewiseTransactions`

`fetchDatewiseTransactions` (`wallet.service.ts:76-105`) on the same table; a client
(`reader`) reads either pages or days. The one `findAndCount` is `FindByDate`, at
most `Limit` of the newest rows, and `CountByDate`, whose number nobody uses. The
loop that fills the `Map` awaits the translation of each row's type, so each of
its rounds is an action, `Group`, and rows commit between them. `Map.set` of a new
key appends an entry, of an old one keeps its place: `Set`. `FailByDate` is a
query that fails or a pod that dies; nothing is kept of the answer then.

### `WalletsReport`

`getWallets` is `GenerateServiceToken`, then `FetchRetailerByPhone` and
`FetchWalletsOfPhone`, or `FetchWalletsOfAll` and `FetchRetailersDetails`.
The one SQL statement of `fetchWallets` is `FetchWallets`: the groups, a page of
them, the balances and the total, all of one snapshot. The statement has no
`ORDER BY`. `docker-compose.override.yml:28` runs MySQL 5.7, which lists groups in
the order of the grouped columns; later versions promise no order.
`groupsAreSorted` tells the two apart and never changes. A phone number leads to at most one
retailer.

`getCurrencyAndRetailerChecks` (`check.util.ts:4-14`) puts the retailer's id into the
statement without quotes, and nothing but `@IsOptional` is said of it
(`fetch-wallets.dto.ts:7-9`). MySQL then compares the texts of a column with a number:
`Matches` gives, for each id, the retailers that the comparison holds of, so that 7 and
07 stand for both retailers, and `Refused` the ids with which the statement is refused,
as it is for a word (no column has its name). What was asked for is what `Matches` says,
for an id in the filter and for the one a phone number leads to; of the latter the model
assumes that it is a number no other user has (`OwnersAreThemselves`). An id that is no
literal (an expression) makes another statement and is not modelled. The currency is an
`@IsEnum` and is quoted, but `@IsOptional` lets `null` pass, which becomes the text
`'null'`: `Null`, a currency of no wallet.

### `UserServiceCall`

One subscription of `fetchRetailersDetails` or `fetchRetailerByPhone`: an attempt
that succeeds, is refused, loses its connection or runs into the timeout, and
`genericRetryStrategy` (`retry.util.ts`) in `HandleFailure`. The delay function
reads `err.response.status`; on a failure without a response that throws, and
what it throws ends the call. The clock counts seconds.

### `MoneyDto`

The amounts of one wallet under calls that follow one another. All numbers are
integers in ten-thousandths of the lowest denomination (the finest amount
`toFixed` keeps, in SAR). `Amounts` is `toFixed` applied to a product in binary
floating point: at a half it may go either way. `Stored` is the rounding of the
`bigint` column, `Shown` is `getAmountInDouble`.

### `RequestPipeline`

One request of any route, with any kind of token, header and body. Each stage is
an action: the middleware, the body parser, the global guards, the strategies in turn, the
interceptors, the parameters under the validation pipe, the handler by the ways
it can end, the way back or the filter. Parameters are resolved in parallel, so
any of their refusals may come first.

`LoggingInterceptor` (`core.module.ts:37`) encloses `ResponseInterceptor`
(`main.ts:52`), which encloses `SentryInterceptor`, which encloses the parameters and
the handler. Hence what is thrown inside them (`ThrowInside`) passes `CatchError`, which
captures it and ends the request's `transaction`, and what the body parser and the
guards throw (`Throw`) goes to the filter alone and is in no capture. `captured` counts
the captures, `logged` is the list of the request's log lines: one for the request, and
a status for the response.

Nest's body parser is left on (`main.ts:21`) and runs after the request id is set and
before the route. Of a body that is no JSON, Nest makes a 400; what else the parser throws
(of a body that is too large) is no `HttpException`, and is answered with a 500 that
Sentry does not see, since the transaction does not exist yet. So
`ServerErrorsAreReported` speaks of the requests that have one.

`@ValidateNested` takes a list element by element, so that `money: []` and
`pagination: []` pass the validation with nothing in them to check, and `money: [{..}]`
with its elements checked (`EmptyList`, `list`). The handler then finds no amount and no
page size. No row is made: `money.greaterThan` is not there in `chargeWallet`, and the
row that `rechargeWallet` inserts has no amount, which MySQL's strict mode refuses in a
column that is `NOT NULL` and has no default (`NoAmount`).
`NothingUnchecked` says of objects that they were checked, and that no row is made
without one. The log leaves out every request whose url holds the text "health"
(`log.util.ts:14`), which a client may put into any url: `health` of a request. The
fields that may be missing (`transactionType`, `currency`, and the fields of `filter`)
are one flag, `optionals`: whether those that are there are well-formed.
`CurrencyCodeEnum[currency]` (`wallet.controller.ts:52`) is also there for the names that
every object has (`Inherited`).

### `Rollout`

A pod goes through `stage`: `migration:run` (`LoadExecutedMigrations`, then each
pending migration and its record), `pm2-runtime`, the steps of `bootstrap`, and
serving. `pending` is read once, so it may be stale while other pods migrate.
`CreateTable` fails on a table that exists (`TableExists`), the `ALTER TABLE` of the
second migration may be repeated. The executor of migrations is TypeORM's: it is
modelled by what the scripts use of it. It opens a transaction, but MySQL commits DDL
statements by themselves, so the statement and its record are two steps, and a
pod that dies between the two is noted in `torn`. `ProgramExits` is pm2's restart
with its limit, `PodDies` any end of the whole pod.

`SchemaHistory` is the promise to whoever queries the database: migrations are
applied in order, each when those before it are on record, records are made of
nothing but what has been applied, and neither is undone. It knows of no pods;
that several of them act as one is what the refinement says.

## 4. What the runs show

| Run | Shows |
|---|---|
| `wallet_safety` | Four calls that share keys, on two pods, with crashes and errors: `AtMostOnce`; `AnswersMatchLedger`, what a client was told is true and stays true; `OverdraftBound`, charges racing on one balance overdraw it by at most the amounts of all but one of the calls in flight; `LedgerSpec`, the handlers implement `IdempotentLedger` |
| `wallet_disciplined` | amounts with decimals that round up and down, and a key stands for one request: the calls are still calls of `WalletService` (`WalletServiceSpec`); a wallet differs from what was validated by at most half a paisa a row, races or not (`DriftOfEachWallet`); an id answered is that of a row recording exactly that request; a recharge begun after its key was recorded is not answered with a duplicate error; every call ends |
| `transactions` | a walk through `walletTransactions` implements `PagedListing` (`ListingSpec`): it misses no row that was there when it began, and a row comes twice only because of newer rows. Transactions by date leave out only the oldest rows, only at the limit (`OnlyTheOldestAreCut`), every day but the last is whole (`DaysAreWhole`), and the statement is in order with every row once, whatever commits while it is built |
| `wallets_report` | only the wallets asked for, as far as MySQL tells ids apart, no promised page empty, balances and total of one instant, details for every wallet; and the walk implements `PagedListing` (`ListingSpec`): when groups are sorted, no wallet is left out. Without an order, pages may repeat or miss wallets |
| `user_service_call` | one request at a time at the user service, a wait of at most 134 s, and every call ends |
| `request_pipeline` | no service is called without a token and, for money, a key, and only a checked object moves money (`NothingUnchecked`), 4xx means nothing was recorded, 2xx means it was, every 5xx of a request that got past the body parser is in Sentry exactly once (`ServerErrorsAreReported`), every answer has one response line in the log with its own status, but for the successes of urls with "health" in them (`LogTellsTheAnswer`), every request is answered |
| `money_dto` | rounding at the column never overdraws, and the balance shown can be spent, with amounts on both sides of every point where the result of a rounding changes |
| `rollout` | Three pods that migrate one database and start, with deaths anywhere: no program runs on a table that lacks a migration; the migrations become impossible, and the rollout endless, only when a pod dies between `CREATE TABLE` and its record. `HistorySpec`: the migrations of all pods together are one `SchemaHistory`, so what is on record has been applied |

Some invariants are checked as part of a property that implies them: the two
`NothingSkipped` and `RepeatsMeanNewRows` in `ListingSpec`, `RecordedIsApplied` in
`HistorySpec`, `DriftIsBounded` in `DriftOfEachWallet`. They are stated, and proved
on their own, for readers who ask just that.

Four more runs end in a violation. Each shows a place where the code does not do
what a test, a comment or a decorator of the repository says:

| Run | What happens |
|---|---|
| `wallet_overdraft` | two charges pass `money.greaterThan(balance)` before either commits, and the wallet is below zero (`wallet.service.ts:28`) |
| `wallet_charge_retry` | `chargeWallet` lacks the `return` that `rechargeWallet` has: a retried charge whose key is found goes on to insert, and the unique index refuses it (`wallet.service.ts:30`). No money moves twice, but the client is told of an error |
| `user_service_error_name` | a refused connection is answered `UNEXPECTED_ERROR` instead of `INTERSERVICE_ERROR`, and is not retried (`retry.util.ts:23`) |
| `pipeline_currency` | an unknown currency is a 500: the amount is converted before the currency is validated (`money.dto.ts:15`) |

What no run is about, since reading shows it at once: a missing `currentPage`
passes the validation, whose condition compares with `undefined`
(`pagination.dto.ts:18`); a fraction of a paisa is accepted and rounded by the
column, to nothing below a half (`money.dto.ts:15`), which `DriftIsBounded` puts a
limit to; the filter's branches for `UnauthorizedException` and
`NotFoundException` come after the one for every `HttpException` and never run
(`global-exception.filter.ts:39`); and `sentry.interceptor.ts` captures every
exception, while its comment speaks of errors with status 500 only.

### Bounds

* `WalletService`: in the safety run four calls, two of them undecided at once: a
  recharge, two charges that race for all of it, and a fourth call that retries
  one of them or reuses its key for another wallet. Amounts are at most 2, so that
  a charge takes a part of a balance or all of it. Attempts and pods are
  interchangeable, so the safety run uses symmetry; the run with liveness
  properties does not.
* `WalletAmounts`: three calls, all undecided at once: two with one key and one that
  can hold the lock of another. The recharge (1.6 paisas) and one charge (0.7)
  round up, the other charge (2.005) is of the balance the recharge leaves or just
  above it, by which way `toFixed` goes, and rounds down to it. One pod: when a call
  fails alone (`DbError`) its transaction is left in the database just as when its
  pod dies, and that several pods work at once is in the safety run.
* `TransactionPaging`: five rows in pages of two give three pages, the last one not
  full; four instants let rows be older, newer and of the same `created_at`.
* `DatewiseTransactions`: a limit of three under five rows, so that it is reached, and
  days of two instants, so that the limit can fall inside a day, between two
  days, or among rows of one `created_at`.
* `WalletsReport`: four wallets in pages of two, so that a wallet can appear on,
  before or behind a page; a retailer with two currencies; one the user service
  does not know; two whose ids are the same number; an id that MySQL refuses; a phone
  number of nobody.
* `UserServiceCall`: the values of the source (3 retries, 30 s, 60 s).
* `RequestPipeline`: every combination of a token, a key, a retailer, an object or list of
  money or pagination (present, or with nothing in it) and the other fields as one flag;
  of numbers, missing, zero and two positive ones, for the comparison of two pages; of
  currencies, two, none, a text that is none and one that every object has. A list
  stands for one whose elements are the same.
* `MoneyDto`: four calls with amounts on both sides of every point at which
  `toFixed` or the column changes its result.
* `Rollout`: three pods, so that one can fail on the table another created while a
  third has a stale list; three deaths; one restart by pm2 in place of five, so
  that its limit is reached.

`CHECK_DEADLOCK FALSE` is in `transactions`, `wallets_report` and `rollout`: the walk
of the client ends and the table stops growing when every row is there; pods that
serve have nothing to do, and when the deaths are used up nothing disturbs them.
Elsewhere an end is an explicit action (`Terminating`, `Answered`), so a call that
got stuck would be reported.

### Fairness

* `WalletService`: `WF(Step(a))`. Node runs the continuation of an answered
  `await`, and MySQL answers a statement, with an error when a lock is not granted
  within `innodb_lock_wait_timeout`. A call waiting in `Insert` has no enabled
  step, so the run does not assume that locks are granted: it shows they are,
  because whoever holds a key is itself bound to commit or to be rolled back.
  Arrivals, errors and crashes are not fair.
* `UserServiceCall`: time passes and timers fire. The user service need not answer.
* `RequestPipeline`: the awaits of handlers end, which is what the runs of the two
  modules above establish.
* `Rollout`: `WF(Advance(p))` for each pod. Kubernetes starts a container that has
  ended again, statements are answered, and programs are scheduled. Pods and
  programs need not die.

## 5. What is proved

For all values of the constants that satisfy the named assumptions:

| Module | Theorems | Argument |
|---|---|---|
| `WalletServiceProofs` | `TypeCorrect`, `MoneyMovesOnce`, `AnswersAreTrue`, `OverdraftIsBounded`, `OverdraftNeedsARace`, `ImplementsLedger`, `OneIdForAKey`, `IdsRecordTheRequest`, `RechargesFindTheirRow`, `CallsOnlyAdvance`, `WaitsAreShort` | `LedgerInv`: rows belong to calls that are past their commit, and a key is held by one uncommitted or committed row (`KeyHasOneHolder`). `AtMostOnce` alone is not inductive: a commit must know that no other row with its key is committed or can still be. For the overdraft: `Balance(w)` less the amounts approved and not yet posted loses at most `MaxAmount` for every call in flight beside the one approved; only an approval lowers it (`NetNext`), and one that finds no other charge of the wallet approved leaves it at zero or above, so that an overdraft needs two of them at once (`OverdraftNeedsARace`, which assumes nothing of the calls). `IdsRecordTheRequest` assumes that each key stands for one request |
| `WalletServiceProofs`, of `WalletAmounts` | `AmountsImplementWalletService`, `DecimalsKeepTheOverdraftBound`, `RacesAddNoDrift`, `MoneyUnlessChargesRace` | `AmountIsRecorded`: the row of a call has its amount as the column rounds it. Rounding keeps to its side of a whole balance (`StoredKeepsItsSide`), so a step of `WalletAmounts` is a step of `WalletService`, and what is proved of that carries over. The drift of a sum is at most the sum of the drifts, by induction over the subsets of its rows (`DriftOfSums`). `MoneyUnlessChargesRace`: until two charges of a wallet are past the comparison at once, an approved charge still fits the balance when it is committed (`ApprovedFits`), whatever recharges, other wallets, crashes and errors do; so what is proved of `MoneyDto` holds of every wallet up to its first race of charges, and what `OverdraftBound` and `DriftOfEachWallet` say holds beyond |
| `TransactionsProofs` | `PagesAreTyped`, `NoRowIsSkipped`, `QuietPagesAreDisjoint`, `TheNewestAreListed`, `ListedDaysAreWhole`, `TheStatementIsInOrder`, `PagesImplementListing`, `ReadersImplementListing` | `WalkInv`: an old row that is not listed has at least as many newer rows as the pages answered hold (`ListedOrAhead`), since rows only move back. `DaysInv`: the rows read are the newest of the table as it was then, and the rows grouped are none older than those left. `PagesBesideDays` carries the results about pages over to the specification with both readers. The refinement follows from the same invariant: the last page is that of `NoRowIsSkipped`, disjoint pages those of `QuietPagesAreDisjoint` |
| `WalletsReportProofs` | `ReportIsTyped`, `NobodyElseIsListed`, `PagesAreOfOneInstant`, `DetailsAreComplete`, `PromisesAreKept`, `NoWalletIsSkipped`, `WalletPagesImplementListing` | `ReportInv`: what a page holds is what the statement gives on one table between the request and now; nothing the walk relies on is undone when rows are added, since groups are only added, and, where groups are sorted, never in another order. For the refinement, `ListedBefore`: while no wallet is added, what has been listed stands before the page |
| `UserServiceCallProofs` | `CallIsTyped`, `RetriesNeverOverlap`, `TheWaitIsBounded` | `RetryInv`: a request other than the awaited one is over, and the due time is within the sum of the timeouts and delays so far (`OnTime`) |
| `RequestPipelineProofs` | `PipelineIsTyped`, `HandlersAreGuarded`, `ClientErrorsAreHarmless`, `SuccessIsReal`, `NoServerErrorIsLost`, `TheLogIsTrue`, `RequestsOnlyAdvance` | `PipelineInv`: what has been verified at each stage; `StatusInv`: an exception carried to the filter after a row was made has status 500; `ReportInv`: which lines, captures and transactions there are at each stage, and that what bypasses the interceptors is a 4xx or comes before the transaction |
| `MoneyDtoProofs` | `AmountsAreTyped`, `SequentialCallsNeverOverdraw`, `TheDriftIsBounded`, `TheShownBalanceCanBeCharged` | `MoneyInv`: a charge not above a whole balance does not round above it |
| `RolloutProofs` | `RolloutIsTyped`, `ProgramsRunOnMigratedSchema`, `RecordsAreTrue`, `OnlyADeathIsInTheWay`, `PodsMakeOneHistory` | `RolloutInv`: what a list of pending migrations that may be stale can still be relied on for: what is not in it has been applied and recorded, and a table that is not on record has a pod that is about to record it, unless that pod has died. For the refinement, `SecondAfterFirst`: the second migration is applied to a table that is on record |
| `SumTheorems` | sums over finite sets and over bounded ranges | used by `WalletServiceProofs` and `UserServiceCallProofs` |

The assumptions are the `ASSUME` of each module: finite sets of calls and rows,
requests within their type, positive page sizes, limits and timeouts, and `None`
and its like outside the values they stand beside.

Every invariant and action property of the runs is proved. Only model-checked are
the liveness properties (`EveryCallEnds`, `CallEnds`, `EveryRequestIsAnswered`,
`RolloutEnds`), which need fairness and `ENABLED`, and these are outside of what the
prover handles. The part of them that is safety is proved:

* `EveryCallEnds`: every step of a call leaves it fewer steps (`CallsOnlyAdvance`), and
  an `INSERT` waits for one transaction that itself waits for none (`WaitsAreShort`), so
  that there is no loop and no circle of waits.
* `EveryRequestIsAnswered`: every step leaves a request fewer steps
  (`RequestsOnlyAdvance`).
* `CallEnds`: the time a call may take is bounded (`TheWaitIsBounded`).
* `RolloutEnds`: no interleaving leaves a database that cannot be migrated, but for the
  death it names (`OnlyADeathIsInTheWay`).

What is left to TLC is that, as long as a call or a request has steps left, one of
them is enabled. `MoneyOfEachWallet` is the other way round: a theorem, and no
property of a run, because a disjunction of a specification and an eventuality is not
a formula TLC checks.

## 6. What is not modelled

* The global `JwtAuthGuard` and `RolesGuard` beyond their first test: every route is
  `@Public()`, so they return at once.
* The http cache interceptor: no module registers it.
* `SlackBotService`: `postMessage` has no caller. Contents of log lines, spans and
  translated texts, the documentation page and the reading of configuration: output
  and wiring, no state that a property could be about.
* A failure of the exception filter itself: the `catch` of its second try
  (`global-exception.filter.ts:50-53`), and lines 29-30, outside of it, which read the
  language of the request's nestjs-i18n context. That context is taken to be there,
  for what the body parser throws as well.
* Expressions in the place of a retailer's id in `walletUsers`: they make another
  statement.
* What the queries make of a list as `pagination`: `RequestPipeline` has the handler
  called and lets it succeed or fail, `WalletsReport` and `TransactionPaging` are about
  pages that have a size and a number.
* `migration:revert` and the other scripts an operator runs by hand.
* gRPC: a `.proto` file without a handler.
* The auth library, the user service, MySQL and TypeORM are external; what the code
  relies on is stated where it is used.
* A page of `walletTransactions` without a page number: TypeORM is given a skip that
  is not a number, and what the driver makes of it is not decided here. Such a request
  may succeed or fail in `RequestPipeline`.
