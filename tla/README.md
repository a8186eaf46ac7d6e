# A TLA+ model of Comics Scout

Comics Scout fetches XKCD, stores for every comic the stems of its transcript in
Postgres and answers searches over them. Five Go processes take part: `web`
(HTML pages), `api` (REST gateway), `update` (fetches and drops comics),
`search` and `words` (stemming). This directory holds TLA+ modules of their
logic, TLC runs that check them on small instances and TLAPS proofs that hold for
all sizes. Paths below are relative to `src/search-services/` unless they begin
with `src/`.

## 1. The system

| component | state it keeps | operations | hard part | what makes it correct |
|---|---|---|---|---|
| update service, `update/core/service.go` | `status` under `statusMu`; per Update: lastID, the feeding loop, worker goroutines, `idsCh` (unbuffered), `errCh` (as many slots as workers) | `Update`, `Drop`, `Stats`, `Status` | worker pool, cancellation, failures, crash | one writer at a time, none left behind; no comic lost or fetched twice; nil means complete; events are true; calls end |
| its adapters: `xkcd`, `words`, `db`, `broker` | the `comics` table, NATS (external) | `Get`, `LastID`, `Norm`, `IDs`, `Add`, `Drop`, `Stats`, `Publish` | each call may fail or meet a finished context; comic 404 is made up by the client | as above |
| search service, `search/service/service.go` | none (reads the table) | `Search`; `SearchIndex` is the same | table changes meanwhile; both sides normalised alike | best matches, deterministic order, nothing invented |
| words service, `words/` | none | `Norm` | size limit of 20000 bytes | same stems on both sides |
| API gateway, `api/` | JWTs issued; a semaphore; a ticker | login, update, drop, search, isearch, stats, status, ping | four hops of outcome mapping; bursts; panics; expiry | only sessions command; limits are kept and not lost |
| web UI, `web/` | a cookie in the browser | search page, admin page, login, logout, update, drop | 8 s timeout against calls that take minutes; several tabs; a page put together from two calls | messages are true; sessions are kept; every form is answered; the page shows what was |
| start and end of the five programs (`main.go` of each), `db/migrations.go`, `closers`, `compose.yaml` | what each has opened; the migration's version; NATS' buffer | start, migrate, SIGINT, drain, close, restart | kills between any two steps; the dial that blocks 5 s; who waits for whom | the table is migrated when served; closers wait for handlers; no event lost by an interrupt; everything comes up again |
| config, generated protobuf, templates | - | wiring | - | - |

Interaction: browser -> web -> (HTTP, `Authorization: Token ...`) api -> (gRPC)
update / search -> (gRPC) words, (SQL) Postgres, (HTTP) xkcd.com, (NATS publish)
nobody. A context travels along the whole chain: when the web server's timeout
passes or the browser leaves, the Update at the other end is cancelled.

Two things the documentation names are not in the code. `src/README.md:14` calls
the search service a subscriber of NATS that keeps an index: no code subscribes,
and `SearchIndex` runs the same SELECT as `Search`. `/api/ping` reports on the
search service without asking it (`api/adapters/search/search.go:48`). There is
nothing to model in either, so no run speaks of them.

## 2. Modules

| module | models | composed with | proofs |
|---|---|---|---|
| `Catalogue` | abstract: what the update service promises about table and events | implemented by `UpdateService`, extended by `StatsService` | - |
| `UpdateService` | `Service.Update`, `Service.Drop`, the workers and the adapters they go through | `INSTANCE Catalogue` with a refinement mapping | `UpdateServiceProofs` |
| `LateStatements` | the same with SQL statements that outlive the calls that sent them | extends `UpdateService` | `LateStatementsProofs` |
| `StatsService` | `Service.Stats`, `DB.Stats` and the gateway's `Client.Stats` against a changing table | extends `Catalogue` | `AdminPageProofs` |
| `AdminPage` | `handleAdmin`, which asks for the numbers and then for the status, and the gateway's handlers of both | extends `StatsService` | `AdminPageProofs` |
| `ConcurrencyLimiter` | `middleware.Concurrency` | - | `ConcurrencyLimiterProofs` |
| `RateLimiter` | `middleware.Rate` | - | `RateLimiterProofs` |
| `Search` | a search from the form to the page: web, gateway, search service, words, SELECT | - | `SearchProofs` |
| `AdminSession` | the admin's forms: browser, web handlers, login, Auth, gateway, the update service's status | the update service by what the gateway sees of it | `AdminSessionProofs` |
| `Lifecycle` | start, migration, shutdown, restart of all five programs, with calls on their way | the calls of `UpdateService` by whether they return nil | `LifecycleProofs` |

`MC<module>` gives each of them model values and small sets for TLC; `MCLimiters` does it for
both limiters. The modules that extend another share its state: `AdminPage` is the reader of `StatsService` over the
writers of `Catalogue`, which `UpdateService` implements.

### UpdateService

A call of `Update` or `Drop` is a process with its own program counter `pc[c]`,
context `ctx[c]` and locals. `Start` is `setStatusRunning`, `Release` the deferred
`setStatusIdle`, and every early `return` goes through `Return`, which leaves
`Release` to run. `LastID` and `IDs` are the two calls before the loop; `IDs`
also starts the workers. `Handoff` is one send over `idsCh` (a rendezvous of the
loop and an idle worker); `FeedDone`, `FeedAbort` the two ends of the loop. The
`select` in the loop has no priority, so `Handoff` stays possible after the
context is over. A worker goes through `Check` (its own `select`, which does have
a priority: `default`), `Get`, `Norm`, `Add`; an error takes it to
`errCh <- err` (`SendError`), which blocks while errCh is full. `Join` is
`wg.Wait()` with the last loop, `JoinAborted` the `wg.Wait()` of the cancelled
path. `Publish` looks at the context first, as `broker/nats.go:29` does. `Cancel`
ends a context with one of the two errors Go knows, since the last loop tells them
apart. `Crash` is the end of the process: the table and the published events stay,
everything else is gone; calls that were running are over for their clients, new
ones find a fresh process. compose stops containers with SIGTERM, for which
`main.go:88` has no handler, so this is an ordinary event.

Data: a comic is its number. The content of the rows is in `Search` and
`StatsService`.

Assumptions about the outside: XKCD's latest number never falls and it answers a
number with that comic; a statement takes effect within the call that sends it or
not at all (`LateStatements` drops this one); the NATS client accepts or refuses an
event at once.

### LateStatements

`ExecContext` returns when the context is over or the connection breaks, and the
server may execute the statement later: after the call has reported its error, after the
status is idle again, in the middle of the next call. `LeaveAdd`, `LeaveTruncate` and
`LeaveByCrash` put such a statement, together with the call that sent it, into `late`, `Land`
executes or drops one at any moment; two late TRUNCATEs are two. `surprise[c]` keeps which kinds landed with an effect during call `c`.
Without this module the reader would learn that two calls never overlap; with it, what
that is worth in the database: a nil can be wrong only because of a TRUNCATE that
landed during that very Update, a duplicate key only because of an INSERT that did.
An Update that begins after the last statement has landed is right again.

### Catalogue and the refinement

`Catalogue` says in five variables what clients may rely on: one holder at a time,
rows added only by an Update that holds the table and only if XKCD has published
them and only up to the number it has promised, rows removed only all at once by a Drop, and
at most one event per session, only while it is true (`Told` is a session that has had its
event or gives it up). The mapping in `UpdateService` takes `holder` to the calls inside the
section and `goal` to lastID once the call has read it; everything about workers,
channels and errors disappears.

### StatsService

The four reads of one Stats call, in the code's order, each atomic by itself and
interleaved with any step of `Catalogue`. The history variable `window` keeps what
was true when the call began.

### AdminPage

`Open`, `StatsAnswered`, `StatusRead`, `StatusAnswered` follow `handleAdmin`
(`web/server.go:122`) call by call; the failures record the error that the page keeps
(the first one). `Deadline` is `withTimeout` around both. Behind the page the four queries of
`StatsService` and all writers of `Catalogue` go on, and a status answer may wait while
they do.

### ConcurrencyLimiter and RateLimiter

One goroutine per request. The semaphore is a counter; a panic in the handler is
one of the ways out, because the receive is deferred (`concurrency.go:17`). The
ticker is time itself: `Clock` moves it and delivers a tick at every multiple of
the interval, to the first waiting goroutine or into the one-element buffer. The two guard
different routes and share nothing, so one run checks both: its behaviours are those of the one
while the other rests.

### Search

One request hops from the web form (or straight from another client) through the
gateway, `Norm` and the SELECT back to the page. A text is a set of tokens;
`Norm` drops stop words and applies an arbitrary map to the others. The
SELECT's `ORDER BY score DESC, id` is the choice of a sequence of the hits in which
each row is `Before` the next ones; that there is exactly one is a lemma of
`SearchProofs`. The table may change at every step.

### AdminSession

A form submission `r` has a front, `web[r]`, where the web handler waits, and a back,
`back[r]`, where the work is. They separate when the timeout passes, the
connection breaks or the tab is closed. The gateway and the update service separate, too:
`Abandon` is the gateway reporting its 500 while the handler still winds the call down and
`held` keeps the status with it, `End` is that handler's return. Tokens are named after the
login that issued them. The update service is its status and an outcome: the exact behaviour
inside is `UpdateService`. The history variable `met` keeps which commands of others held the
status while a request was on its way.

### Lifecycle

`at[p]` is the step of `run` that program `p` is at, `Run[p]` the steps, `open[p]`
what the steps have opened and the deferred closers will close, in reverse. `Migrate`,
`Create`, `Clear` are the three writes of golang-migrate: the version marked dirty, the
SQL, the mark removed. `Interrupt` is SIGINT: `update` drains (`GracefulStop`),
`web` and `api` return from `ListenAndServe` at once and `main` ends under the
requests that `Shutdown` still waits for (`api/main.go:117`). `search` and `words` have no
handler for it. `Kill` is a crash or SIGTERM and may come at any step; `Cut` says what
becomes of the calls. `Restart` and `RestartStore` are compose's `unless-stopped`, which `nats`
does not have and which leaves alone what `docker stop` ended: such a container is in `stopped`
until `DockerStart`. A call that the update service has accepted is cancelled when its client
leaves (`Leave`) or when the gateway closes its connection or dies; it is then in `Cancelled`,
and its handler runs on until it notices, or for ever.
`outbox` is the buffer behind `nc.Publish`: `Update` returns nil before the event has
left the process.

## 3. Runs

| run | instance | distinct states | shows |
|---|---|---|---|
| `update_safety` | 2 Updates, 1 Drop, 2 workers, 4 comics, all hazards | 243 549 (with symmetry) | exclusion, quiet when idle, bookkeeping, one comic per error, nil means complete, true events, `Catalogue` is implemented |
| `update_liveness` | 2 Updates, 1 Drop, 2 workers, 2 comics, faults, cancellations, crashes, late statements | 581 898 | what a nil, an event and a duplicate key mean when statements land late; every accepted call ends all the same |
| `update_healthy` | 2 Updates, 1 Drop, 1 worker, 4 comics (one missing, one made up by the client), no hazards | 5 046 | every accepted Update succeeds |
| `update_hang` | 1 Update, 1 worker, 3 comics, faults | violation | the status stays running for ever |
| `stats_reads` | 3 comics over 2 words, an Update and a Drop that come back again and again, the admin page reading | 962 727 | what the four unsynchronised reads, and the page's two calls, still guarantee; the page appears |
| `stats_total` | the same without the page | violation | the total is not XKCD's |
| `limiters` | 4 requests; no limit, 1, 2 and 5; rates 0, 1, 2, 4 and 7, the last finer than the clock | 95 550 | no slot is lost, no request of a pack refused before the slots are given out; rate over every window, bounded waits |
| `search_page` | 3 comics, 4 tokens, 6 kinds of limit | 30 600 | ranking, findability, agreement of the two servers, no error shown as "nothing" |
| `admin_safety` | 3 forms of any kind, faults | 152 641 | messages are true, only sessions command, what may end a session, an expired token has no effect, every form is answered |
| `admin_timeout` | 2 forms, no faults | violation | the web server cancels the Update it was asked for |
| `admin_running` | 3 forms, no faults | violation | "an update is already running" while a Drop runs |
| `lifecycle` | 5 programs, Postgres, NATS, 1 request, any 2 faults | 413 539 | migrated when served, closers wait for handlers, what may end or cancel an accepted call, interrupts lose no event, everything comes up again with the exceptions below |

Why the bounds are enough. Two workers are the least with which ids can be
swapped, doubled or left to one another; three workers only add symmetric cases.
Four comics with two workers give a third round for each of them, one comic
missing for good and the made-up one. Two Updates and a Drop allow every order of
three sessions, one of them refused, and a crash between any two. In the liveness
run there are no more comics than workers on purpose: beyond that the code hangs,
which is the finding of `update_hang`; a statement that lands late needs one call
to send it and another to meet it, and the run has three calls. Three forms are a login, a
second one in another tab (or a command that competes) and the command in question:
every property breaks within three when the code is changed, and the theorems hold
for any number. Two faults in `lifecycle` are a kill within a migration and one more
before it is repaired, or an interrupt and a kill while the interrupted program drains; a
second request would only repeat the first, since requests meet in nothing but the
exclusion `UpdateService` has. The search run enumerates every phrase,
every table and every limit over its sets, so nothing is sampled.

`CHECK_DEADLOCK FALSE` stands in the two runs of UpdateService in which the
system really stops (`update_safety`, `update_hang`): with more failures than `errCh` has room for, every
goroutine of the Update is blocked and no step is left. In all others deadlock is
checked, the end of a run being the action `Finished`.

Fairness. `UpdateService`: weak fairness of each handler and of each worker,
which is what the Go scheduler gives a goroutine that can run, and of the calls
they make: the XKCD client has a timeout, and words, Postgres and NATS are assumed to
answer or fail. Nothing makes clients call or cancel, XKCD publish, or the
process crash. `LateStatements` has the same, and no statement is obliged to land.
`AdminPage`: only the web handler is fair, which takes an answer that is there or sees
its timer fire; Postgres and XKCD may hang, and `PageShown` holds because of
`withTimeout`. `Lifecycle`: programs take their steps and compose restarts what is down. A
handler need not return, because `update_hang` shows one that does not; kills, interrupts,
requests and `docker start` are nobody's duty. `ComesUp` has exceptions, and they are the
code's: what the operator stopped stays down, with everything that cannot go without it; nothing
restarts NATS, without which update does not start; a migration that a kill left dirty is
refused by golang-migrate for ever; and an update service that was interrupted drains for ever
if the handler it waits for hangs at `errCh <- err` (`update/core/service.go:121`). `AdminSession`: only the web handler is fair in
`WebSpec`, which is enough for `EveryFormAnswered` because of the deadline; `FairSpec`, used by the
counterexample of `admin_timeout`, adds the gateway and the update service so that
nothing but the timeout is to blame.

## 4. Proofs

All theorems are proved by TLAPS for every set of calls, workers, requests, comics
and words, every rate and every bound; the named assumptions on the constants are the
only hypotheses (finite and non-empty workers, disjoint calls, natural numbers). A
module that holds `IInv` proves `Init => IInv`, one lemma per action, and `IInv => Inv`.

**UpdateServiceProofs.** `Exclusion` is inductive together with `WorkersJoined`
(goroutines run only between the start of the workers and `wg.Wait()`), and this
gives `IdleMeansQuiet`. `SuccessIsComplete` and `FreshInserts` are not inductive:
that nil means complete depends on what every goroutine holds at the moment. The
strengthening is the ledger: each id of 1..lastID is in exactly one of the loop,
the workers, the table and the absent ones, unless an error is in `errCh` or about
to be; and the one error the last loop skips exists only after the context was
cancelled, so that `Publish` refuses. It is kept in parts by what breaks them: `OwnBooks`
is about the goroutines of the call alone, `FreshIds` says that no id they hold is in the
table (an INSERT by anybody else would break it), `NothingLost` that no id is gone (a
TRUNCATE would), and `LedgerKept` that a step keeps each part it found. A call
that is not inside the section is `Dormant`, which reduces every step to the one call
that moves. `IInv` is the conjunction of types, section and ledger; `EventsTruthful`
and `WritesAreOwned` follow from it step by step.

`OneComicPerError` counts in both directions. That no comic is given up without an error needs
no ledger: it is inductive over the types and the section invariant, because it counts, besides
the errors in errCh, the workers at `errCh <- err`. A step moves an id between the owners, or
turns one id into one reporter, or one reporter into one error; the two lemmas
`OneMoreReporter` and `OneReporterLess` are the arithmetic of that. That no comic is reported
twice is `SupplyInv`: errors sent, workers with something in hand and ids to be fed are
together at most lastID, from the moment when the feeding loop starts with the ids that are not
in the table.

Three theorems are the safety half of questions about liveness. `CanMove` writes out the
guards of the steps an Update has while its workers run. `HangsOnlyWhenFull`: when none
of them holds, more errors are in errCh and on their way to it than it has slots, so the
finding of `update_hang` is the *only* way for an Update to hang, for any number of
workers and comics; it needs that no worker returns while a live call still feeds it
(`Staffed`). `HealthyCallsSucceed` and `HealthyNeverStuck` assume that of all hazards
at most crashes occur: then no accepted call returns an error and none is ever stuck.
That hypothesis is the configuration of `update_healthy`, with crashes added.

The refinement: under `IInv` each step of UpdateService is a step of `Catalogue` or
leaves its variables alone; `Refinement` concludes `Spec => ImplementsCatalogue`.

**LateStatementsProofs.** Every step of `LateStatements` but `Land` is a step of
`UpdateService` that leaves `surprise` alone (`BaseSteps`: a statement that stays behind
looks like one that was not applied), so the lemmas about those steps are used again.
`LateIInv` owes the parts of the ledger only to calls that were not surprised: `FreshIds`
and a Drop's empty table where no late INSERT landed, `NothingLost` where no late TRUNCATE did.
`Land` takes one of them from the one call inside the section and cannot touch a
dormant one. `NilUnlessTruncated`, `CollisionsAreExplained` and
`LateEventsTellTheTruth` read it off.

**SearchProofs.** `Best` rests on a CHOOSE, so there must be something to choose.
`Before` is a strict total order (`BeforeOrder`); the place of a row, one more than the
number of rows before it, is an injection into 1..n, hence a bijection, and its inverse
is the sequence asked for (`OrderExists`) - without induction, which these provers do not have.
`IsTop` says what a page of the n best rows is, `BestIsTop` that the SELECT returns one,
`TopIsUnique` that there is no other. `SearchInv` carries `IsTop` from the SELECT to the page,
together with where a request is and what its fields went through (`PathInv`).
The hypotheses are finitely many comics with integer numbers, descriptions of finitely
many tokens and a positive default limit; vocabulary, stop words and stemmer are arbitrary.

**AdminPageProofs.** First the statistics, theorems of `StatsService`'s own `Spec`: the
count taken earlier never exceeds XKCD's number read later,
because rows are published comics and the number never falls; the words read after
the comics cover them while nothing is dropped, by monotonicity of the counts; a call
that began with nobody holding the table and saw no session begin reads one table.
Then the page. `PageIsACaller`: what the page does to the statistics is a behaviour
of `StatsService`, so its invariants hold behind the page. The strengthening adds
where page and call stand to each other and that the numbers on the page compare
with the table of the moment: equal while nobody has held it, no larger while nothing
was dropped.

**ConcurrencyLimiterProofs.** The channel holds one element per request inside; a
refusal is preceded by as many admissions as there are slots.

**RateLimiterProofs.** Neither bound is inductive. With `Last` the time of the last tick
and `Due` the time at which a next request could pass, `PaceInv` says that the k-th pass
before now lies at least k-1 intervals before `Due`, and `PatienceInv` that the request
at place i of the queue passes with the i-th tick from now, early enough. Each pass moves
`Due` on by an interval. What `%` does from one moment to the next (`Remainder`) is
proved from Euclidean division.

**AdminSessionProofs.** Every token in a browser or in a request was issued by a login;
`BackInv` ties what a request's back has done to where it is. `HeldInv` says that at most one
call holds the update service, that a call the gateway waits for does, and that a waiting
request has met whoever holds it; a refusal is then owed to a call in `met`. `ShownInv` reads
each message back to the answer it came from. `SessionKept` and `ExpiredIsPowerless` follow step by step.

**LifecycleProofs.** `MigrationInv` says how far the migration is from where update
stands, `OpenInv` what update has opened from where it stands, `HandlersInv` that
handlers run only in a process that serves or drains; `EventsInv` that without a kill
an event waits only where a closer will flush it. `AcceptedCallsAreKept` goes through the
actions: which of them take a handler away, and which end the context it works for.

Some theorems have no run, since TLC would only repeat them on a small instance:
`InsertsAreFresh`, `WritesBelongToACall`, `HangsOnlyWhenFull`, `HealthyCallsSucceed`,
`HealthyNeverStuck`, `AnswerIsUnique`, `AloneMeansSnapshot`, `PageMakesNothingUp`,
`PageRunningIsTrue`, `AnswersAreTrue`, `ServedInOrder` and the type correctness of
`StatsService`, `ConcurrencyLimiter` and `RateLimiter`.

Every invariant and every action property of the runs is now a theorem. Only
model-checked is the liveness, because fairness and ENABLED are beyond the prover:
`UpdateSucceeds`, `IdleAfterUpdate`, `PageShown`, `EveryFormAnswered`, `ComesUp`. So
`CanMove` is a list of guards, not ENABLED, in the proofs.

## 5. Findings

1. `update_hang`: `errCh` has as many slots as there are workers and is read only
   after `wg.Wait()` (`update/core/service.go:61`, `:121`). With more failed comics
   than workers every worker blocks, Update never returns and the status stays
   "running" until the process is restarted; `service_test.go:127` expects it idle
   after an update.
2. `stats_total`: `api/adapters/update/update.go:79` replaces the total by the
   fetched number, so the admin page's "fetched / total" reads 5 / 5 after an Update
   that stopped half-way. The gateway's own test (`api/adapters/update/update_test.go:115`)
   asserts the overwrite; the page's words and XKCD's number say otherwise.
3. `admin_timeout`: pressing "update" on the admin page starts an Update under an
   8 s timeout (`web/server.go:181`) whose end cancels it, although `src/README.md:60` gives
   this button as the way to fill the table.
4. `admin_running`: `Service.Update` answers `ErrAlreadyExists` also when it is a Drop that
   holds the status (`update/core/service.go:40`), the gateway makes 202 of it
   (`api/adapters/rest/api.go:92`), and the page says that an *update* is already running
   (`web/server.go:194`). `MessagesTrue` checks what is left of that message: some command of
   somebody else did hold the service between the request and its answer.

## 6. Plan

Done, in this order: Catalogue, UpdateService, its proofs and the refinement,
StatsService with proofs, ConcurrencyLimiter with proofs, RateLimiter, Search,
AdminSession; then AdminPage with proofs, LateStatements, Lifecycle with proofs, proofs
of AdminSession and RateLimiter; then `OneComicPerError`, the ways an Update can and cannot
hang, and the proofs of LateStatements and Search.

To do, all of it proofs:
- the safety half of the other liveness properties, as `HangsOnlyWhenFull` is of
  `IdleAfterUpdate`: in `AdminSession` and `AdminPage`, that a waiting web handler always has an
  answer, a broken connection or its timer; in `Lifecycle`, that a program that does not
  come up is one of the exceptions of `ComesUp`.
- `LateStatements` refines a weaker Catalogue, in which a late statement is a step of
  its own.

## 7. Not modelled

- The search service's index and NATS subscription: absent from the code.
- The ping handler of the gateway: it asks three clients one after the other and changes
  nothing, and that of the search service answers ok without asking.
- A search service that starts before update has ever created the table: its SELECT
  fails, which `Search` covers as a failing service.
- Signatures and the encoding of tokens, HTML, JSON, protobuf, logging, configuration
  files, the Snowball stemmer, generated code.
- Two processes of the update service at once (compose runs one): the status is in memory
  and would exclude nothing.
