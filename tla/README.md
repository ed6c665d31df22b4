# A verification project for Calce

Calce keeps market data in memory, follows its Postgres database by logical
replication, tells the admin console of changes, and computes portfolios over
what it holds. This directory models the parts of it whose correctness depends
on the order of events: the concurrent data structures, the update pipeline,
change data capture down to the messages of the replication protocol, the
sessions, and the REST routes over the two places they read; and, as operators,
the calculations a portfolio's report is made of. TLC checks the models on small
instances; TLAPS proves the main properties for all values of the constants.
Paths below are relative to the repository; `pubsub.rs` is
`crates/calce-datastructs/src/pubsub.rs` and so on.

## 1. Inventory

| Part | State | Operations | What makes it hard | What makes it correct |
|---|---|---|---|---|
| Subscription registry (`pubsub.rs` 58-178) | three DashMaps, one channel per subscriber | subscribe, subscribe_all, unsubscribe, fan_out | no lock over the three maps; owner and dispatcher may unsubscribe the same id; dropped receivers | nobody alive is unlisted, nobody gone stays listed, no leaks |
| Dispatcher (`pubsub.rs` 180-397) | event channel, pending map, statistics | start, shutdown, dispatcher_loop, coalesce, flush | bounded channels that drop; stop at any point of the loop | coalescing loses no change; shutdown drains; the counts add up |
| Time-series cache (`cache.rs`) | per key an atomic `f64` and an `Arc<Vec<f64>>` | insert, update_current, update_history, append_history | copy-on-write by compare-and-swap, an index checked on another snapshot | each call is atomic; the index is in bounds |
| CDC listener (`listener.rs`) | connection, slot, last LSN | run, ensure_slot, stream_loop, handle_pgoutput | reconnects, redelivery, transactions that overlap, acknowledgement before application | no committed change is lost |
| Replication client (`wire.rs`, `protocol.rs`, `listener.rs`) | slot, publication, schema cache | log in, find or create slot and publication, decode | several processes share one slot, tables change under a connection, any query may fail | nothing is passed over, columns carry their own values, somebody streams again |
| CDC consumer (`calce-data/src/cdc.rs`) | instrument map | dispatch, apply_* | two notification channels, backpressure | every change reaches cache and pages |
| Startup (`main.rs`, `loader.rs`) | the caches | bulk load, then PubSubs, then CDC | five snapshots, and the slot comes last | the caches start from a state the stream continues |
| Streams and pages (`events.rs`, `useEventSource.ts`, `useEntityEvents.ts`) | a 256-entry channel per stream, query caches | subscribe, refetch | lagging clients, reconnects | pages end up fresh |
| Sessions (`routes/auth.rs`, `queries/auth.rs`, `client.ts`) | table `refresh_tokens`, localStorage | login, refresh, logout | statements are separate transactions, tabs share a token and may be closed at any time, a grace period | rotation strands nobody, revocation is final |
| Lockout (`routes/auth.rs` 104-179) | `failed_attempts`, `locked_until` | login | a counter read long before it is written | failures lock, soon |
| API keys (`api_key.rs`, `middleware.rs`, `routes/api_keys.rs`) | table and a cache with a TTL | create, revoke, validate | a miss that races with a revocation | a revoked key stops working within a TTL |
| DB simulator (`db_simulator.rs`) | running flag, stored permit, handle | start, stop, tick | overlapping start and stop | one loop at most; stop returns |
| Market data facade (`concurrent_market_data.rs`) | caches, date axis | builder, updates and lookups by date | gaps, first and last dates, pairs quoted one way | a lookup returns the value of its very date |
| User data store (`user_data_store.rs`) | trades per user, users | load, apply_user, positions per user and account | loaded by several queries, kept up in part, read page by page | nobody is counted twice; memory agrees with the database it was read from |
| REST routes (`routes/*.rs`, `queries/*.rs`, `authz.rs`) | tables `users`, `accounts`, `trades`, `api_keys` | list, look up, create, update, delete | some read memory, some SQL; access is checked before or after the look-up | both sources agree, and nobody learns of another's data |
| Calculation engine (`calce-core`) | none | aggregate, value, change, allocate, volatility | partial results with warnings | equals its definition |
| Python bindings (`calce-python/src/auth.rs`) | the same tables | login, refresh | a second implementation of the rotation | as for sessions |
| AI service, tools | - | - | - | not modelled, see 8 |

How they interact: `main` loads the caches (`load_from_postgres`), creates
three `PubSub`s, gives the caches of prices and rates the sender of theirs, and
starts the CDC tasks with the sender of the third. A committed row change goes
from Postgres through the listener, a channel of 4096 and the consumer into a
cache. The cache signals its `PubSub`; users and all other tables are signalled
to the entity `PubSub` by the consumer. The dispatcher of a `PubSub` coalesces
for 50 or 100 ms and fans out to SSE streams; the console refetches. Signals
never carry values.

## 2. Modules

| Module | Models | Composes |
|---|---|---|
| `SubscriptionRegistry` | the registry, one DashMap access per step | - |
| `AtomicSeries` | abstract: what the cache promises about one key | - |
| `SeriesCache` | one key of the cache, one atomic access per step | implements `AtomicSeries` |
| `LiveUpdates` | writers, event channel, dispatcher, subscribers | the notification half of the cache and the dispatcher |
| `CdcPipeline` | load, slot, stream, consumer, entity channel, event stream, pages | startup, listener, consumer, fan-out, pages |
| `Replication` | log-in, slot and publication, decoding, for several processes | server, `wire.rs`, `protocol.rs`, `listener.rs`, the keys of `cdc.rs` |
| `RestApi` | routes over users, accounts, trades and keys | handlers, queries, load, memory, `apply_user` |
| `Sessions` | refresh tokens and the tabs of a browser | handlers, queries and client, and `AuthService.refresh` of the bindings |
| `DbSimulator` | start, stop and the loop between them | - |
| `Access` | lockout of an account, an API key and its cache | - |
| `Calendar` | dates as numbers, and the dates a period is compared with | - |
| `MarketData` | builder, dense arrays, updates, look-ups | - |
| `Portfolio` | trades, aggregation, valuation, changes, allocations, report | `MarketData`, `Calendar` |
| `*Proofs` | the theorems about the module of that name; `PortfolioProofs` also about market data and calendar, `DatastructsProofs` about registry and cache, `AuthProofs` about sessions and access, `ApiProofs` about routes and simulator | - |
| `SumProofs` | what a sum over a finite set is, for every order of adding up; loops and ranks | - |
| `MC*` | the instances for TLC | - |

### SubscriptionRegistry

Each DashMap operation is one step; the loop of `fan_out` over one key's list
runs under that entry's guard and is one step. `unsubscribe` is run by worker
`w`: `Unlist` (the broadcast map), `Forget` (the keys are taken), per key
`Retain` and `Prune`, `UnsubscribeReturn`. `per_key[k] = {}` with `k` in
`entries` is the empty vector that `remove_if` is there for. An id is used
once, so a `Subscriber` is one subscription and the thread that owns it.
A list holds an id once because `subscribe` removes duplicate keys, so a set
stands for the vector; the order of keys within a call is left open.

### SeriesCache and AtomicSeries

`Begin` takes the shared guard of the entry, `Notify` gives it back: `insert`
waits for all guards. `arc` is the identity of the `Arc`, which is what the
compare-and-swap of `rcu` looks at. `AtomicSeries` has three steps per call:
requested, applied or refused, returned. The refinement maps the program
counters: a call counts as applied once its store or swap is done.

### LiveUpdates

A value is the number of stores to it (`version`), so that "stale" is
`seen # version`. `owed` separates the store from the signal. The dispatcher's
locations are those of `dispatcher_loop`: `wait` is the select, `drain` and
`redrain` the loops before and after the window, `lastdrain` and `lastflush`
the stop branch. `promised` (history) counts what was in the channel at stop,
`missed` (history) the signals a full channel refused.

### CdcPipeline

A transaction changes one row and is named by its place in the order of commits;
caches and pages hold such places, `Absent` for no value. `slot` is what Postgres
has confirmed, `origin` where it was created. `next` and `midway` are the reader's
place in the stream, `held` the event waiting for the channel, `current` the one
waiting for the entity channel. A restart empties the process and keeps slot and
log. LSNs are counted in transactions committed before them. Transactions
overlap, so the change that is being read may lie before commits that were read
already, and `SendStatus` may confirm any such place: what a reconnection then
starts from is before what was confirmed. `gap` is where a slot created by this
process began; the properties of the passing run are about changes after it, and
`CachesKeptFresh` is not.

`Served` is what a page's route answers: organizations come from the database
(`routes/organizations.rs`), users, prices and rates from memory
(`routes/calc.rs`), which gains and loses no row after the load. `inbox` is the
256-entry buffer of an event stream; `FanOut` drops a signal that finds it full, or
nobody subscribed. `listening` is the pages' `EventSource`, and `unheard` (history)
the rows whose pages may have missed a signal because it was dropped, went by
while the stream was closed, or was lost with it: nothing tells such a page to
refetch, so `StalePagesSignalled` and `EventuallyFresh` exempt it, until the next
signal of its table reaches it or it is opened anew (`Visit`). "Fresh" means
what the route serves: that a page of users then need not be what the database
holds, and that a page of prices or rates is not told of a put at all, is in
section 4.

### Replication

The part of the listener that `CdcPipeline` takes for granted. Each query of
`run_once` is a step, so that two processes interleave between looking for a
slot, a publication or a table and creating it; only one connection may have
the slot (`active`), and one that died keeps it until the server notices
(`Ghost`). `shape` says whether a table has lost a column; `sent` is what the
server has described on a connection and `cache` is `schema_cache`. `Tuple`
gives the columns the server sends (of a deleted row the replica identity's),
`ColumnMap` zips them with the cached names, `EntityId` is the key the consumer
announces. `created` and `since` are the places in the log from which the
publication, and each of its tables, exists; `Undecodable` is the error of a
change from before. Bytes, MD5 and SCRAM are the outcome `CanLogIn`.

Transactions are sent in the order of their commits, but a change has the
position at which it was `made`, which may be before the commits of others.
`last_lsn` takes that position (`listener.rs:174` assigns it; only a keep-alive
takes the larger), and the next status update takes back what was confirmed.
`TakenBackByOverlap` says how far. The server of the model does what a status
update says; one that ignores a lower position sends less a second time.
`StreamsAgain` exempts a stream that is `Stuck` at a change from before the
publication, and `NothingPassedOver` a `TRUNCATE`: section 4.

### RestApi

A route is an operator from caller and arguments to an answer (a status and a
set of records), in the order of check and look-up of the handler; routes that
write are actions guarded by their answer. `users`, `accounts`, `trades` and
`keys` are tables, `summary`, `order` and `held` the memory
`load_from_postgres` fills in two steps, `feed` the images of users' rows that
`ApplyUser` takes over. `Import*` and `RemoveAccount` are what the seeding and
import tools do behind the server's back. `drift` (history) holds the users of
whom accounts or trades changed after the first query of the load: memory does
not follow those, and `CountsExplained` and `AccountsAgree` are about the
others. `reader` turns the pages of `data_users`; `order` never changes while a
process runs, because no setter adds or removes a user, which is why
`PagesTile` holds while names change under the reader; it is about lists without a
search, since a user renamed between two pages may enter or leave a filtered one.

### Sessions

A token is its row; a family is named after its first token. Each query is a
transaction and a step of its own; between them any other request may run.
Time is reduced to what the code compares it with: `superseded` is `no`,
`grace` or `past`, and `expired` is a flag. `GraceUnasked` is the rotation of the
Python bindings, whose grace period does not ask whether the family has an
active token. A handler may end at any await (`Interrupt`): with `Fail` the tab
notices, clears the storage and goes to the login page; with `Leave` the tab was
closed or reloaded, nothing runs in it, and the storage stays what it is.
`interrupted` and `ended` are
history: families that lost a rotation between its two writes, and families
revoked when no rotation of theirs was past the look-up. `behind` (history) says
that the stored token was put back by a grace reply, or was rotated by a tab that
is gone. `SessionHasSuccessor` exempts the former families and `EndedStaysEnded`
is about the latter only: a family whose rotation died gets the login page, and a
logout during a refresh is in section 4.

### DbSimulator

A request is idle or stands at an await of `start` (`configure`, `save`) or
`stop` (`signal`, `take`, `join`). `loop` lists every task `run_loop` was
spawned as and where each is: about to poll its select, parked in it, woken by
a notification, in a tick, gone. `permit` is what `Notify` keeps when nobody
waits; `merged` (history) counts the notifications that found it there and
were lost in it, `abandoned` (history) the starts dropped before the spawn.
`HandleFree` is the handle's mutex, which `stop` holds for as long as it joins.
`disturbed` (history) says that calls overlapped or one was abandoned. In the
quiet case `stop` leaves nothing behind and always returns. Otherwise neither
holds: a stop that overlaps a start may wake another loop than the one it
waits for, and then waits, with the mutex, until somebody else notifies; so
`StopReturns` and `StoppedMeansStopped` are about runs that are not `disturbed`, and `LoopsAccounted` is the
property that says what is left of the promise there.

### Access

The two ways to be let in that depend on time and on other requests; they share
the clock and the pool of requests, and nothing else. A request is idle or past
a query: a password verified against the credential it read, a cache miss, a
key's row read, a revocation that has yet to evict. `Abandon` ends a handler at
any await, as a client that leaves and a query that fails both do. An entry's
`filled` is what moka counts the TTL from; `delay` (history) is how long the
look-up took, `settled` (history) says that the eviction of a revocation found
no look-up holding the older row. The time `lock_account` is called with is
taken in the same step as the query.

### Calendar, MarketData and Portfolio

The calculations are pure, so they are operators over the state: `MarketData`
keeps the market's part of it, `trades` is the rest. The actions fill the
builder, turn it into the store, add trades and update single days; as in
`load_from_postgres` trades come after the store, and every query may come at
any time after that. A dense array is represented by the indices that hold a
value, since NaN means no value; the vector's length is `num_days` for every
series. The list of rates, their counts and their charts are operators too, and
`ReadsAgree` relates all readers. `row` (history) is the value last accepted for a series and a day,
without axis, offset or array, and the reference definitions at the end of
`Portfolio` use only it and the single trades. Amounts are integers. Positions,
warnings and allocations are sets and functions, because the code sorts or
collects them for display only; percentages and weights, quotients of numbers
that are modelled, are left out, and so are the access checks of
`user_data_store.rs`. `CurrencyMismatch` cannot arise, since a rate is always
asked for in the direction it is used. Types and sectors of instruments do not
change after the load and are constants; shares may come to anything
(`allocation.rs:436-455` tests for less than the whole), and
`AllocationsLookThrough` compares each category with its part of every trade. A
warning of a missing rate is tagged with the position it is raised for, where the
code's names the pair and the date (`market_value.rs:65-67`). A trade names its
user beside its account; that this is the account's owner is enforced by no
constraint (`models.py:91-92`) but kept by both tools that write trades, and is
the assumption `TradeOwnerAssumption`, here and in `RestApi`.

## 3. Runs

| Run | Instance | States | Shows |
|---|---|---|---|
| `subscription_registry` | 2 keys, 2 subscribers, buffer 1 | 109 544 | the registry's invariants, and that dropped receivers are reclaimed |
| `series_cache` | 2 threads, 2 values, 4 calls | 218 578 | bounds, refinement of `AtomicSeries` |
| `live_updates` | 2 keys, 2 writers, 2 subscribers, channel 2, buffer 1, 3 stores | 144 734 | no signal lost but by a full channel, statistics, shutdown, freshness |
| `cdc_pipeline` | 1 price, 1 user, 1 organization, channels and buffer of 1, 2 transactions, 1 fault | 759 213 | no change lost, no hole in the stream, stale pages signalled, freshness |
| `replication` | 2 processes, 1 table, 2 transactions that may overlap, a dropped column, 1 fault | 518 384 | columns keep their values, keys name rows, nothing passed over, the slot taken back by overlap only, somebody streams again |
| `rest_api` | 2 users, 2 accounts, 3 trades, 1 key, 3 callers, 2 changes of rows or keys | 193 461 | counts, sums and pages agree, names converge, answers are confined |
| `sessions` | 2 tabs that may close, 3 tokens, tabs symmetric | 3 769 155 | sessions survive, revocation is final, the stored token is current |
| `db_simulator` | 2 requests, 3 starts | 25 329 | loops and notifications balance; undisturbed, stop leaves nothing and returns |
| `access` | 2 requests, threshold 3, lock and TTL of 2 ticks, 5 logins | 1 636 141 | how far past the threshold and the TTL an access gets |
| `portfolio` | 3 accounts of 2 users, 5 possible trades, 2 recorded, 3 series, 3 days, 3 writes | 29 881 | every reader of the store, totals, warnings, changes, allocations and positions agree with sums over rows and trades |
| `cdc_fresh`, `sessions_race` | | | violations: section 4 |

Type invariants are theorems (section 6) and not among the runs' invariants;
`Replication` runs its own as well, since it says that the connection which has
the slot is the only one that streams.

Why the bounds are enough. Two of each actor are all a pairwise race needs,
and every hazard listed is a race of two. Channels of one or two entries are
full, partly full and empty within few steps. Three stores let a key change
again while its first signal is pending and another key's is too. In `cdc_pipeline` two
transactions are a change that is confirmed and one whose reading takes that back,
or a row that changes again while its first change is announced; a buffer of one
entry is full with one signal; one fault separates what is confirmed from what is
applied, or pages from their signals. A third transaction repeats these pairs, and
the theorems are for any number.
Two processes race for slot and publication; the table is like `organizations`, with
an external id and the default replica identity, and an earlier version may
have created the publication without it, so that creating, extending and finding
a publication all occur (tables under FULL, and several tables, are left to the
theorems: with two the state space is too large for liveness); two
transactions are one before and one after a dropped column or a lost connection,
or two that overlap.
Three trades are of two instruments, one of them without a price and one held
in two currencies; the three callers are an unrestricted admin, a user and a key
of an organisation; pages of one user are turned over two. Three
tokens are a login and two rotations, raced by two tabs, or two logins. Three
starts let two loops outlive their stops while a third begins. Five logins are
three failures, one more by the race, and a success; the clock's three ticks
let a lock and an entry end. The days with data are 28 February and 31
December 2023 and the leap day of 2024; they are what the leap day is compared
with a year before and for the year to date, 1 January 2024 the day before, and 7
January the week before. The shares of one instrument come to 90 hundredths. Two trades
can add up, cancel, conflict in currency or belong to different accounts and
users; three writes are a price, a rate and another day of either, or the same
day twice.

`MaxStores`, `MaxCalls`, `MaxChanges`, `MaxFaults`, `MaxTokens`, `MaxStarts`,
`MaxWrites`, `MaxTrades`, `MaxLogins`, `MaxTime` and `Migrating` bound what is
unbounded in the program; they are why the runs other than `subscription_registry` do not
check deadlock: a bounded run ends. Its own deadlock check is on.

## 4. Where code and documentation differ

* **Startup** (`cdc_fresh`). The slot of a fresh database is created after the
  bulk load; a change in between is in neither. `docs/cdc.md:7` says that the
  caches are kept fresh without a restart. The same property fails for a new
  row, which no setter can add, and for a price of an earlier date, which is
  made current.
* **Two active tokens** (`sessions_race`). Two refreshes that both found the
  token active both mint one; `docs/auth.md:72` says that a refresh invalidates
  the old token and that no second one is minted.

Without a run, because the models state what the code does instead:

* **Market pages.** `dispatch` applies a put of `prices` or `fx_rates` and sends no
  entity event (`Dispatch`); `docs/live-updates.md:109` lists both among the
  monitored tables and `:85` says that FX pages are invalidated by one. Hence
  `StalePagesSignalled` is about users and organizations.
* **User pages.** A user created or deleted after the load is announced, and the
  page that refetches is answered from memory as before (`Served`);
  `docs/live-updates.md:104` says that CDC catches what manual invalidation does
  not. Hence a fresh page is one that shows what its route serves.
* **A stream that is stuck.** A change between the creation of the slot and that of
  the publication cannot be decoded by Postgres 16, and every retry meets it again
  (`Stuck`); `docs/cdc.md:50` says that streaming resumes on reconnect.
* **Logout during a refresh.** A refresh past its look-up inserts a token into the
  family that a logout has just revoked; `docs/auth.md:79` says that the entire
  family is revoked, which is more than `EndedStaysEnded`.
* Within the grace period the answer holds the token that was presented
  (`Sessions`), not the one that replaced it as `auth/mod.rs:17` says.
* `docs/calculations/methodology.md:42` says that a calculation fails explicitly
  where data is missing for a date, and the comments at `value_change.rs:69` and
  `:89` list missing prices among the errors; `value_positions` leaves the
  position out and warns (`EveryHoldingAccounted`).
* `docs/calculations/methodology.md:185` has the weights of a fund come to about
  one, and `:206`, with the test at `allocation.rs:436-455`, says that what they leave
  out is lost on purpose. So the entries of an allocation need not add up to its
  total, and no property says that they do (`AllocationsLookThrough`).
* `docs/auth.md:53` has ten failed logins lock the account, and the comment at
  `api_key.rs:15` revocations propagate within the TTL; `LocksInTime` and
  `AcceptedInWindow` state the margins by which overlapping requests exceed both.
* The documentation of CDC lets any process follow the database; a slot has one
  reader, so a second process backs off until the first is gone
  (`StartReplication`). A table taken off `REPLICATED_TABLES` stays published,
  since `ensure_publication` only adds.
* "Streaming resumes from the last confirmed LSN" (`docs/cdc.md:50`): what was
  confirmed last may be before what was confirmed already (`TakenBackByOverlap`).
* `TRUNCATE`, which `tools/seed_db.py:357` and `njorda_import.py:418` use, is no
  message the client knows: rows vanish unannounced (`NothingPassedOver` is
  exempt).
* Besides users that come and go, memory does not follow a name set to NULL
  (`NamesConverge`), moves between organisations, accounts and trades (`drift`). So
  a trades event makes no page of trades fresh.
* "Auto-reconnect" (`docs/live-updates.md:116`) uses the stored access token,
  which may have expired: attempts fail until another request renews it. Hence
  no fairness on `Resubscribe`.
* `get_user_accounts` adds market values over instruments without converting
  them, `data_stats` is open to every caller that is authenticated, and an
  API key of an organisation can read the data of nobody.

## 5. Fairness

Weak fairness almost everywhere, for steps that nothing but the scheduler holds back:
threads and tasks that have begun a call, the dispatcher task and its timer,
the CDC tasks, the server's answers. In `LiveUpdates` and `CdcPipeline` clients
read their streams while these are open. `Replication` has weak fairness for
each process and for the server to notice a dead connection: without the latter
the slot stays taken. No fairness for what clients choose to do (subscribe, drop,
store, commit), and none for faults. `DroppedReceiversReclaimed` assumes
events of the key again and again, because only a failed send notices a
dropped receiver; `EventuallyFresh` needs nothing of that kind, since commits
and stores end. `LiveUpdates` exempts `missed` events: a dropped signal is
made up for by the next change only. `DbSimulator` needs strong fairness twice:
`tokio::select!` polls its futures in random order, so that a loop that has
been notified cannot tick instead for ever, and the handle's mutex is fair.

## 6. Proofs

Each `*Proofs` module proves `Spec => []Inv` for an inductive invariant that is
the conjunction of named parts, by one lemma per action.

* **DatastructsProofs**, registry. The invariants say nothing of who is inside
  which call. `RegistryInv` adds what each phase of a subscription excludes
  (an unused id is nowhere, one being listed is nobody's target, a live one is
  registered), that `unsubscribe` is run only by an owner that left or by the
  dispatcher on an id whose receiver is gone, what an idle frame holds, and that
  an empty entry is one somebody is about to prune.
* **DatastructsProofs**, cache. The invariant relates each loop's snapshot to the
  entry: the same `Arc` means the same history, and an index that was checked is
  within every later history while the guard is held. From it follow
  `IndexInBounds`, `GrowsWhileHeld` and, step by step, that every step of
  `SeriesCache` is a step of `AtomicSeries` or a stutter.
* **LiveUpdatesProofs**. `StaleOnlyWhileSignalled` is proved by following the
  signal of a stale value through `owed`, the channel, the pending map and the
  inbox; `ShutdownDrains` needs that what was promised is at the head of the
  channel. `StatsConserved` equates deliveries with subscribers times fan-outs
  (`Fanned`); it is inductive once the pending map is known to be finite: coalescing
  leaves `Fanned` alone, a fan-out adds one to it and one delivery or drop per
  subscriber.
* **CdcPipelineProofs**. `At` is the last transaction that will not be read
  again, `Handed` what is between listener and consumer. The invariant says that
  `Handed` climbs by steps of one at most (`NoHoles`) and ends at or behind `At`
  (`Behind`); that a cached row which is not what its last change wrote has that
  change in `Handed` or beyond `At` (`CachesFollow`), and likewise the pages of
  users and organizations (`PagesFollow`). The step that needs both parts is `Dispatch` of an older,
  redelivered change: it sets the cache back, and the last change of the row must
  be redelivered behind it. It is, for a sequence without holes passes no height
  over (`NoHeightPassedOver`). A lost connection or a status update, late or to
  before what was confirmed, only lowers `At` or leaves it (`StreamIsQuiet`). The four invariants of the model
  follow, for any number of faults.
* **ReplicationProofs**. For each process its places lie in the log, and the
  server's `active` is the one that streams (`TypeOK`, `PlacesInLog`); who is past
  the look-up of the slot has one (`SlotFound`); what the server described on a
  connection is what is in `schema_cache` (`SameDescriptions`, without which a
  dropped column would shift its neighbours' values); the change before an
  outstanding commit has been handed on (`MidwayHanded`); and an event has the
  columns its table had when the row changed (`EventIsRow`). `LayoutColumns` and
  `RowColumns` show that zipping names with values gives a value to its own name,
  from which `ColumnsAligned` and `KeyNamesRow` follow. `TakenBackByOverlap`
  is an action property (`SlotIsTakenBackByOverlap`): who streams is not behind the
  slot, and neither is its `last_lsn` except at the change it is reading
  (`SlotBehind`). `NothingPassedOver` survives that, since what the slot gives back
  has been handed on already.
* **AuthProofs**, sessions. `SessionInv` adds that a tab presents an issued token
  exactly while it refreshes, that families are named after their first token,
  that an ended family has only revoked tokens and no rotation in flight
  (without which a successor could be minted into it), and that a minted token
  on its way is known to its own tab only. From it follow
  `SessionHasSuccessor`, `EndedStaysEnded` and `StoredTokenCurrent` for any
  number of tabs and tokens.
* **AuthProofs**, access. `KeyInv` follows a row from the look-up into the entry:
  either it agrees with the table, or it was read before the revocation, whence
  the window. `LockInv` says that a login whose snapshot shows no lock knows the
  present one or started before it. `CountInv` bounds failures plus the requests
  that will still add one without locking; once the count is one short of the
  threshold nobody joins those.
* **ApiProofs**, routes. All five invariants of the run. `ApiInv` has four parts
  besides the types: the last image of a user on the feed is the user's row
  (`FeedIsCurrent`), so that memory is the row once the feed has none
  (`NamesConverge`); while the pages are turned, what has been read is a prefix of
  what the caller may see (`ReaderRead`), and that list stays what it is, whatever
  is renamed (`PagesAreTiled`); and rows that were loaded count and hold what the
  tables do for users outside `drift` (`LoadedRows`). `CountsAreExplained` then
  counts the rows of a join by their users, and `OverviewAgrees` adds up trades by
  instrument in two orders. `CallersAreConfined` goes through the routes.
* **ApiProofs**, simulator. `LoopsAccounted` is an equation between counts; the
  lemmas say how each step moves one count on each side. The quiet case adds
  `OneAtATime`: undisturbed, at most one request is inside a call, and the loop
  it holds is the only one.
* **PortfolioProofs**. `MarketInv` adds to the types that, while the builder
  collects, the row of a day is the value of its last point (`BuilderKeepsRows`)
  and that an array holds only days that were written. `DenseArray` says what
  scattering points over an array leaves there; with it `from_builder` turns the
  first fact into `LookupIsLastWrite`, and `update` keeps it. That the axis has
  a first and a last day rests on the days lying in the range of `NaiveDate`.
  `RangesAreExact` is a case analysis of the two clamped ends; that a list counts
  what a chart shows is a bijection between the indices and the days
  (`SameSize`), and with it `ReadsAreExact`.
* **PortfolioProofs**, trades. Besides the types only `OwnersMatch` is needed: a
  user's trades are of accounts of that user. The calculations are followed in
  the order they run. `load_trades` puts every recorded trade of its subjects at
  exactly one place of the list (`TradesLoaded`, from what `Dedup` and
  `FlattenSeq` do). The rounds of `aggregate_positions` keep a book (`BookOf`): its
  instruments are those traded so far, it has met a conflict exactly if two
  trades clash, and until then its quantities are net quantities
  (`NettedBooks`). A valuation sums over positions what the reference definition
  sums over trades, so the trades are taken instrument by instrument, where all
  have one price and one rate (`WorthOfInstrument`), also when every trade is
  weighed with a number that its instrument has (`WeighedIsWorth`). With weight one
  that gives `TotalsAreSums`; an allocation takes the positions by type, and the pairs
  of position and share by sector, where the weight is the sum of the
  instrument's shares of it (`SharesOfSector`, `SharedOut`), which gives
  `AllocationsAreLookedThrough` for any shares; `NothingLeftOut` follows from the book; `AccountsAddUpToUser` takes a user's trades by account and
  by row, and relates the rows to the book.
* **PortfolioProofs**, calendar. The lengths of years and months give that `Year`,
  `Month` and `DayOfMonth` take every integer apart in the only possible way
  (`YearOfDay`, `MonthOfDay`; that the year is one of three is a bound on
  146097 days in 400 years). Two years in a row are not both leap years, so
  `prev_year` is the last day of the year before that has no later month and day
  (`YearBack`), and `ytd_start` is the one day between two years (`YearsEnd`).
  `EarlierIsFewer` says that an earlier valuation is not refused if the present
  one is not, and `ChangesAreExact` follows.
* **SumProofs**. `SumFunctionOnSet` of the community modules adds up in the
  order of a `CHOOSE`. That the function it chooses exists, and is the only one,
  is shown by induction over the subsets of a finite set (`SubsetInduction`, by a
  least counterexample in a well-founded order, because an induction theorem with
  an operator as its parameter cannot be used); from it that the order does not
  matter (`SumOne`), and that a sum is the sum of the sums of its parts
  (`SumOfParts`), of its image (`SumOfImage`) and of its multiples (`SumTimes`).
  `LoopExists` says that a recursive function over rounds has the values its
  rounds give it, and `RanksInOrder` that the members of a finite set of integers
  can be numbered in order, on which `Ascending` and the pages of `RestApi` rest.

Assumptions: the named `ASSUME`s of the modules (sizes are positive, special
values are no members, users, accounts, trades, keys and subscribers are finitely
many where a sum or a count is over them; what can be asked for are lists of
users and dates; the shares of an instrument are finitely many pairs; a trade's user
is the owner of its account, which both writers of trades keep and no constraint
enforces); TLC evaluates each.

Only model-checked: liveness (`DroppedReceiversReclaimed`, the two
`EventuallyFresh`, `StreamsAgain`, `StopReturns`), which the prover cannot do.
Every invariant that a run checks is proved.

## 7. Plan

The order was: the registry, the cache, the dispatcher and CDC, because
everything the console shows depends on them; the sessions, the simulator,
lockout and API keys; the calculations over market data and trades; the
replication client; the routes; and the proofs, module by module, after TLC had
agreed to what they state. What would come next:

1. The safety facts the liveness properties rest on, as theorems: that what is
   owed always has a step that brings it nearer (a shutdown drains, a reconnect
   finds its slot), although the step that needs fairness stays with TLC.
2. `RestApi` on organisations that are created and deleted, once there are routes
   for that.

## 8. What is not modelled, and why

* Bytes, SCRAM, MD5, JWT, Argon2 and HMAC: parsing and cryptography behind
  libraries. `Replication` and `Sessions` take their outcome.
* The rate limiter is a crate's.
* Volatility is statistics on floating-point numbers over one range of a series;
  the range itself is `ReadsAgree`'s.
* Values are never floating-point numbers here: the modules of events depend on
  their equality only, and `Portfolio` and `RestApi` use integers, so that
  rounding is outside the models. Sums of the market in `data_stats` are left out.
* The bindings repeat login and rotation of `routes/auth.rs` on the same tables;
  `Sessions` has the one difference between the two (`GraceUnasked`). Their other
  classes convert values.
* `delete_user` fails for a user with accounts or with trades, which are of those
  accounts (`TradeOwnerAssumption`); credentials and refresh tokens go with the user
  (`ondelete="CASCADE"`, `models.py:141`) and are no tables of `RestApi`.
* The AI service, tools, benchmarks and the console's pages hold no protocol of
  their own beyond what is modelled. The schema is the tables of the models, its
  migrations are `DropColumn` and the replica identities of `Replication`.
