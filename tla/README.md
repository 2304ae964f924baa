# Shani: a TLA+ model of the event pipeline and of the services around it

This directory models Shani, an options-pricing and alerting backend with a research
pipeline: the durable event pipeline between its processes, the alert rules evaluated on
it, the read models and what the API answers from them, the WebSocket hub, the Redis locks
and slots with which several workers agree on who does what, the market sources, the
shared clients, the migrations, and the backtests with the data they are run on. TLC
checks the models on small instances; TLAPS proves the safety properties of all of them for every
instance (but for half of one, section 6), and that the stream implements at-least-once delivery.

Paths below are relative to `src/`.

## 1. The system

Several operating-system processes, most of them single-threaded `asyncio` loops, share
one Redis and one TimescaleDB. They are started and restarted by supervisord
(`docker/supervisord.conf`).

| process | what it runs |
|---|---|
| API workers (uvicorn, several) | REST routers, the WebSocket hub and its polling loop |
| Celery worker and beat | `fetch_and_publish_options`, `fetch_and_publish_price`, scheduled jobs |
| pricing subscriber | durable consumer of `options.raw_fetched`; prices a chain, publishes `options.priced` |
| alert subscriber | durable consumer of `options.priced`; evaluates alert rules |
| Redis | streams, consumer groups, pub/sub channels, read models, locks, slots, token cache |
| TimescaleDB | alert rules, notification logs, ticks, historical prices |

The route of a market change: a viewer connects to the hub -> the polling loop of that
worker claims the poll slot and dispatches a Celery task -> the task fetches the chain
and, if it changed, appends it to a stream -> the pricing subscriber prices it, stores
the read model, appends to the next stream and publishes to a pub/sub channel -> the hub's
listener pushes it to every socket watching the symbol; the alert subscriber matches it
against the rules, and what fires is dispatched to WebSocket, webhook and e-mail.

### Components

**Durable event stream** (`shared/infrastructure/event_bus/streams.py`, `consumer.py`).
State: a Redis stream, its consumer group (last-delivered-id, pending entries list with
idle times), a dead-letter stream; per consumer the loop position, the batch in hand and
the time of the last claim. Operations: publish (XADD with MAXLEN), ensure_group,
read_group, claim_stale, ack, retry_or_dead_letter, and the loop that combines them.
Hard: crashes between handler and ack, a handler slower than the claim time, lost
replies, trimming, a Redis restart. Correct when: no message is silently lost, retries are
not used up by anything but failures, work is repeated only after a fault.

**Alert evaluation** (`domains/notifications`: application service, matcher, repository,
API, subscriber). State: one row per rule (active, last_condition_met, last_triggered_at);
per evaluator the event it handles, its `now`, the rules fetched and not yet matched.
Operations: create, delete, evaluate_tick_event with the conditional UPDATE
(`try_transition`), dispatch, log. Hard: two evaluators on one rule, a stale `now`, a
failure between two of transition / dispatch / log. Correct when: a recorded crossing is
alerted, the cooldown holds between any two alerts, the stored state follows the verdicts.

**Alert delivery** (`domains/notifications/infrastructure/channels`). State: position in
the rule's channel list, attempts of a webhook, error details. Hard: a channel fails or
raises in the middle; a request times out after the receiver took it. Correct when: what
is reported as delivered was delivered, every channel is tried, copies are bounded.

**Read model** (`domains/ingestion/tasks/market_tasks.py`,
`domains/analytics/infrastructure/options_subscriber.py`). State: the Redis keys
`market:options`, `market:options:hash`, `market:options:priced` with their TTLs; tasks
in flight. Hard: overlapping tasks store out of order; an unchanged chain is skipped by
its hash, so the hash must not outlive what it stands for. Correct when: the priced chain
does not expire under viewers and follows the market in bounded time.

**WebSocket hub** (`domains/analytics/api/events_router_api.py`). State: `_Connections`
with a bounded queue, idle time and user per socket; the listener, cleanup and polling
tasks. Operations: connect, disconnect, receive, authenticate, broadcast, send, evict
slow and idle sockets, start and stop the background tasks. Hard: every `await` is a point
at which a socket may be removed by another task; the last disconnect cancels tasks that
may be in the middle of one. Correct when: per-socket order is kept, registered sockets
are served, an alert reaches only its owner, nothing runs without viewers.

**Poll slot** (same file, `_polling_loop`, `_claim_poll_slot`). State: `last_poll` of each
worker, the Redis slot with its expiry. Operations: claim the slot (an awaited `SET NX PX`), then
dispatch. Hard: two workers at the same instant; a loser that counts the interval as polled; a loop
that is cancelled between the claim and the dispatch, which burns the slot. Correct when: one
dispatch per slot life, and viewers are polled in bounded time.

**Single-flight live fetch** (`domains/analytics/api/pricer_router_api.py`). State: cached
chain, lock key, where each request is. Hard: the lock has no owner token; holders die or
overrun its TTL. Correct when: one holder unless a TTL was overrun, nobody deletes
another's lock, every request is answered.

**Dashboard** (`frontend/app.js`). State: the symbol shown with its price, price clock,
chain, list of expiries and selected expiry; the number of the last load; requests under
way; the technicals panel; the WebSocket, its heartbeat and its reconnection timers. Hard:
answers and messages come in any order, a timer fires after the symbol changed, a callback
goes on after its await when its socket is no longer current. Correct when: what is
on the screen is of one symbol and of the last one asked for, prices do not go back, and a
socket of the symbol shown exists or will be opened.

**Market-data adapters and price ingestion** (`domains/ingestion`). State: the Groww login
token in memory and in Redis; the expiries of a day and the dividend yield in Redis, Yahoo's
`info` in the process; the session cookies of the proxy's shared client. Operations:
`_get_token`; a price or a chain from Groww, then the exchange, then Yahoo, and its storing;
GET `/options/{symbol}` with its refreshes. Hard: adapters of several processes log in at
once; a source fails in the middle of a chain; caches of a day are read around midnight; a
refresh clears the cookies under other requests. Correct when: logins are spaced, a call
ends with nothing only after every source refused or one answered with expiries and no row, no
expiry of the past is stored, nobody gets an error without a cause.

**Symbol catalogue** (`instruments_loader.py`, `symbol_validator.py`). State: the list with
its flag, the bounded cache of verdicts. Hard: lookups on threads while the list is being
loaded; negative verdicts live for a day. Correct when: a listed symbol is only held for
invalid if the catalogue missed it and Yahoo had nothing of it (a name with `&` or `-` is not asked
about: the catalogue alone decides), and the cache keeps to its size.

**Shared clients** (`shared/infrastructure/database.py`, `redis_client.py`). State: a pool and
a client per event loop, their locks. Hard: a shutdown while a creation or a ping is
awaited. Correct when: no pool is left open that nobody knows, one task pings at a time, a
closed client stays closed unless somebody had it in hand.

**Derivatives and analytics API** (`pricer_router_api.py`, `derivatives_router_api.py`,
`export_research_api.py`, `historical_research_exporter.py`). State: what the caches hold,
the request under way; for an export the period, the bars and the sheets. Hard: an answer
mixes values read at several times; an expiry settles while its chain is cached; a failure
may be cached; midnight passes between the check of a period and its download. Correct when:
an answer is of its time, failures are not kept, a workbook covers its period and knows no
future.

**Database migrations** (`scripts/migrate.py`). State: the scripts, the rows of
`schema_migrations`, an open transaction per runner. Hard: overlapping runners, crashes.
Correct when: a script is applied once, or not at all.

**Research pipeline** (`research/`). State: of a backtest, a position, a pending signal, the
equity and the trades of the executor, and the engine's cash, marks and open trades; of the
data, one file a day, the panels and the two files a study loads. Hard: gaps, rolls and
expiries while a position is held; costs by halves; partial files, refused days, a rebuild
that dies. Correct when: trades are priced by their own contract and none is lost, curve and
book agree, a gap has a failure behind it, a study is of one build.

**Frontend beyond the dashboard, authentication and middleware, historical prices, pricing
mathematics, configuration, laboratory**: not modelled; section 7 has the reasons.

## 2. Plan

In order of importance to the system, all written:

1. `DurableStream`, with the abstract `AtLeastOnce`; `DurableStreamProofs`.
2. `AlertEvaluation` with `AlertEvaluationProofs`, and `AlertDelivery`, on top of what 1 promises.
3. `ReadModel`; `ReadApi` for what is read from it.
4. `WsHub` with `WsHubProofs`, `PollSlot`, `SingleFlight` and `NseProxy` with `RequestsProofs`.
5. `Dashboard`, `TabSocket`, `GrowwToken`, `MarketSource`; `ServicesProofs` is about the first
   three, `PollSlot`, `AlertDelivery` and `ReadModel`.
6. `SymbolCatalog`, `DatabasePool`, `RedisClient`, `ResearchExport`, `Migrations`: components that
   stand alone, with `ClientsProofs`.
7. `Backtest` with `BacktestProofs`; `HistoricalDataset`, which shares `SourcesProofs` with
   `MarketSource` and `ReadApi`.

What could follow: the rest of the frontend (suggestions, the list of alerts). No module uses a RECURSIVE operator.

Composition: `AlertEvaluation` and `ReadModel` contain the queue behaviour that
`DurableStream` establishes (ordered first delivery, redelivery of what was not
acknowledged, a copy at the tail for a retry) instead of its Redis commands;
`DurableStream` instantiates `AtLeastOnce`; `AlertEvaluation`'s Dispatch is one step whose
inside is `AlertDelivery`; `ReadModel` assumes one poll per interval, which is what
`PollSlot` is about; `WsHub` starts and stops the polling loop that `PollSlot` runs;
`TabSocket` is the other end of one of its sockets, and `Dashboard` relies on what
`TabSocket` keeps: a socket, if there is one, is of the symbol shown. `ReadApi` has what the
fetch of `SingleFlight` stores and returns, and what the ticker says of it; `MarketSource` is
one such fetch, with a token from `GrowwToken`; `Backtest` runs on the panels that
`HistoricalDataset` builds. `MCServices`, `MCRequests` and `MCDataPaths` are unions of modules
that do not interact while they run: `part` (in `MCRequests`, whose requests are over) chooses
one in the initial state and the others keep theirs, so that a union has the sum of the state
spaces and not their product.

## 3. Modules

### DurableStream

One stream, one group, the processes that run `run_durable_consumer` on it; the pricing
and the alert subscriber are two instances.

| model | code |
|---|---|
| `log`, `trimmed` | the stream: entries are never removed from `log`, those at or below `trimmed` are gone from Redis |
| `group`, `base`, `cursor` | the group: exists, `$` at its creation, last-delivered-id |
| `pel`, `stale` | pending entries, and those idle for `min_idle_ms` |
| `dlq` | the dead-letter stream |
| `pc`, `batch`, `current`, `claimDue` | each consumer's place in the loop |
| `handled`, `failures`, `faults` | history, read by properties only |
| `Publish` | `DurableEventStream.publish` (XADD, MAXLEN ~) |
| `Start` | process start and `ensure_group` |
| `ClaimTimer`, `Claim`, `Read` | the head of the loop: `claim_stale` when due, then `read_group` |
| `ClaimError`, `ReadError` | either raises, with the command executed or not; what was claimed in this pass is dropped |
| `HandleOk`, `HandleFail` | the handler returns or raises |
| `Requeue`, `DeadLetter` | `retry_or_dead_letter` before its ack |
| `Ack` | XACK after either |
| `Crash`, `Expire`, `Wipe` | process death, time, Redis restarting from an old snapshot |

A Redis error inside `ack` or `retry_or_dead_letter` is not caught by the loop, so the
process ends: that is `Crash` at that point. XADD's `MAXLEN ~` may or may not trim, hence
the choice in `Xadd`.

### AtLeastOnce

What a stream promises for a message: it stays open until handled, dead-lettered or waived
(trimmed, or older than the group). `ImplementsAtLeastOnce` is the refinement; the mapping
(`ALO`) folds all entries of a message into its status.

### AlertEvaluation

| model | code |
|---|---|
| `row` | `AlertRules`: `is_active`, `last_condition_met`, `last_triggered_at` |
| `queue`, `cursor`, `orphans` | the stream, as `DurableStream` establishes it |
| `stage`, `entry`, `now`, `todo`, `firing` | `evaluate_tick_event` of each evaluator |
| `Match`, `Holds`, `Value` | `RuleMatcherDomainService.match` |
| `Accepts`, `Moved` | WHERE and SET of `try_transition`, one atomic UPDATE |
| `Create`, `Delete`, `Publish` | the API and the pricing subscriber |
| `Fetch`, `Skip`, `Transition`, `Dispatch`, `Log`, `Retry`, `Ack` | the handler, one action per await |
| `FetchFails`, `TransitionFails`, `LogFails` | the database raises; the UPDATE may have been committed |

The matcher works on integers: the comparison operators are the code's, the values are
model inputs. Rules of one symbol only, since events of one symbol are all a rule sees.

### AlertDelivery

`channels`, `next`, `attempt`, `errors`, `status` are the locals of the dispatch loop and
of the webhook adapter; `reached` and `copies` are history. Each channel's outcomes are
actions: `Refuse` (no usable destination), `PostAccepted`, `PostRejected` (4xx, no retry),
`PostFails` (5xx, 429, transport error), `SendAccepted`, `SendFails`, `WebSocket`. The other
side may take a message whose answer is lost.

### ReadModel

`raw`, `hash`, `hashLife`, `priced`, `life` are the three keys and their TTLs; `stage`,
`fetched`, `age` the Celery tasks; `stream`, `pricing`, `effort` the pricing subscriber. Each
task step is an action in the order of `fetch_and_publish_options`. A chain is the market's
version when it was fetched: equal versions have equal digests. Time is the poll interval.

### WsHub

| model | code |
|---|---|
| `ws`, `endpoint`, `token` | the socket and `websocket_endpoint` |
| `sender`, `sending`, `queue`, `dropped` | `_sender_loop` and the bounded client queue |
| `conns`, `idle`, `user` | `_Connections` and the client records |
| `listener`, `cleanup`, `stale`, `closing` | the manager's tasks, and disconnects in progress |
| `Remove`, `Stop`, `FinishDisconnect` | `disconnect`: the part under `_Lock`, the stop of idle background tasks, the close after the lock |
| `Broadcast`, `Addressed`, `Enqueued` | the fan-out, the owner filter of alerts, drop-oldest |
| `Scan`, `Evict` | `_cleanup_loop` and the eviction of slow clients |

What runs under `_Lock` without an await is one step; each await is a step boundary. When a
background task removes the last socket, `_stop_background_tasks_if_idle_locked` does not
cancel the task it runs in, which goes on with its list while the manager has forgotten it:
the `"detached"` and `"close"` members of `Tasks`.

### PollSlot

| model | code |
|---|---|
| `loop` | where `_polling_loop` is: between two passes (`"asleep"`), its `SET NX` on the way (`"asking"`), executed by Redis and not yet answered (`"claimed"`, `"refused"`), or not running |
| `since`, `sleep`, `slot` | timers: since the pass that set `last_poll`, until the loop goes on, what is left of the px |
| `Ask`, `Claim`, `Refuse` | `_claim_poll_slot` sends the command; Redis executes it |
| `Poll`, `Lose`, `PollAnyway`, `DispatchFails` | what follows its answer: `delay()`, nothing, a poll without a slot since Redis failed, a `delay()` that raises |
| `Start`, `Leave`, `Stop` | the first viewer of the symbol comes to a worker (a loop that runs for other symbols goes on with its `last_poll`), the last one leaves and others stay, the last viewer of the worker leaves or the worker dies |

`Stop` cancels the loop wherever it is. Between the `SET` and the dispatch the slot stays claimed
and nobody polls: `burnt` counts these. `unserved` is how long the viewers of each worker have waited.
The px is slightly under the interval as in the code.

### SingleFlight

`pc`, `late`, `holds`, `found` of each request; the lock key's value is constant in the code,
so `lock` names who set it only for the properties. A request that does not get the lock
fetches all the same, and Redis errors on the way lead to a fetch, as in the code.

### Dashboard

| model | code |
|---|---|
| `symbol`, `spot`, `clock`, `chain`, `expiry` | `appState`: `symbol`, `marketSpot`, `lastPriceUpdated`, `optionChains` with `expiryDates`, `selectedExpiry` |
| `seq`, `loads` | `tickerRequestSeq` and the `fetchTickerData` calls under way, before (`body` false) and after their first await |
| `refreshes`, `lookups` | `fetchTickerDataBackground` and `fetchAndRenderTechnicals` calls under way, by symbol |
| `panel` | the technicals panel: its label and whose data it shows |

Code between two awaits is one action. `Show` is the rest of `fetchTickerData` after its
last check, with the technicals it starts and the socket it switches. A price or chain
carries only its symbol and time. `wanted` and `failed` are history.

### TabSocket

`socket` is `currentSocket` with `activeSocketSymbol`; `greeting` the sockets whose `onopen`
awaits `authHeaders`; `heartbeat` the socket `wsHeartbeatTimer` belongs to; `timers` the
`setTimeout`s of `onclose`. `Show` is the switch at the end of a load, `Close` an `onclose` of the
current socket; those of others do nothing in the code and have no action.

### GrowwToken

`own` is `_access_token` of each adapter, `cached` and `end` the Redis key with its expiry;
`stage`, `since`, `token`, `ttl` each call of `_get_token`, whose awaits (GET, the login in a
thread, SET) are its stages. A token is the time at which it expires. `Tick` lets no call
wait longer than `Delay`.

### MarketSource

`req` is the call under way: where it is (`pc`), the expiries to fetch (`list`), the rows so far,
whether there is a spot, whether the chain had expiries and not one row (`bare`), the retries after
a 401 (`refused`) and who failed; `expiryCache`,
`yieldCache` and `infoCache` are the three caches, `stored` what the last call wrote. The
actions are the awaits of `fetch_price` and `fetch_option_chain` of the Groww and of the NSE
adapter, in order: `GetToken`, `ReadExpiries` (the cache, or the fallback's list), `Quote`,
`Dividend`, `GrowwChain`, `NseInfo`, `NseChain`, `YahooChain`, `YahooPrice`, `Store`. Each may
fail, and then continues where the code's `except` does. The web site's chain is used as soon as one
expiry is named in it, although every leg of it may have been filtered out: then the answer is bare
and Yahoo is not asked. Time is in parts of a day.

### NseProxy

Each request's place (`at`), attempt and the cookies it was sent with; `cookies`, `locked`,
`recent` (the five seconds after a refresh) are the globals of the module. `Enter` is
`refresh_nse_cookies` behind its lock: the return within five seconds, or the clearing of the
cookies. `RefreshFails` logs and counts as a refresh, as in the code. `excused` is history: what
may refuse a request.

### SymbolCatalog

`loading`, `loaded`, `known` are the lock, the flag and the set of the catalogue, which
`SetLoaded` and `SetSymbols` assign one after the other; `entries` is `_ttl_cached`'s dictionary in
its order, `thread` the lookups: `ReadCache`, `AskCatalogue` (which may load), `AskYahoo`, `Keep`.
`Plain` are the names that pass `isalnum()` or end in `.NS` or `.BO`; any other that the catalogue
does not have is rejected in `AskYahoo` without a request, and the rejection is kept.

### DatabasePool and RedisClient

`registered`/`mine` is the entry of the loop in the module's dictionary, `open`/`connected` what has
connections, `turn` and the stages of `caller` the locks. `Close`/`Pop` and `Closed`/`Disconnect` are
the two halves of a shutdown around its await. A Redis client connects again when it is used
after `aclose`; `outlived` records those that a task had in hand when they were closed.

### ReadApi

The keys of Redis hold a value with the time it is from and the time it lives until; `ask` is a
request of one of three endpoints, one await a step, and `reply` what the last step answered.
The writers (`PollChain`, `PollPrice`, `StorePriced`) act between any two steps; a priced chain
was stamped up to `Lag` before its SET. `Fetch` is
`_live_fetch`, whose chain without a spot asks for the quote; `Volatility`, `ReadHistory` and
`Download` are the caches of what Yahoo told. A contract is the time at which it settles.

### ResearchExport

`Ask` checks the period on the day of the request, `Fetch` clamps it on the day of the download;
`Write` makes the sheets of the next trading day. A sheet is what its numbers come from: the
window of closes, the spot, the strikes and what is coloured. `Rounded`, `Interval`, `Strikes`
and `AtTheMoney` are the code's arithmetic, with Python's rounding of halves to even.

### Migrations

`Begin` reads the rows and lists the scripts; `Execute`, `Record` and `Commit` are one script's
transaction, `Fail` any error or crash, which rolls it back. `Record` waits for, and fails on,
the row of another open transaction, which is what the primary key does.

### Backtest

| model | code |
|---|---|
| `robust` | the locals of `RobustBacktestStrategy.generate_trades`: position, pending signal, equity, trades |
| `legacy` | the same of the classes of `strategies.py` and of `run_phase1_experiments.py` |
| `Bar` | one iteration of both loops: `Filled`, `Managed`, `Signalled`; `RetailBar`, `MispricingBar`, `UpgradedBar` |
| `fund`, `Account` | `calculate_portfolio_metrics`, a date a step |
| `RoundTrip`, `SttRate` | the friction model in integers, without slippage beyond the spread |

What a day quotes is chosen in `Bar`; RSI, MACD and random draws choose among the options they
could. The model's fair value is one word of a quote. `BridgeAgrees` compares the two executors.

### HistoricalDataset

`file` is the archive of each day, `busy` the threads of the downloader, `panel` and `chain` what is
built, `saved` the files, `study` what was loaded from them. Three jobs write: `all`, `collect` and
`cache`, one at a time. A write is two steps; `Crash` between them leaves part of a file.

## 4. Runs

| run | what it asks | instance |
|---|---|---|
| `durable_stream` | safety of the stream: no loss, retries earned, duplicates only after faults | 2 messages, 2 consumers, 1 retry, batches of 2, 1 crash, 1 overrun |
| `durable_live` | under every kind of fault, with trimming: the refinement, and eventual settlement | 1 message, 2 consumers, one crash, overrun, command error and Redis restart, MAXLEN 1 |
| `durable_wipe` | *violation*: consumption after a Redis restart | 1 message, 1 consumer, 1 restart |
| `alert_evaluation` | alerts against transitions, cooldown, stored state | 1 rule, 2 evaluators, 3 events, 1 fault, 2 clock ticks |
| `alerts_redelivery` | *violation*: no event is alerted twice | the same |
| `ws_hub` | order, registration, life of the background tasks | 2 sockets, queues of 1, 3 messages, 1 Redis error |
| `ws_live` | privacy of alerts, delivery to those who stay | 2 sockets, 1 message of either kind, 1 authentication |
| `ws_zombie` | *violation*: a socket whose sender ended is closed | 1 socket, 1 message |
| `requests` | single flight and the exchange proxy: foreign release, causes of errors, every request answered | 3 requests, 2 faults of any kind; 2 requests, 1 fault |
| `services` | read model, poll slot, alert delivery, dashboard, its socket and the Groww token | see below |
| `data_paths` | backtests and data, market sources, catalogue, clients, export, read endpoints, migrations | see below |
| `readmodel_stale` | *violation*: the priced chain never expires under viewers | 2 tasks, 1 failure |

**Why the bounds are enough.** Two consumers or evaluators are the fewest for a claim to
take an entry from somebody who still works; one crash and one overrun are the faults
that repeat work, and the properties count them. One retry makes both branches of
`retry_or_dead_letter` reachable. A batch of two lets one entry wait while the other is
handled; a claim count of one makes a second claim necessary. `MaxLen` 1 with a retried
message trims the original. Three events are what it takes to fire, re-arm and fire again,
and two ticks let a cooldown of one second pass or not. A queue of one with one drop
allowed reaches both drop-oldest and eviction in three messages. Three requests are a
holder, a waiter and one that comes after the lock changed hands; two at the proxy are one
that refreshes and one whose cookies go.

*services.* In the read model the TTL ratio (priced 8, hash 4, against a poll interval of 1)
keeps the code's "half"; in the poll slot interval 5, px 4, a pass of the loop every 1 (or 2, when
late), a claim answered at once or 1 later keep the order of the code's constants, and one failure
and one burnt slot each cost one more wait; channel lists of up to three contain every pair
and a repetition. Two versions of the market are what it takes to store an old chain over a new
one. Two symbols and three loads or switches go from one symbol to the other and back, with one
refresh and one lookup of each late. A token life of 6 with a margin of 2 and a delay of 1 keeps
life > margin > delay, and seven seconds contain two logins of one caller.

*data_paths.* The backtests have five studies on three calendars: two expiries that overlap with
an early end of the first listing and a roll of the signal; a holiday in the panel; one expiry a
day as in the original panels, where corrected and original executors are compared with and
without the lag. Seven bars with a holding period of three make two trades in a row; the prices
reach the stop, the target, mean reversion and what the capital cannot buy. Three days, the
second without an archive, two threads and three jobs with two faults let a job meet what
another left. In the market four parts of two days contain a midnight, and three expiries one
more than is fetched. Three threads at a pool, three pools, two tasks at a Redis client, two
clients and four seconds with a backoff of two suffice for a shutdown under a creation, a waiter
and a second ping. Three names, one with a hyphen, on a cache of one entry evict each other. An export has five
periods (past, one of a past and a present day, to come, upside down, too wide) on two
histories whose prices sit at the edges of the strike intervals and between two strikes. The
TTLs of the read endpoints, of one or two minutes in four, let every cache expire under a
request, a stamp two minutes before its SET lets a priced chain be served as stale, and expiries
settle at one and three. Two runners with three scripts and four runs
crash, retry and find a script that was shipped between them.

**Symmetry** is used in runs without a liveness property, over consumers, evaluators,
tasks and clients, none of which is named in the instance or ordered by the code.

**Deadlock** is not checked: every bounded behaviour ends when its messages, events and
faults are used up, and the services wait for ever when nobody uses them.

### Fairness

- *Stream* (`DurableStream!Fairness`): supervisord restarts consumers (`autorestart=true`);
  the loop of a live one takes its next step, the handler ends since everything it awaits
  has a timeout, and an entry nobody holds becomes idle with time. Nothing obliges
  producers to publish, and no fault is fair. Budgets make crashes finite, without which
  no consumer need ever finish.
- *Hub*: the event loop runs every task that can go on, `send_json` ends within its
  timeout, a closed socket's `receive` raises. Clients, producers and Redis owe nothing.
- *Single flight*: a worker goes on with its requests, and the deadline of a wait passes.
- *Proxy*: the event loop runs every request that can go on, its HTTP client has a timeout,
  and `asyncio.Lock` wakes its waiters in turn. The failure of a refresh is not fair.

All of it is weak fairness. `EventuallySettled` needs no strong fairness because a consumer
that can claim or read stays able to until it does; at the proxy a lock is free often enough
for a waiter, since nobody asks for a refresh more than a bounded number of times.

## 5. What the checks show

Holding on the instances above: the stream loses nothing but to trimming, to history older
than the group or to a Redis restart; a dead letter means `max_retries + 1` handler
failures, not crashes or claims; a message is finished twice only after a crash or an
overrun. Alerts are lost or repeated only by
faults, each of which accounts for one; the cooldown holds whichever evaluators sent
the alerts, because the UPDATE compares with its own `now`. Sockets receive in order
without repetition; no task survives the last viewer; alerts go to sockets that
authenticated as their owner. A poll slot is dispatched once per life, less what a claim takes to be
dispatched; viewers wait at most `Ttl + Interval + Period + 3 * Delay`, and once more for each
failure and for each slot that a cancelled loop burnt. A tab never mixes two symbols and ends on the last
one asked for; older prices do not replace newer ones unless the user loads a symbol; a lost
socket is always replaced. A caller logs in to Groww again only within `Margin + Delay` of
the expiry of its last token, although concurrent logins are not prevented.

A call for a chain or a price comes home empty only after every source it may use refused it, or,
for a chain, after a fallback answered with expiries and no row; a chain never has an expiry before the day of its call; a yield that was not told is given up
within two days, the two caches taken together (`MarketIsTold`). A 500 of the proxy has a fault, a
failed refresh or cleared cookies behind it. A listed symbol is pinned invalid only when the catalogue
missed it *and* Yahoo had nothing of it, or it is one Yahoo is not asked about (`VerdictsAreSound`).
A shutdown forgets no pool;
a Redis client that it closed is connected again only by a task that had it in hand. What an
answer says is no older than the caches allow, is about a contract that has not settled while
another has not, and repeats no failure that is over (`AnswersAreOfNow`). A workbook has every day
of its period once, without lookahead. A migration is applied once, and a runner that reports
success left nothing of what it found.

In the corrected backtest every trade is priced by its own contract, is closed before its expiry
and before its contract leaves the listing, and none is lost at the end; the equity curve meets
the book whenever nothing is open. The executor in legacy mode trades exactly as the original
classes do, except on a day whose signal the capital cannot pay. A day is missing from a panel
only after a failed request for it, the rebuild from the cache is stopped only by a file that a
crash or a failed write left, and a study loads two files of one build unless a rebuild died
between them.

### Findings

1. `durable_wipe` - `run_durable_consumer` creates its group before the loop only. After a
   Redis restart that lost the group every read raises NOGROUP, the loop logs and retries,
   and nothing published later is handled until the process is restarted.
2. `alerts_redelivery` - an event whose log insert failed after its dispatch is retried
   behind newer events; if one of them re-armed the rule and the cooldown is over, the same
   event is alerted again. The subscriber's comment says redelivery is safe.
3. `readmodel_stale` - the hash is stored before the fetch of the price, the COPY and the
   publish; when one fails, later polls find "no change" and skip pricing until the hash
   expires, and the priced chain may expire first.
4. `ws_zombie` - a sender that timed out removes its socket without closing it; the socket
   stays open, answers pings and receives nothing.

Disagreements between code and comments seen while modelling, which have no run of
their own because the model already contains the code's behaviour:

- `evaluate_alerts_service.py:52`: a crash after `try_transition` and before the dispatch
  loses that alert (counted by `LostAlertsNeedFaults`, a part of `AlertsFollowTransitions`), although :25 calls it at-least-once.
- `alert_repository.py:135`: a crossing inside the cooldown leaves FALSE stored, so a
  condition that stays true fires when the cooldown ends (`StateIsLastVerdict` has the
  exception); `docs/api.md:67` describes crossings only.
- `event_bus/__init__.py:39`: a failed publish returns 0 and the WebSocket channel reports
  success. `SuccessIsReal`, a part of `DeliveryIsHonest`, is about the other channels.
- `events_router_api.py:398`: caps are checked before `accept` is awaited, so simultaneous
  connects can exceed them; no property claims the caps.
- `events_router_api.py:347`: a worker that loses the slot waits a full interval. Hence
  `LongestWait` is nearly two intervals, not one as `docs/architecture.md:243` suggests.
- `events_router_api.py:73`: the claim of a slot is awaited, so a loop cancelled by its last viewer,
  or a worker that dies, may leave the slot claimed with nothing dispatched (`burnt`); the viewers of
  other workers wait for its px to run out.
- `nse_api_adapter.py:292`: a chain whose expiries are named with no row left after the filter is
  returned empty, and Yahoo is not asked (`bare`).
- `symbol_validator.py:133`: a name such as `M&M` or `BAJAJ-AUTO` that is looked up while the
  catalogue has not loaded is rejected for a day without a question to Yahoo (`Plain`).
- `pricer_router_api.py:161`: a request without the lock fetches anyway.
- `market_tasks.py:59` says "single writer" of a key that `pricer_router_api.py:121` writes too;
  the price-only fallback of `_live_fetch` (:108) stores an empty chain there.
- `frontend/app.js:686`: the `onopen` of a socket that was replaced while it awaited
  `authHeaders` stops the heartbeat of the current socket and sets one that pings a closed
  socket, so the idle sweep of the hub will close the tab's socket (`Greeted`); :643 says it never
  does. It is then opened again.
- `frontend/app.js:2101`: technicals of an earlier symbol that arrive last stay on the panel
  under the label of the symbol shown (`LookUpShown`): their answers are compared with nothing.
- `groww_api_adapter.py:304`: a failed dividend-yield lookup is cached as 0.0 for a day, and from
  a process whose `info` cache is a day old for up to two (`YieldIsRecent`).
- `instruments_loader.py:192`: `_loaded` is set before `_symbol_set`, so a lookup in between finds
  nothing (`unseen`).
- `redis_client.py:85`: a task that waits for the ping of a popped client connects it again after
  the shutdown closed it (`outlived`).
- `historical_research_exporter.py:79`: an export for a period that has not begun delivers the
  week before today, under the name of the period asked for (`CoversThePeriod`); a bar without a
  close fails the whole export (`RefusalsAreMeant`).
- `derivatives_router_api.py:132`: the `stale` flag is true only for a chain whose SET came late after
  its stamp (`options_subscriber.py:184`), since the key it is computed from expires at the age it is
  compared with (`AnswersAreRecent`).
- `migrate.py:71`: a script is skipped by its name; that its checksum changed is not noticed.

## 6. What is proved

Each proof module starts with the inductive invariant, then has lemmas about the operators of the
model, one lemma per action (or one per conjunct and action where an action disturbs several),
and ends with its theorems. All theorems hold for every value of the constants that the assumption
named in the model's module allows (`ConstantsAssumption`, `ServicesAssumption`, `ProxyAssumption`,
`PathsAssumption`), which TLC evaluates for the instance of every run. Three theorems have a further
hypothesis, which is part of their statement and is explained below.

### The stream

`DurableStreamProofs`, for every set of messages and consumers, retries and budgets natural
numbers, batch, claim count and MAXLEN positive:

| theorem | statement |
|---|---|
| `TypeCorrect` | `Spec => []TypeOK` |
| `NoLoss` | `Spec => []NoSilentLoss` |
| `DeadLetterTheorem` | `Spec => []DeadLetterAfterAllRetries` |
| `DuplicatesTheorem` | `Spec => []DuplicatesNeedFaults` |
| `RefinementTheorem` | `Spec => ImplementsAtLeastOnce` |

**No loss.** `NoSilentLoss` is about messages and is not inductive: when an entry is
acknowledged the message must be safe for another reason. `LossInv` strengthens it to
entries: every entry is outstanding (undelivered or pending) or covered - its message
was handled or dead-lettered, was waived, or has a later entry (`Accounted`); and a consumer about
to acknowledge holds a covered entry (`AckSafe`), because `HandleOk`, `Requeue` and
`DeadLetter` each cover it before `pc` becomes `"ack"`. That is the design rule of `consumer.py`, ack last.
`LossInvImplies` goes back to messages: the last entry of a message cannot be covered by
a later one, so it is outstanding or the message is settled (`LastEntry`, by well-founded
choice of the greatest position).

**Dead letters.** `RetryInv` adds that an entry's retry count was earned by that many
failures of its message (`RetriesEarned`), and that a consumer in stage `"failed"` has seen
one more than its entry says (`FailureSeen`). Then the dead letter of an entry with
`retry = MaxRetries` has `MaxRetries + 1` failures.

**Duplicates.** How often a message was finished says nothing of how often it will be. What is
bounded is the sum of that and of its *chances* (`EndsLeft`): pairs of an entry of the message and of
who may still end it - a consumer that holds the entry and has not finished it (`InHand`), or nobody,
when the entry is undelivered, pending without a holder, or about to be (`Loose`). A claim of an
entry nobody holds moves a chance, a retry trades the entry for its copy, handling uses one up; only
a crash, which leaves a finished entry pending without a holder, and the expiry of an entry still in
work add one, and each adds one to the faults as well. `HandsOK` says who holds what.

**Refinement.** The mapping `ALO` folds all entries of a message into its status. From the
invariants above, `Publish` and `Requeue` map to `Enqueue` or stutter, `HandleOk` to
`Handle`, `DeadLetter` to `GiveUp`, `Ack` to `Close` or a stutter, `Start` (a group created behind
what is there), trimming and `Wipe` to `Waive`; every other action stutters. A close is allowed
because of `AckSafe`: this is where the abstract promise needs the order of `consumer.py`.

### Alerts

`AlertEvaluationProofs`, for every set of rules and evaluators and any number of events:

| theorem | statement |
|---|---|
| `TypeCorrect` | `Spec => []TypeOK` |
| `StateTheorem` | `Spec => []StateIsLastVerdict` |
| `CooldownTheorem` | `Spec => []CooldownRespected` |
| `AlertsTheorem` | `Spec => []AlertsFollowTransitions` |

`IInv` adds to the types what an evaluator has in hand (`HandOK`: one rule while it dispatches or
logs, which is not among those left to match) and what a row and its history agree on (`RulesOK`:
`last_triggered_at` is not before any transition). *Cooldown*: alerts are spaced because
transitions are (`Spaced`), and transitions are because the UPDATE compares with the row it changes;
`Matched` ties each alert, sent or in hand, to a transition of its own. *Lost alerts* (`LostOK`): the
transitions are at most the alerts sent, those in hand and the faults. *Repeated alerts*
(`RepeatsOK`) use chances again: the alerts of an event, the evaluators that may still alert on it and
the entries that may yet lead to one are together at most one more than the faults, although an
event that is put back gets an entry of its own.

### The hub

`WsHubProofs`, for every set of sockets, users and symbols and every queue size:

| theorem | statement |
|---|---|
| `TypeCorrect` | `Spec => []TypeOK` |
| `TasksFollowViewersTheorem` | `Spec => []TasksFollowViewers` |
| `InOrderTheorem` | `Spec => []InOrder` |
| `NoAlertToStrangerTheorem` | `Spec => []NoAlertToStranger` |

`JoinOK` says which places of the endpoint, the sender and the disconnects in progress go together:
a registered socket has joined, its endpoint is not over, its sender runs. It is what makes
`TasksInv` inductive, since the *last* disconnect stops the tasks and a disconnect of a socket that
is no longer registered must not count. *Order* is an order of three places and of what is to come
(`Ordered`): what was sent, what the sender holds, what is queued, and the last message heard.
*Alerts* (`AlertsOK`): what a socket carries is for a user it has been; the owner filter
looks at the user it is now, and the two differ when it authenticates again while a message waits.

### Requests

`RequestsProofs`, for any number of requests and faults:

| theorem | statement |
|---|---|
| `TypeCorrect` | `RequestsSpec => []RequestsTypeOK` |
| `OneHolderTheorem` | `RequestsSpec => []OneHolder` |
| `NoForeignReleaseTheorem` | `RequestsSpec => NoForeignRelease` |
| `ReasonsTheorem` | `RequestsSpec => []FailuresHaveReasons` |

`OneHolder` (at most one request works under the fetch lock, plus one per overrun of its TTL) is in
no configuration. It is not inductive: a lock that is not of a working request may be deleted and
taken. `HoldersCounted` counts it as a holder to come. `LockIsMine` is why a request that deletes
the key without looking deletes its own. *Reasons*: a request sent again after a refresh has its
reason or leaves with fresh cookies (`ReasonsOK`), which holds since the five seconds after a refresh
in which nobody refreshes begin with fresh cookies (`RecentIsFresh`), and only the holder of the lock
clears them (`PlacesOK`).

### Services

`ServicesProofs`, for every value of the constants of each service:

| theorem | statement |
|---|---|
| `TypeCorrect` | `ServicesSpec => []ServicesTypeOK` |
| `ViewersTheorem` | `ServicesSpec => []ViewersAreServed` |
| `DispatchTheorem` | `ServicesSpec => OneDispatchPerSlot` |
| `DeliveryTheorem` | `ServicesSpec => []DeliveryIsHonest` |
| `ScreenTheorem` | `ServicesSpec => []ScreenFollowsChoice` |
| `PriceTheorem` | `ServicesSpec => PriceMovesForward` |
| `TokenTheorem` | `ServicesSpec => []CachedTokenIsLive` |
| `SpacedTheorem` | `LoginDelay <= Margin` implies `ServicesSpec => LoginsAreSpaced` |

- *Poll slot.* The wait of viewers is bounded through what comes next (`Served`): the dispatch of a
  loop that has claimed the slot, the time until each worker's next attempt (`UntilAttempt`), and what
  is left of a slot nobody will dispatch plus one further interval for the worker it refuses. A claimed
  slot outlives the way to its dispatch, so one loop at a time holds it (`HeldOK`, `FlightOK`); if that loop is
  cancelled, `burnt` adds one to the limit. `SlotRecent` ties the slot to the time since the last dispatch.
- *Delivery.* Channels are tried in order (`TriedInOrder`): what lies ahead has sent nothing, the
  current one one request per attempt that failed.
- *Tab.* `LoadsOK`: the load of the last choice is under way, has failed or was shown, and it is the
  only one whose number is current. `SocketsCounted`: every socket was opened for a load or for a
  connection that was lost, and a tab without one has a loss that none was opened for yet.
- *Token.* `TokenTimes` bounds what a call has in hand by when it began to wait: the TTL it is to
  store was computed then. Hence Redis drops a token early enough before it expires (`StoredOK`).
- *Spaced logins.* `SpacedOK` says for each caller that logged in that it may do so again, or that
  Redis holds a token, not necessarily its own, which lives until it may; a token read or about to be
  stored is such a one too. `LoginDelay` is what a login or a command to Redis may take. If it
  exceeds the margin the property is false, as TLC shows for margin 1 and delay 3: a slow SET puts a
  token that has expired in place of a newer one, which a restarted adapter then looks for in vain.
  The margin is 60 seconds (`groww_api_adapter.py:23`); a command to
  Redis times out after 15 (`shared/infrastructure/redis_client.py:51`), and the login itself, one
  request in a thread, is assumed to take less than the margin.

### Read model

| theorem | statement |
|---|---|
| `FreshTheorem` | `Cycle <= PricedTtl /\ 2 * PricingTime < PricedTtl` implies `Spec => []FreshWithoutFailures` |
| `TimelyTheorem` | `Cycle <= PricedTtl /\ PricingTime = 1` implies `ServicesSpec => []ChainIsTimely` |

`ServicesProofs` proves these two as well. The first: without failures a priced chain
does not expire under viewers, while unchanged chains are not priced again. `FreshInv` follows the
next pricing (`PricedInTime`): its entry is being handled, waits for the subscriber, or will be
published by a task; or the hash, a poll without a hash or the task it started leads to one; each with
enough of the TTL left for what is still to do. `PollIsComing` rules out that nobody comes while
there is no hash. `Cycle` is that whole way, `HashTtl + 1 + 2 * TaskTime + PricingTime` in polls; the
second hypothesis is for an entry that waits behind another. In the code a priced chain lives for 120
seconds (`shared/constants.py:93`), its hash for 60 (`market_tasks.py:78`), and a poll comes every 15
(`app/config/settings.py:70`), which leaves 45 seconds, three polls, for two tasks and a pricing.

The second adds that the keys catch up with a market that stands still, after
`HashTtl + 4 * TaskTime + 1 + failures` polls at most, and each failure may cost that much again:
for any number of tasks that overlap, chains priced out of order and entries retried. `LagInv` has
two parts. `QueueOK` bounds what waits: every interval starts one task, so tasks at work have
different ages, and there are at most as many as a task may last (the pigeonhole principle); with
the entries of the stream and the poll still to be dispatched they are no more than the subscriber,
one entry per interval, works off in time; a failure may add one. `InTime` says that what is left
and the lag together are within the bound: at first tasks may hold an old chain (`Mixed`); once none
does (`Clear`) the raw chain is to come, and the priced one comes by an entry in the stream, a task
that will publish, a poll that finds the hash of another chain, or the hash of this one, which has
to expire first. Every tick takes one from what is left. The hypothesis
`PricingTime = 1` is what the subscriber needs to keep up: with pricings of two intervals, tasks of
one and a hash of one, entries pile up and TLC finds a lag above the bound. A single `Cycle` would not
bound the lag: with three tasks of two intervals and a hash of one, TLC finds a longer one, since an
entry that corrects the priced chain waits behind others.

### Migrations and clients

`ClientsProofs`, for every set of runners and scripts (numbers, `init_schema.sql` among them), of
tasks, names and threads, every number of pools and clients, cache size, backoff and horizon:

| theorem | statement |
|---|---|
| `MigrationsSound` | `Spec => []MigrationsAreSound` |
| `ClientsKept` | `PathsSpec => []ClientsAreKept` |
| `VerdictsSound` | `PathsSpec => []VerdictsAreSound` |
| `ExportHonest` | `PathsSpec => []ExportIsHonest` |
| `PathsWellTyped` | `PathsSpec => []PathsTypeOK` |

- *Migrations.* That a script is applied once is not inductive: a commit must know that its row
  is still missing. `IInv` adds that an open transaction has one script that its runner found and
  init_schema.sql has come before it (`OpenTransactions`), that a row inserted and not committed is
  the only one of its script (`RowsAreUnique`, the primary key), and that what a runner found has a
  row, is left to it or is in its transaction (`NothingSkipped`).
- *Pool and Redis client.* `PoolInv`: whoever holds the lock is creating, no pool is registered
  meanwhile, and what is open beside those two is being closed. `RedisInv`: whoever is not away has in
  hand the client of the loop or one a shutdown has popped (`InHand`), and only one of those who have
  the same client pings it (`OnePinger`), which is what spaces the pings.
- *Catalogue.* An invalid verdict on a listed symbol is cached two awaits after the catalogue was
  asked, and by then the catalogue may have it. `CatalogInv` carries the excuse from the lookup to the
  cache (`LookupOK`, `Pinned`): Yahoo had nothing of it or is not asked, and the symbol is not in a catalogue that nothing changes any more
  (`Settled`), or was looked up between the assignments of the flag and of the set (`unseen`).
  `Distinct` makes the length of the cache its number of symbols.
- *Workbook.* `ExportInv` says that what is written and what is still to be written are together the
  trading days of the period, in order, so many sheets a day (`Complete`, `InOrder`), and that every
  sheet is of its day (`ChainOK`, `EndsWith`). The strike at the money is the nearest multiple of the
  interval by the arithmetic of `Rounded`, and it is listed because it is in the middle of the ladder.
- *Types.* The type invariants of all components of `MCDataPaths` follow from the inductive
  invariants of this module and of the next two, which it extends.

### Sources

`SourcesProofs`, for every set of dates, archives and expiries, every number of threads (at least
one), builds, faults and refusals, and every TTL, lag and patience:

| theorem | statement |
|---|---|
| `GapsExplained` | `PathsSpec => []FaultsExplainGaps` |
| `StudiesSound` | `PathsSpec => StudyIsOneBuild` |
| `MarketTold` | `PathsSpec => []MarketIsTold` |
| `AnswersOfNow` | `PathsSpec => []AnswersAreOfNow` |

- *Gaps.* The property speaks of a finished panel. Before that a day is still to do, being fetched,
  on disk, or has had its failure: one while the threads download (`Fetched`), one more when the walk
  has passed it (`Walked`). A download that is started waits in the pool at most until a thread is
  free, so a day is fetched once (`FetchesOK`); half a file is being written or has a fault behind it
  (`FilesOK`).
- *Studies.* A rebuild from the cache makes panel and chain of the same rows and saves the chain first
  (`StudyInv`); between the two writes nobody loads, and a crash there sets `torn`.
- *Market.* `Sound` has, for each place of a call, which sources have refused before it can be there,
  or that a bare chain answered, and what it has in hand; a list of expiries is one that was to come on some day between that of the
  call and today (`Upcoming`), since midnight may pass between two awaits. A yield is at most a day old
  when it enters the second cache (`CachesOK`), which is where the two days come from.
- *Answers.* What a request has in hand it read from a key that was alive when the request began or
  later (`Asked`), and a request lasts at most `Patience`; a priced chain was stamped at most `Lag` before its SET; a
  chain without a spot has a source that
  failed behind it (`Blamed`), at a time within the life of the chain.

### Backtests

`BacktestProofs`, for every set of studies, quotes and calendars, a holding period, stop and target of
at least one, and any lot:

| theorem | statement |
|---|---|
| `BooksAgree` | `PathsSpec => []BooksAreHonest` |
| `BridgeHolds` | `PathsSpec => []BridgeAgrees` |

`Backtest!ConstantsAssumption` asks of a calendar that its bars are in order on days the panel knows
(`InOrder`), and of a study with the original classes what `research/analysis/waterfall.py` compares
them on (`Comparable`): one panel for signals and marks, no mask, and sessions between the two rises
of the transaction tax. Without the last the bridge is false, since the original classes know one rate.

- *Honest trades.* `HonestPrices` is about a trade that is over. `BookPriced` says it of a position on
  every bar: what it paid and its last mark are prints, and the mark is the latest one. That there is
  only one latest price needs `OnePrice`: a bar adds at most one print of a contract. `BookSquared`
  says of what is held *and of what is signalled* that the next session still lists it; so the
  executor never reaches a session at which it is too late to sell.
- *Curve and book.* `CurveInv` ties the cash of the engine at a date to the trades: it is the capital
  and the net results of those that ended, less what the open ones cost so far (`FundAdds`). The halves of
  a round trip add up because the friction model's integers are even (`CostsAreEven`). The book itself
  is the capital and the net results of all its trades (`BookAdds`); every trade ends by the last bar
  and takes one at least, so at the last date both sums are over the same set.
- *Sums.* The curve sums over sets, with the fold of the community modules. The library's
  induction theorems cannot be instantiated here; the lemmas need only that a non-empty set of numbers
  has a least element. `Table` is a function that has a total for every subset of a finite set; one
  exists and is unique (least counterexample by cardinality), and it is what the fold
  computes (`TotalIsTable`). From it follow totals of a union, of a difference and without an element.
- *Bridge.* `InStep`: both executors have the same position, signal, equity and trades but for the expiry,
  and in mode lag 0 no signal is left over a bar. It holds until the last bar only: there the original class
  may still buy, in a position that never becomes a trade. One lemma per executor says what a bar does.

### Only model-checked

- Liveness (`EventuallySettled`, `PushedEventually`, `EveryoneIsAnswered`): TLAPS has no rules for
  fairness and ENABLED.

## 7. What is not modelled

- Payloads: the content of chains, prices, alert texts, JSON. A chain is a version, a set of
  expiries or a time, a message a position, an alert the event it came from.
- Floating-point pricing, implied volatility, Greeks, the arithmetic of indicators and of
  performance statistics: nothing a model checker can evaluate. Where a property depends on
  them, they are a choice.
- Authentication and middleware: filters that keep nothing another request reads. Ownership of
  rules by users; SQL beyond the conditional UPDATE and the primary key.
- Historical prices: an upsert by key and a range query, one database step each.
- Of the frontend: suggestions, the list of alerts, simulation controls, export and theme.
- Wiring and settings, the laboratory's scripts, plots and tables of the studies.
- Redis as anything but the commands the code sends: a command is atomic and either
  executed or not; replies can be lost. Pub/sub is at most once.
- Real time: TTLs and timers are counted in the units named above; in `DurableStream`,
  `SingleFlight`, `NseProxy` and `WsHub` a timeout may happen at any moment at which it could.
- Two jobs of the research data, or a study, running at the same time: they are started by hand.
