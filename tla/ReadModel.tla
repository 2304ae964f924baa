----------------------------- MODULE ReadModel -----------------------------
(***************************************************************************)
(* From the market to the priced chain that the dashboards read, for one   *)
(* symbol with viewers: the Celery task fetch_and_publish_options          *)
(* (domains/ingestion/tasks/market_tasks.py), the stream of raw chains,    *)
(* the pricing subscriber                                                  *)
(* (domains/analytics/infrastructure/options_subscriber.py) and the Redis  *)
(* keys market:options, market:options:hash and market:options:priced.     *)
(*                                                                         *)
(* A chain is its version: equal digests are equal versions.  One unit of  *)
(* time is the poll interval; TTLs count down in it.                       *)
(***************************************************************************)
EXTENDS Naturals, Sequences

CONSTANTS Tasks,        \* the Celery processes
          HashTtl,      \* TTL of the hash: TTL.MARKET_OPTIONS_PRICED // 2
          PricedTtl,    \* TTL.MARKET_OPTIONS_PRICED
          TaskTime,     \* a task ends within this time
          PricingTime,  \* the subscriber handles an entry within this time
          MaxRetries,   \* its max_retries
          MaxVersion,   \* bound on the changes of the market
          MaxFailures   \* bound on the failures of tasks and of the handler

ASSUME ConstantsAssumption ==
  /\ HashTtl \in Nat \ {0} /\ PricedTtl \in Nat \ {0}
  /\ TaskTime \in Nat \ {0} /\ PricingTime \in Nat \ {0}
  /\ MaxRetries \in Nat /\ MaxVersion \in Nat \ {0} /\ MaxFailures \in Nat

VARIABLES
  market,    \* the version of the chain at the exchange
  polled,    \* has the poll of this interval been dispatched?
  stage,     \* where each task is
  fetched,   \* the version it fetched
  age,       \* how long it has run
  raw,       \* market:options: the version of the raw chain, 0 for none
  hash,      \* market:options:hash, 0 for none
  hashLife,  \* its remaining TTL
  stream,    \* the entries of options.raw_fetched not yet acknowledged
  pricing,   \* where the subscriber is with the first of them
  effort,    \* how long it has handled it
  priced,    \* market:options:priced, 0 for none
  life,      \* its remaining TTL
  announced, \* the last version in options.priced
  lag,       \* history: time since market moved without the keys following
  failures   \* history: failures so far

celery   == <<stage, fetched, age>>
keys     == <<raw, hash, hashLife>>
pricer   == <<stream, pricing, effort, priced, life, announced>>
vars     == <<market, polled, celery, keys, pricer, lag, failures>>

Versions == 1 .. MaxVersion

TypeOK ==
  /\ market \in Versions
  /\ polled \in BOOLEAN
  /\ stage \in [Tasks -> {"idle", "fetch", "raw", "compare", "hash", "persist", "publish"}]
  /\ fetched \in [Tasks -> 0 .. market]
  /\ age \in [Tasks -> 0 .. TaskTime]
  /\ raw \in 0 .. market
  /\ hash \in 0 .. market /\ hashLife \in 0 .. HashTtl
  /\ hash = 0 <=> hashLife = 0
  /\ stream \in Seq([version: 1 .. market, retry: 0 .. MaxRetries])
  /\ pricing \in {"idle", "price", "announce", "notify"}
  /\ effort \in 0 .. PricingTime
  /\ priced \in 0 .. market /\ life \in 0 .. PricedTtl
  /\ priced = 0 <=> life = 0
  /\ announced \in 0 .. market
  /\ lag \in Nat
  /\ failures \in 0 .. MaxFailures

Init ==
  /\ market = 1 /\ polled = FALSE
  /\ stage = [t \in Tasks |-> "idle"]
  /\ fetched = [t \in Tasks |-> 0]
  /\ age = [t \in Tasks |-> 0]
  /\ raw = 0 /\ hash = 0 /\ hashLife = 0
  /\ stream = <<>> /\ pricing = "idle" /\ effort = 0
  /\ priced = 0 /\ life = 0 /\ announced = 0
  /\ lag = 0 /\ failures = 0

-----------------------------------------------------------------------------
(* The task. *)

Goto(t, s) == stage' = [stage EXCEPT ![t] = s]

End(t) ==
  /\ Goto(t, "idle")
  /\ fetched' = [fetched EXCEPT ![t] = 0]
  /\ age' = [age EXCEPT ![t] = 0]

\* The polling loop dispatches one task per interval; an idle process takes it.
Start(t) ==
  /\ ~polled /\ stage[t] = "idle"
  /\ polled' = TRUE
  /\ Goto(t, "fetch")
  /\ UNCHANGED <<market, fetched, age, keys, pricer, lag, failures>>

\* fetch_option_chain answers with the chain of now.
Fetch(t) ==
  /\ stage[t] = "fetch"
  /\ fetched' = [fetched EXCEPT ![t] = market]
  /\ Goto(t, "raw")
  /\ UNCHANGED <<market, polled, age, keys, pricer, lag, failures>>

StoreRaw(t) ==
  /\ stage[t] = "raw"
  /\ raw' = fetched[t]
  /\ Goto(t, "compare")
  /\ UNCHANGED <<market, polled, fetched, age, hash, hashLife, pricer, lag, failures>>

\* Mutant of Compare: the chain is compared with the raw read model.
CompareRaw(t) ==
  /\ stage[t] = "compare"
  /\ IF raw = fetched[t] THEN End(t)
     ELSE Goto(t, "hash") /\ UNCHANGED <<fetched, age>>
  /\ UNCHANGED <<market, polled, keys, pricer, lag, failures>>

\* An unchanged chain is not priced again.
Compare(t) ==
  /\ stage[t] = "compare"
  /\ IF hash = fetched[t] THEN End(t)
     ELSE Goto(t, "hash") /\ UNCHANGED <<fetched, age>>
  /\ UNCHANGED <<market, polled, keys, pricer, lag, failures>>

\* Mutant of StoreHash: the hash lives longer than the priced chain.
StoreHashFullTtl(t) ==
  /\ stage[t] = "hash"
  /\ hash' = fetched[t] /\ hashLife' = PricedTtl + HashTtl
  /\ Goto(t, "persist")
  /\ UNCHANGED <<market, polled, fetched, age, raw, pricer, lag, failures>>

StoreHash(t) ==
  /\ stage[t] = "hash"
  /\ hash' = fetched[t] /\ hashLife' = HashTtl
  /\ Goto(t, "persist")
  /\ UNCHANGED <<market, polled, fetched, age, raw, pricer, lag, failures>>

\* fetch_price and the COPY into TickData.
Persist(t) ==
  /\ stage[t] = "persist"
  /\ Goto(t, "publish")
  /\ UNCHANGED <<market, polled, fetched, age, keys, pricer, lag, failures>>

Publish(t) ==
  /\ stage[t] = "publish"
  /\ stream' = Append(stream, [version |-> fetched[t], retry |-> 0])
  /\ End(t)
  /\ UNCHANGED <<market, polled, keys, pricing, effort, priced, life, announced, lag, failures>>

\* An empty answer, a chain with no strike to price or an exception, which is
\* logged, ends the task.
TaskFails(t) ==
  /\ stage[t] # "idle" /\ failures < MaxFailures
  /\ failures' = failures + 1
  /\ End(t)
  /\ UNCHANGED <<market, polled, keys, pricer, lag>>

-----------------------------------------------------------------------------
(* process_event of the pricing subscriber. *)

Take ==
  /\ pricing = "idle" /\ stream # <<>>
  /\ pricing' = "price" /\ effort' = 0
  /\ UNCHANGED <<market, polled, celery, keys, stream, priced, life, announced, lag, failures>>

\* The priced chain goes to the cache, stamped with the time of its pricing.
Price ==
  /\ pricing = "price"
  /\ priced' = Head(stream).version /\ life' = PricedTtl
  /\ pricing' = "announce"
  /\ UNCHANGED <<market, polled, celery, keys, stream, effort, announced, lag, failures>>

\* XADD to options.priced.
Announce ==
  /\ pricing = "announce"
  /\ announced' = Head(stream).version
  /\ pricing' = "notify"
  /\ UNCHANGED <<market, polled, celery, keys, stream, effort, priced, life, lag, failures>>

\* PUBLISH to the dashboards, then the acknowledgement.
Notify ==
  /\ pricing = "notify"
  /\ stream' = Tail(stream)
  /\ pricing' = "idle" /\ effort' = 0
  /\ UNCHANGED <<market, polled, celery, keys, priced, life, announced, lag, failures>>

\* The handler raises: a copy at the tail, or the dead-letter stream.
HandlerFails ==
  /\ pricing # "idle" /\ failures < MaxFailures
  /\ failures' = failures + 1
  /\ LET e == Head(stream)
     IN  stream' = Tail(stream) \o
                     (IF e.retry < MaxRetries THEN <<[e EXCEPT !.retry = @ + 1]>> ELSE <<>>)
  /\ pricing' = "idle" /\ effort' = 0
  /\ UNCHANGED <<market, polled, celery, keys, priced, life, announced, lag>>

-----------------------------------------------------------------------------
(* Time and the market. *)

Move ==
  /\ market < MaxVersion
  /\ market' = market + 1
  /\ lag' = 0
  /\ UNCHANGED <<polled, celery, keys, pricer, failures>>

Down(n) == IF n = 0 THEN 0 ELSE n - 1

Current == raw = market /\ priced = market

\* The interval ends: its poll was dispatched, and whoever works is in time.
Tick ==
  /\ polled /\ polled' = FALSE
  /\ \A t \in Tasks : stage[t] # "idle" => age[t] < TaskTime
  /\ pricing # "idle" => effort < PricingTime
  /\ pricing = "idle" => stream = <<>>
  /\ age' = [t \in Tasks |-> IF stage[t] = "idle" THEN 0 ELSE age[t] + 1]
  /\ effort' = IF pricing = "idle" THEN 0 ELSE effort + 1
  /\ hashLife' = Down(hashLife) /\ hash' = IF hashLife <= 1 THEN 0 ELSE hash
  /\ life' = Down(life) /\ priced' = IF life <= 1 THEN 0 ELSE priced
  /\ lag' = IF Current THEN 0 ELSE lag + 1
  /\ UNCHANGED <<market, stage, fetched, raw, stream, pricing, announced, failures>>

TaskStep(t) ==
  \/ Start(t) \/ Fetch(t) \/ StoreRaw(t) \/ Compare(t) \/ StoreHash(t) \/ Persist(t)
  \/ Publish(t) \/ TaskFails(t)

Next ==
  \/ \E t \in Tasks : TaskStep(t)
  \/ Take \/ Price \/ Announce \/ Notify \/ HandlerFails
  \/ Move \/ Tick

Spec == Init /\ [][Next]_vars

-----------------------------------------------------------------------------
(* Without failures the priced chain, once there, never expires while the  *)
(* symbol has viewers, although unchanged chains are not priced again.     *)
FreshWithoutFailures == failures = 0 /\ announced # 0 => priced # 0

\* From one pricing to the next of an unchanged chain.
Cycle == HashTtl + 1 + 2 * TaskTime + PricingTime

(* When the market stands still the keys catch up with it, whatever tasks  *)
(* overlapped and in whatever order chains were priced: the tasks that     *)
(* read the old chain end, their hash expires, the next poll's task runs,  *)
(* and the entries before its own are priced.  Each failure may cost that  *)
(* much again.                                                             *)
Waiting == TaskTime + 1 + failures           \* until an entry published now is priced
Course  == HashTtl + 2 * TaskTime + Waiting  \* once no task holds an old chain

LagIsBounded == lag <= (TaskTime + Course) * (1 + failures)

(* The priced chain neither goes away nor falls behind without a reason.   *)
ChainIsTimely == FreshWithoutFailures /\ LagIsBounded

(* docs/architecture.md: "The hash key expires at half the priced-chain    *)
(* TTL, so the read model never goes stale."                               *)
NeverStale == announced # 0 => priced # 0
=============================================================================
