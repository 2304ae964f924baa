---------------------------- MODULE MCDataPaths ----------------------------
(***************************************************************************)
(* The components on the way of the data, which do not interact while they *)
(* run, explored by TLC one at a time in one run: `part' says which, the   *)
(* others keep their initial state.  The migrations are extended, the rest *)
(* are instances.                                                          *)
(***************************************************************************)
EXTENDS Migrations, Sequences, TLC

CONSTANTS
  Quotes, Studies, Holding, StopLoss, TakeProfit, SttChanges, Lot,         \* Backtest
  Dates, Archives, Threads, MaxBuilds, MaxFaults, MaxFailures,              \* HistoricalDataset
  Expiries, DayLength, MaxRefused, MaxTime,                                 \* MarketSource
  Names, Live, Local, Plain, Lookups, NoThread, MaxEntries, VerdictTtl,
  Horizon,                                                                  \* SymbolCatalog
  Tasks, NoTask, MaxPools,                                                  \* DatabasePool
  Callers, Backoff, MaxClients, LastSecond,                                 \* RedisClient
  Periods, Histories, NaN, FirstDay, MaxDay, Widest, Lookback, Kept, Enough,
  Wings,                                                                    \* ResearchExport
  Shapes, ChainTtl, PriceTtl, PricedTtl, HistoryTtl, HvTtl, Patience,
  Lag, MaxClock                                                             \* ReadApi

VARIABLES
  part,
  setup, calendar, bar, robust, legacy, tight, prints, fund,                \* Backtest
  file, job, pc, missing, todo, busy, panel, chain, failed, error, saved, study,
  builds, faults, torn,                                                     \* HistoricalDataset
  now, expiryCache, yieldCache, infoCache, req, stored,                     \* MarketSource
  loading, loaded, known, entries, thread, emptied, unseen, ticks,          \* SymbolCatalog
  registered, pools, open, turn, asking, uses, closing,                     \* DatabasePool
  second, mine, clients, caller, connected, leaving, outlived,              \* RedisClient
  today, yahoo, asked, stage, days, sheets, status, fetchedOn,              \* ResearchExport
  clock, chainKey, priceKey, pricedKey, historyKey, hvCache, ask, reply,
  trouble                                                                   \* ReadApi

Trading == INSTANCE Backtest
Dataset == INSTANCE HistoricalDataset
Market  == INSTANCE MarketSource
Catalog == INSTANCE SymbolCatalog
Pool    == INSTANCE DatabasePool
Redis   == INSTANCE RedisClient
Export  == INSTANCE ResearchExport
Api     == INSTANCE ReadApi

ASSUME PathsAssumption ==
  /\ ConstantsAssumption /\ Trading!ConstantsAssumption
  /\ Dataset!ConstantsAssumption /\ Market!ConstantsAssumption
  /\ Catalog!ConstantsAssumption /\ Pool!ConstantsAssumption /\ Redis!ConstantsAssumption
  /\ Export!ConstantsAssumption /\ Api!ConstantsAssumption

-----------------------------------------------------------------------------
(* What a day can quote, the setups with their calendars, the tax rises.   *)

Quote(c, t, v) == [close |-> c, traded |-> t, view |-> v]

SixQuotes == {Quote(0, FALSE, "none"), Quote(1200, TRUE, "under"), Quote(1300, TRUE, "fair"),
              Quote(2000, TRUE, "under"), Quote(400, TRUE, "other"), Quote(1300, FALSE, "fair")}

\* Two expiries overlap, the first leaves the panel early and the signal moves on.
RollCalendar == [bars   |-> <<1, 2, 3, 4, 5, 6, 7>>,
                 listed |-> <<{6}, {6}, {6}, {6, 7}, {7}, {7}, {7}>>,
                 signal |-> <<6, 6, 6, 7, 7, 7, 7>>]
\* A holiday in the panel, and an expiry that is listed until its day.
GapCalendar  == [bars   |-> <<1, 2, 3, 5>>,
                 listed |-> <<{5}, {5}, {}, {5}, {}>>,
                 signal |-> <<5, 5, 0, 5, 0>>]
\* One expiry a day, as the panels of the original studies have it.
OldCalendar  == [bars   |-> <<3, 4, 5, 6>>,
                 listed |-> <<{}, {}, {5}, {5}, {7}, {7}>>,
                 signal |-> <<0, 0, 5, 5, 7, 7>>]

Study(kind, lag, legacyMode, capital, n, dates) ==
  [setup    |-> [kind |-> kind, lag |-> lag, lock |-> ~legacyMode, masked |-> ~legacyMode,
                 legacy |-> legacyMode, capital |-> capital, options |-> 1 .. n],
   calendar |-> dates]

FiveStudies == {Study("RANDOM_PUT", 1, FALSE, 3000, 1, RollCalendar),
                Study("PURE_PDE",   1, FALSE, 3000, 1, GapCalendar),
                Study("HYBRID",     0, TRUE,  2150, 2, OldCalendar),
                Study("PURE_PDE",   1, TRUE,  2150, 2, OldCalendar),
                Study("RETAIL",     0, TRUE,  5000, 2, OldCalendar)}

TaxRises == <<3, 100>>

\* Three days, the second without an archive.
Contract(e, p, t) == [expiry |-> e, priced |-> p, traded |-> t]
TwoArchives ==
     1 :> {Contract(7, TRUE, TRUE), Contract(9, TRUE, TRUE), Contract(16, TRUE, TRUE)}
  @@ 3 :> {Contract(9, TRUE, TRUE), Contract(16, TRUE, FALSE), Contract(20, TRUE, TRUE),
           Contract(64, TRUE, TRUE)}

\* Two periods with prices, one to come, one upside down, one too wide.
FivePeriods == {[start |-> 3, end |-> 5, tabs |-> TRUE],  [start |-> 1, end |-> 3, tabs |-> FALSE],
                [start |-> 8, end |-> 9, tabs |-> FALSE], [start |-> 5, end |-> 4, tabs |-> TRUE],
                [start |-> 1, end |-> 9, tabs |-> TRUE]}
\* Prices at the edges of the intervals and between two strikes; a bar without a close.
TwoHistories == {1 :> 3 @@ 2 :> 475 @@ 4 :> 2000 @@ 5 :> 2075 @@ 6 :> 49999,
                 1 :> 500 @@ 3 :> NaN @@ 5 :> 15050}

\* A whole chain, and one without a spot whose first expiry has puts only.
TwoShapes == {[spot |-> TRUE, calls |-> {1, 3}, puts |-> {1, 3}],
              [spot |-> FALSE, calls |-> {3}, puts |-> {1}]}

-----------------------------------------------------------------------------
tradingVars == <<setup, calendar, bar, robust, legacy, tight, prints, fund>>
datasetVars == <<file, job, pc, missing, todo, busy, panel, chain, failed, error, saved, study,
                 builds, faults, torn>>
marketVars  == <<now, expiryCache, yieldCache, infoCache, req, stored>>
catalogVars == <<loading, loaded, known, entries, thread, emptied, unseen, ticks>>
poolVars    == <<registered, pools, open, turn, asking, uses, closing>>
redisVars   == <<second, mine, clients, caller, connected, leaving, outlived>>
exportVars  == <<today, yahoo, asked, stage, days, sheets, status, fetchedOn>>
apiVars     == <<clock, chainKey, priceKey, pricedKey, historyKey, hvCache, ask, reply, trouble>>
moreVars    == <<redisVars, exportVars, apiVars, vars>>
allVars     == <<part, tradingVars, datasetVars, marketVars, catalogVars, poolVars, moreVars>>

SomeStudy == CHOOSE s \in Studies : TRUE

PathsInit ==
  /\ part \in {"backtest", "dataset", "market", "catalog", "pool", "redis", "export", "schema"} \cup Api!Endpoints
  /\ Init /\ Trading!Init /\ Dataset!Init /\ Market!Init /\ Catalog!Init /\ Pool!Init /\ Redis!Init
  /\ Export!Init /\ Api!Init
  /\ part # "backtest" => setup = SomeStudy.setup /\ calendar = SomeStudy.calendar
  /\ part # "export" => yahoo = CHOOSE h \in Histories : TRUE

PathsNext ==
  \/ /\ part = "backtest" /\ Trading!Next
     /\ UNCHANGED <<part, datasetVars, marketVars, catalogVars, poolVars, moreVars>>
  \/ /\ part = "dataset" /\ Dataset!Next
     /\ UNCHANGED <<part, tradingVars, marketVars, catalogVars, poolVars, moreVars>>
  \/ /\ part = "market" /\ Market!Next
     /\ UNCHANGED <<part, tradingVars, datasetVars, catalogVars, poolVars, moreVars>>
  \/ /\ part = "catalog" /\ Catalog!Next
     /\ UNCHANGED <<part, tradingVars, datasetVars, marketVars, poolVars, moreVars>>
  \/ /\ part = "pool" /\ Pool!Next
     /\ UNCHANGED <<part, tradingVars, datasetVars, marketVars, catalogVars, moreVars>>
  \/ /\ part = "redis" /\ Redis!Next
     /\ UNCHANGED <<part, tradingVars, datasetVars, marketVars, catalogVars, poolVars, exportVars, apiVars, vars>>
  \/ /\ part = "export" /\ Export!Next
     /\ UNCHANGED <<part, tradingVars, datasetVars, marketVars, catalogVars, poolVars, redisVars, apiVars, vars>>
  \/ /\ \E kind \in Api!Endpoints : part = kind /\ Api!Serve(kind)
     /\ UNCHANGED <<part, tradingVars, datasetVars, marketVars, catalogVars, poolVars, redisVars, exportVars, vars>>
  \/ /\ part = "schema" /\ Next
     /\ UNCHANGED <<part, tradingVars, datasetVars, marketVars, catalogVars, poolVars, redisVars, exportVars, apiVars>>

PathsSpec == PathsInit /\ [][PathsNext]_allVars

(* The type invariants of the components.                                  *)
PathsTypeOK ==
  TypeOK /\ Trading!TypeOK /\ Dataset!TypeOK /\ Market!TypeOK /\ Catalog!TypeOK /\ Pool!TypeOK
  /\ Redis!TypeOK /\ Export!TypeOK /\ Api!TypeOK

(* The properties of the instances, under their own names.                 *)
FaultsExplainGaps == Dataset!FaultsExplainGaps
StudyIsOneBuild   == Dataset!StudyIsOneBuild
BooksAreHonest    == Trading!CurveMeetsBook /\ Trading!TradesAreHonest
BridgeAgrees      == Trading!BridgeAgrees
MarketIsTold      == Market!MarketIsTold
VerdictsAreSound  == Catalog!VerdictsAreSound
ClientsAreKept    == Pool!NoPoolForgotten /\ Redis!PingsAreSpaced /\ Redis!ClosedStaysClosed
ExportIsHonest    == Export!ExportIsHonest
AnswersAreOfNow   == Api!AnswersAreOfNow
=============================================================================
