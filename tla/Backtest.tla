------------------------------ MODULE Backtest ------------------------------
(***************************************************************************)
(* The backtests of the studies: an executor that walks the daily bars and *)
(* trades one option at a time (run_3_5y_experiments.py, the corrected one *)
(* with its legacy switches; backtest/strategies.py, the original ones),   *)
(* and the engine that turns its trades into an equity curve               *)
(* (backtest/engine.py).                                                   *)
(*                                                                         *)
(* Days are numbers, an expiry is a day, money is in paise for a unit.  A  *)
(* day of the market is a quote for every option of every listed expiry:   *)
(* its close (0: the panel has no such row), whether it traded, and what   *)
(* the model says of it: "under" the fair value by more than epsilon,      *)
(* "fair" (less than half of epsilon away), "other", or "none" when the    *)
(* panel has no model value.  RSI, MACD and random draws are a choice.  An *)
(* option stands for one side of a strike near the money, in the order in  *)
(* which the strikes are scanned.                                          *)
(***************************************************************************)
EXTENDS Integers, Sequences, FiniteSets, FiniteSetsExt, SequencesExt

CONSTANTS
  Quotes,      \* what a day can quote for an option
  Studies,     \* a setup [kind, lag, lock, masked, legacy, capital, options] and a calendar
               \* [bars: days with an OHLCV row, listed: expiries by day, signal: expiry by day]
  Holding,     \* holding_period, in bars
  StopLoss, TakeProfit,   \* in percent of the price paid
  SttChanges,  \* the two days on which the securities transaction tax rises
  Lot          \* units of a trade, over which the brokerage of an order is spread

Absent == [close |-> 0, traded |-> FALSE, view |-> "none"]
None   == 0

Setups    == [kind : {"PURE_PDE", "HYBRID", "RETAIL", "RANDOM_PUT"}, lag : {0, 1}, lock : BOOLEAN,
              masked : BOOLEAN, legacy : BOOLEAN, capital : Nat, options : SUBSET (Nat \ {0})]
Calendars == [bars : Seq(Nat \ {0}), listed : Seq(SUBSET (Nat \ {0})), signal : Seq(Nat)]

\* The bars are in order, on days the panel knows of.
InOrder(c) ==
  /\ \A i, j \in DOMAIN c.bars : i < j => c.bars[i] < c.bars[j]
  /\ \A i \in DOMAIN c.bars : c.bars[i] \in DOMAIN c.listed /\ c.bars[i] \in DOMAIN c.signal

(* The old classes know no mask and only one tax rate, and have one panel   *)
(* for signals and marks: waterfall.py compares on 180 sessions between two *)
(* rises of the tax.                                                        *)
Comparable(s) ==
  /\ ~s.setup.masked
  /\ \A i \in DOMAIN s.calendar.bars :
       LET d == s.calendar.bars[i]
       IN  /\ SttChanges[1] <= d /\ d < SttChanges[2]
           /\ s.calendar.signal[d] = None <=> s.calendar.listed[d] = {}

ConstantsAssumption ==
  /\ Absent \in Quotes /\ \A q \in Quotes : q.close \in Nat /\ q.traded \in BOOLEAN
  /\ {Holding, StopLoss, TakeProfit} \subseteq Nat \ {0}
  /\ SttChanges \in Nat \X Nat /\ Lot \in Nat \ {0}
  /\ Studies \subseteq [setup : Setups, calendar : Calendars]
  /\ \A s \in Studies : InOrder(s.calendar) /\ (s.setup.legacy => Comparable(s))

VARIABLES
  setup, calendar,
  bar,         \* number of bars the executors have seen
  robust,      \* RobustBacktestStrategy: its position, pending signal, equity and trades
  legacy,      \* the class of strategies.py, when the setup compares with it
  tight,       \* some signal met a price beyond 95% of the equity
  prints,      \* <<bar, expiry, option, price>> of what was held on that bar
  fund         \* the engine: its date, cash, open trades, their marks, equity

vars == <<setup, calendar, bar, robust, legacy, tight, prints, fund>>

Options   == setup.options
Bars      == Len(calendar.bars)
Day(i)    == calendar.bars[i]
Listed(d) == calendar.listed[d]
Sessions  == {d \in DOMAIN calendar.listed : Listed(d) # {}}

Book == [active |-> <<>>, pending |-> <<>>, equity |-> setup.capital, trades |-> <<>>]
Flat(b) == b.active = <<>>

(* The marks leave out a close without volume, unless told to keep it.  A  *)
(* close of 0 is no mark: a leg the wide panel has no row of is 0.0 with   *)
(* volume 0, left out too unless such closes are kept.                     *)
Mark(q, e, o) ==
  IF <<e, o>> \in DOMAIN q /\ (q[<<e, o>>].traded \/ ~setup.masked) THEN q[<<e, o>>].close ELSE None
View(q, e, o) == IF <<e, o>> \in DOMAIN q THEN q[<<e, o>>].view ELSE "none"

(* Unlocked, a position is priced on whatever expiry the panel lists today.*)
PricedOn(d, e) == IF setup.lock THEN e ELSE calendar.signal[d]

\* Mutant of MustSquareOff: only the day before expiry counts, the listing does not.
MustSquareOffAtExpiry(d, e) ==
  LET later == {s \in Sessions : s > d}
  IN  setup.lock /\ (later = {} \/ e - Min(later) < 1)

MustSquareOff(d, e) ==
  LET later == {s \in Sessions : s > d}
  IN  setup.lock /\ (later = {} \/ e \notin Listed(Min(later)) \/ e - Min(later) < 1)

Affordable(b, p) == p * 100 <= b.equity * 95

-----------------------------------------------------------------------------
(* The steps of one bar of RobustBacktestStrategy, each a map of books.    *)

TryFill(b, q, i, s) ==
  LET p == Mark(q, PricedOn(Day(i), s.expiry), s.option)
  IN  IF p > 500 /\ ~MustSquareOff(Day(i), s.expiry) /\ Affordable(b, p)
      THEN <<[bar |-> i, expiry |-> s.expiry, option |-> s.option, paid |-> p, last |-> p]>>
      ELSE <<>>

Filled(b, q, i) ==
  IF Flat(b) /\ b.pending # <<>>
  THEN [b EXCEPT !.active = TryFill(b, q, i, b.pending[1]), !.pending = <<>>]
  ELSE b

(* Stop loss, take profit, mean reversion after two bars, end of holding.  *)
Leaves(a, p, view, i) ==
  \/ (p - a.paid) * 100 <= -StopLoss * a.paid
  \/ (p - a.paid) * 100 >= TakeProfit * a.paid
  \/ i - a.bar >= 2 /\ view = "fair" /\ setup.kind # "RETAIL"
  \/ i - a.bar >= Holding

(* Round trip cost of a unit bought at p, paid at the tax rate stt: taxes  *)
(* and fees in parts per million of p, 20 rupees an order, 18% GST on      *)
(* brokerage and fees, half a percent of spread a side; a whole even number*)
(* so that the engine can book it by halves.                               *)
RoundTrip(p, stt) ==
  LET brokerage == 2000000 \div Lot        \* of an order, a unit, in thousandths
      ppm == stt + 30 + 2 * 1 + 2 * 5000 + 2 * 500
  IN  2 * ((p * ppm + 2 * (18 * (p * 5)) + 2 * 1180 * brokerage) \div 2000000)

SttRate(d) == IF d < SttChanges[1] THEN 500 ELSE IF d < SttChanges[2] THEN 625 ELSE 1000
DefaultStt == 625

Net(t) == t.got - t.paid - t.cost

Closed(b, p, i, stt) ==
  LET a == b.active[1]
      t == [entry |-> a.bar, exit |-> i, expiry |-> a.expiry, option |-> a.option,
            paid |-> a.paid, got |-> p, cost |-> RoundTrip(a.paid, stt)]
  IN  [b EXCEPT !.active = <<>>, !.equity = @ + Net(t), !.trades = Append(@, t)]

\* Mutant of Price: without a print, the price paid.
PriceOrPaid(b, q, i) ==
  LET p == Mark(q, PricedOn(Day(i), b.active[1].expiry), b.active[1].option)
  IN  IF p # None THEN p ELSE b.active[1].paid

(* The price a held contract is managed at: its own print, or the last one;*)
(* unlocked, the price paid when the strike is missing from the panel.     *)
Price(b, q, i) ==
  LET a == b.active[1]
      p == Mark(q, PricedOn(Day(i), a.expiry), a.option)
  IN  IF p # None THEN p ELSE IF setup.lock THEN a.last ELSE a.paid

Managed(b, q, i) ==
  IF Flat(b) THEN b
  ELSE LET a == b.active[1]
           p == Price(b, q, i)
           on == PricedOn(Day(i), a.expiry)
           view == IF ~setup.lock /\ Mark(q, on, a.option) = None
                   THEN "fair" ELSE View(q, on, a.option)
       IN  IF Leaves(a, p, view, i) \/ MustSquareOff(Day(i), a.expiry)
           THEN Closed(b, p, i, SttRate(Day(i)))
           ELSE [b EXCEPT !.active[1].last = p]

Signal(i, o) == [expiry |-> calendar.signal[Day(i)], option |-> o]

(* A signal of the last bar, or on a contract about to go, is not taken.   *)
Signalled(b, q, i, passing) ==
  IF Flat(b) /\ b.pending = <<>> /\ passing # {} /\ i < Bars
       /\ ~MustSquareOff(Day(i), calendar.signal[Day(i)])
  THEN LET s == Signal(i, Min(passing))
       IN  IF setup.lag = 0 THEN [b EXCEPT !.active = TryFill(b, q, i, s)]
                            ELSE [b EXCEPT !.pending = <<s>>]
  ELSE b

RobustBar(b, q, i, passing) ==
  IF Day(i) \in Sessions THEN Signalled(Managed(Filled(b, q, i), q, i), q, i, passing) ELSE b

-----------------------------------------------------------------------------
(* One bar of the classes of strategies.py: no contract, no lag.  What is  *)
(* held is priced at today's row of its strike; the retail baseline prices *)
(* it at today's row at the money, whatever was bought.                    *)

Bought(q, i, e, o) ==
  <<[bar |-> i, expiry |-> e, option |-> o, paid |-> Mark(q, e, o), last |-> Mark(q, e, o)]>>

\* Mutant of LegacyManaged: a strike that left the panel does not end the trade.
LegacyManagedWaits(b, q, i, e, atm) ==
  IF Flat(b) THEN b
  ELSE LET o == IF setup.kind = "RETAIL" THEN atm ELSE b.active[1].option
           p == IF Mark(q, e, o) = None THEN b.active[1].paid ELSE Mark(q, e, o)
       IN  IF Leaves(b.active[1], p, View(q, e, o), i) THEN Closed(b, p, i, DefaultStt) ELSE b

LegacyManaged(b, q, i, e, atm) ==
  IF Flat(b) THEN b
  ELSE LET o == IF setup.kind = "RETAIL" THEN atm ELSE b.active[1].option
           missing == Mark(q, e, o) = None
           p == IF missing THEN b.active[1].paid ELSE Mark(q, e, o)
           view == IF missing THEN "fair" ELSE View(q, e, o)
       IN  IF Leaves(b.active[1], p, view, i) THEN Closed(b, p, i, DefaultStt) ELSE b

(* The retail baseline takes the row at the money.                         *)
RetailBar(b, q, i, passing, atm) ==
  LET e == calendar.signal[Day(i)]
      managed == LegacyManaged(b, q, i, e, atm)
  IN  IF e = None \/ Mark(q, e, atm) = None THEN b
      ELSE IF Flat(managed) /\ atm \in passing /\ Affordable(managed, Mark(q, e, atm))
           THEN [managed EXCEPT !.active = Bought(q, i, e, atm)]
      ELSE managed

(* The mispricing classes take the first row they can afford.  An option is*)
(* of a strike of its own here: the code also passes over the put of a     *)
(* strike whose call costs too much.                                       *)
MispricingBar(b, q, i, passing) ==
  LET e == calendar.signal[Day(i)]
      managed == LegacyManaged(b, q, i, e, None)
      within == {x \in passing : Affordable(managed, Mark(q, e, x))}
  IN  IF e # None /\ Flat(managed) /\ within # {}
      THEN [managed EXCEPT !.active = Bought(q, i, e, Min(within))]
      ELSE IF e = None THEN b ELSE managed

(* UpgradedPDEMispricingStrategy of run_phase1_experiments.py: the pure    *)
(* mispricing class with a lag of a bar, whose signal names a strike only. *)
UpgradedBar(b, q, i, passing) ==
  LET e == calendar.signal[Day(i)]
      p == Mark(q, e, b.pending[1].option)
      filled == IF Flat(b) /\ b.pending # <<>>
                THEN [b EXCEPT !.pending = <<>>,
                               !.active = IF p > 500 /\ Affordable(b, p)
                                          THEN Bought(q, i, e, b.pending[1].option) ELSE <<>>]
                ELSE b
      managed == LegacyManaged(filled, q, i, e, None)
  IN  IF e = None THEN b
      ELSE IF Flat(managed) /\ managed.pending = <<>> /\ passing # {} /\ i < Bars
           THEN [managed EXCEPT !.pending = <<Signal(i, Min(passing))>>]
      ELSE managed

(* The rows a strategy would take, of those that close above 10 rupees: the*)
(* ones the model finds cheap (pure mispricing), those of them the filters *)
(* leave (hybrid), the row at the money (retail), a drawn one (random).    *)
HybridFilter(cheap) == SUBSET cheap

Passing(q, i, atm) ==
  LET e     == calendar.signal[Day(i)]
      dear  == {o \in Options : <<e, o>> \in DOMAIN q /\ q[<<e, o>>].close > 1000}
      cheap == {o \in dear : q[<<e, o>>].view = "under"}
  IN  CASE setup.kind = "PURE_PDE"   -> {cheap}
        [] setup.kind = "HYBRID"     -> HybridFilter(cheap)
        [] setup.kind = "RETAIL"     -> SUBSET (dear \cap {atm})
        [] setup.kind = "RANDOM_PUT" -> {{}} \cup {{o} : o \in dear}

AtTheMoney == IF setup.kind = "RETAIL" THEN Options ELSE {Min(Options)}
Markets(d) == [Listed(d) \X Options -> Quotes]

Held(b, q, i) ==
  {<<i, a.expiry, a.option, Mark(q, a.expiry, a.option)>> : a \in Range(b.active)}

Bar ==
  /\ bar < Bars
  /\ bar' = bar + 1
  /\ \E q \in Markets(Day(bar')), atm \in AtTheMoney :
       \E passing \in Passing(q, bar', atm) :
         /\ robust' = RobustBar(robust, q, bar', passing)
         /\ legacy' = CASE ~setup.legacy -> legacy
                        [] setup.legacy /\ setup.lag = 1 -> UpgradedBar(legacy, q, bar', passing)
                        [] setup.legacy /\ setup.lag = 0 ->
                             IF setup.kind = "RETAIL" THEN RetailBar(legacy, q, bar', passing, atm)
                                                      ELSE MispricingBar(legacy, q, bar', passing)
         /\ tight' = (tight \/ \E o \in passing, b \in {robust', legacy'} :
                          Flat(b) /\ ~Affordable(b, q[<<calendar.signal[Day(bar')], o>>].close))
         /\ prints' = prints \cup {h \in Held(Filled(robust, q, bar'), q, bar')
                                           \cup Held(robust', q, bar') : h[4] # None}
  /\ UNCHANGED <<setup, calendar, fund>>

-----------------------------------------------------------------------------
(* BacktestEngine.calculate_portfolio_metrics, one date a step: exits, then*)
(* entries, then the marks; and the accounting without marks beside it.    *)

Trade(k) == robust.trades[k]
On(field(_), i) == {k \in DOMAIN robust.trades : field(Trade(k)) = i}
SumOf(value(_), S) == SumFunctionOnSet([k \in DOMAIN robust.trades |-> value(Trade(k))], S)

\* Mutant of Spent: the whole round trip at entry.
SpentWhole(t) == t.paid + t.cost

(* The costs of a trade are booked half at entry and half at exit.         *)
Spent(t)    == t.paid + t.cost \div 2
Received(t) == t.got - t.cost \div 2

Account ==
  LET i       == fund.date + 1
      leaving == On(LAMBDA t : t.exit, i) \cap fund.open
      coming  == On(LAMBDA t : t.entry, i)
      open    == (fund.open \ leaving) \cup coming
      printed(k) == {h[4] : h \in {x \in prints :
                        x[1] = i /\ x[2] = Trade(k).expiry /\ x[3] = Trade(k).option}}
      mark    == [k \in open |-> IF printed(k) # {} THEN Max(printed(k))
                                 ELSE IF k \in coming THEN Trade(k).paid ELSE fund.mark[k]]
      cash    == fund.cash + SumOf(Received, leaving) - SumOf(Spent, coming)
  IN  /\ bar = Bars /\ fund.date < Bars
      /\ fund' = [date |-> i, open |-> open, mark |-> mark, cash |-> cash,
                  equity |-> cash + SumFunctionOnSet(mark, open),
                  steps  |-> fund.steps + SumOf(Net, On(LAMBDA t : t.exit, i))]
      /\ UNCHANGED <<setup, calendar, bar, robust, legacy, tight, prints>>

Init ==
  /\ \E s \in Studies : setup = s.setup /\ calendar = s.calendar
  /\ bar = 0 /\ robust = Book /\ legacy = Book /\ tight = FALSE /\ prints = {}
  /\ fund = [date |-> 0, open |-> {}, mark |-> <<>>, cash |-> setup.capital,
             equity |-> setup.capital, steps |-> setup.capital]

Next == Bar \/ Account

Spec == Init /\ [][Next]_vars

-----------------------------------------------------------------------------
(* Properties.                                                             *)

Positions == [bar : 1 .. Bars, expiry : Int, option : Options,
              paid : Nat \ {0}, last : Nat \ {0}]
Signals   == [expiry : Int, option : Options]
Trades    == [entry : 1 .. Bars, exit : 1 .. Bars, expiry : Int, option : Options,
              paid : Nat \ {0}, got : Nat \ {0}, cost : Nat]

BookOK(b) ==
  /\ Len(b.active) <= 1 /\ Range(b.active) \subseteq Positions
  /\ Len(b.pending) <= 1 /\ Range(b.pending) \subseteq Signals
  /\ b.equity \in Int /\ Range(b.trades) \subseteq Trades

TypeOK ==
  /\ [setup |-> setup, calendar |-> calendar] \in Studies /\ bar \in 0 .. Bars
  /\ BookOK(robust) /\ BookOK(legacy) /\ tight \in BOOLEAN
  /\ \A h \in prints : h[1] \in 1 .. bar /\ h[3] \in Options /\ h[4] \in Nat \ {0}
  /\ fund.date \in 0 .. Bars /\ fund.open \subseteq DOMAIN robust.trades

(* The mark-to-market curve and the book tell the same story: whenever     *)
(* nothing is open, and at the end, the engine's equity is the capital plus*)
(* the net result of the trades closed so far, as the accounting without   *)
(* marks has it, although costs are booked by halves, marks are carried    *)
(* and the capital was spent in between (engine.py, the comment at 131).   *)
CurveMeetsBook ==
  /\ fund.open = {} => fund.equity = fund.steps
  /\ fund.date = Bars => fund.open = {} /\ fund.equity = robust.equity

(* With the contract lock, what a trade paid was printed by its own        *)
(* contract on the day of entry, and what it got is the latest print of its*)
(* own contract up to the exit: never another expiry, never a price of a   *)
(* day the executor had not reached.                                       *)
Latest(t) ==
  LET own == {h \in prints : h[2] = t.expiry /\ h[3] = t.option /\ h[1] \in t.entry .. t.exit}
  IN  {h[4] : h \in {x \in own : \A y \in own : y[1] <= x[1]}}

HonestPrices ==
  setup.lock => \A t \in Range(robust.trades) :
    <<t.entry, t.expiry, t.option, t.paid>> \in prints /\ Latest(t) = {t.got}

(* With the contract lock and a bar for every session, no position is held *)
(* into the expiry of its contract or past the last session that lists it, *)
(* and the run ends with nothing open: no trade drops out of the results.  *)
SquaredOff ==
  setup.lock /\ Sessions \subseteq Range(calendar.bars) =>
    /\ \A t \in Range(robust.trades) :
         Day(t.exit) < t.expiry /\ t.expiry \in Listed(Day(t.exit))
    /\ bar = Bars => Flat(robust) /\ robust.pending = <<>>

(* The trades of the corrected executor are ones that could have been made.*)
TradesAreHonest == HonestPrices /\ SquaredOff

(* The original classes and the corrected executor in legacy mode, run on  *)
(* the same panel, make the same trades (the bridge of waterfall.py, and   *)
(* the lagged class of run_phase1_experiments.py); without the lag, as long*)
(* as no signal of the day was beyond the capital: there the class goes on *)
(* to the next strike, the executor drops the day.  The old trades do not  *)
(* name their expiry.                                                      *)
Blotter(b) == [k \in DOMAIN b.trades |-> [b.trades[k] EXCEPT !.expiry = None]]

BridgeAgrees ==
  setup.legacy /\ ~setup.lock /\ ~setup.masked /\ setup.kind \in {"PURE_PDE", "HYBRID"}
    /\ (setup.lag = 0 => ~tight) => Blotter(robust) = Blotter(legacy)
=============================================================================
