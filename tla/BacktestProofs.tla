--------------------------- MODULE BacktestProofs ---------------------------
(***************************************************************************)
(* Proofs about the backtests of MCDataPaths, for every instance: the trades *)
(* of an executor could have been made, the curve of the engine agrees with *)
(* its book, and the corrected executor in legacy mode makes the trades of *)
(* the original classes.                                                   *)
(***************************************************************************)
EXTENDS MCDataPaths, FiniteSetTheorems, WellFoundedInduction, SequenceTheorems, TLAPS

(* Sets of natural numbers have a least element.                           *)
LEMMA LeastNumber ==
  ASSUME NEW S, S \subseteq Nat, S # {} PROVE \E x \in S : \A y \in S : x <= y
<1>1. PICK x \in S : \A y \in S : <<y, x>> \notin OpToRel(<, Nat)
  BY NatLessThanWellFounded, WFMin
<1>2. \A y \in S : ~(y < x)
  BY <1>1 DEF OpToRel
<1> QED BY <1>2

-----------------------------------------------------------------------------
(* The backtests. *)

LEMMA TradingConstants ==
  /\ \A q \in Quotes : q.close \in Nat /\ q.traded \in BOOLEAN
  /\ Holding \in Nat \ {0} /\ StopLoss \in Nat \ {0} /\ TakeProfit \in Nat \ {0}
  /\ SttChanges[1] \in Nat /\ SttChanges[2] \in Nat /\ Lot \in Nat \ {0}
  /\ Studies \subseteq [setup : Trading!Setups, calendar : Trading!Calendars]
  /\ \A s \in Studies : Trading!InOrder(s.calendar) /\ (s.setup.legacy => Trading!Comparable(s))
BY PathsAssumption DEF Trading!ConstantsAssumption

Books == [active : Seq(Trading!Positions), pending : Seq(Trading!Signals), equity : Int,
          trades : Seq(Trading!Trades)]

\* An executor has one position and one signal at most.
BookOK(b) == b \in Books /\ Len(b.active) <= 1 /\ Len(b.pending) <= 1

StudyFixed == [setup |-> setup, calendar |-> calendar] \in Studies

\* What the study at hand is made of.
LEMMA StudyTypes ==
  ASSUME StudyFixed
  PROVE  /\ setup \in Trading!Setups /\ calendar \in Trading!Calendars /\ Trading!InOrder(calendar)
         /\ setup.legacy => Trading!Comparable([setup |-> setup, calendar |-> calendar])
<1> DEFINE s == [setup |-> setup, calendar |-> calendar]
<1>1. s \in [setup : Trading!Setups, calendar : Trading!Calendars]
  BY TradingConstants DEF StudyFixed
<1>2. s.setup = setup /\ s.calendar = calendar
  OBVIOUS
<1>3. Trading!InOrder(s.calendar) /\ (s.setup.legacy => Trading!Comparable(s))
  BY TradingConstants DEF StudyFixed
<1> QED BY <1>1, <1>2, <1>3

LEMMA StudyFacts ==
  ASSUME StudyFixed
  PROVE  /\ Trading!Options \subseteq Nat \ {0} /\ Trading!Bars \in Nat
         /\ setup.kind \in {"PURE_PDE", "HYBRID", "RETAIL", "RANDOM_PUT"}
         /\ setup.lag \in {0, 1} /\ setup.lock \in BOOLEAN /\ setup.masked \in BOOLEAN
         /\ setup.legacy \in BOOLEAN /\ setup.capital \in Nat
         /\ setup.legacy => setup.masked = FALSE
         /\ \A i \in 1 .. Trading!Bars :
              /\ Trading!Day(i) \in Nat \ {0} /\ Trading!Day(i) \in DOMAIN calendar.listed
              /\ Trading!Listed(Trading!Day(i)) \subseteq Nat \ {0}
              /\ calendar.signal[Trading!Day(i)] \in Nat
         /\ \A i, j \in 1 .. Trading!Bars : i < j => Trading!Day(i) < Trading!Day(j)
         /\ Trading!Sessions \subseteq Nat \ {0} /\ Trading!Sessions \subseteq DOMAIN calendar.listed
<1>1. /\ setup \in Trading!Setups /\ calendar \in Trading!Calendars /\ Trading!InOrder(calendar)
      /\ setup.legacy => Trading!Comparable([setup |-> setup, calendar |-> calendar])
  BY StudyTypes
<1>2. /\ calendar.bars \in Seq(Nat \ {0}) /\ calendar.listed \in Seq(SUBSET (Nat \ {0}))
      /\ calendar.signal \in Seq(Nat)
  BY <1>1 DEF Trading!Calendars
<1>3. /\ DOMAIN calendar.bars = 1 .. Trading!Bars /\ Trading!Bars \in Nat
      /\ \A d \in DOMAIN calendar.listed : d \in Nat \ {0} /\ calendar.listed[d] \subseteq Nat \ {0}
      /\ \A d \in DOMAIN calendar.signal : calendar.signal[d] \in Nat
  BY <1>2 DEF Trading!Bars
<1>4. \A i \in 1 .. Trading!Bars :
        /\ Trading!Day(i) \in Nat \ {0} /\ Trading!Day(i) \in DOMAIN calendar.listed
        /\ Trading!Listed(Trading!Day(i)) \subseteq Nat \ {0}
        /\ calendar.signal[Trading!Day(i)] \in Nat
  BY <1>1, <1>2, <1>3 DEF Trading!InOrder, Trading!Day, Trading!Listed
<1>5. \A i, j \in 1 .. Trading!Bars : i < j => Trading!Day(i) < Trading!Day(j)
  BY <1>1, <1>3 DEF Trading!InOrder, Trading!Day
<1>6. Trading!Sessions \subseteq Nat \ {0} /\ Trading!Sessions \subseteq DOMAIN calendar.listed
  BY <1>3 DEF Trading!Sessions
<1>7. setup.legacy => setup.masked = FALSE
  BY <1>1 DEF Trading!Comparable, Trading!Setups
<1>8. /\ Trading!Options \subseteq Nat \ {0}
      /\ setup.kind \in {"PURE_PDE", "HYBRID", "RETAIL", "RANDOM_PUT"}
      /\ setup.lag \in {0, 1} /\ setup.lock \in BOOLEAN /\ setup.masked \in BOOLEAN
      /\ setup.legacy \in BOOLEAN /\ setup.capital \in Nat
  <2>1. setup.options \in SUBSET (Nat \ {0})
    BY <1>1 DEF Trading!Setups
  <2>2. setup.kind \in {"PURE_PDE", "HYBRID", "RETAIL", "RANDOM_PUT"}
    BY <1>1 DEF Trading!Setups
  <2>3. setup.lag \in {0, 1} /\ setup.capital \in Nat
    BY <1>1 DEF Trading!Setups
  <2>4. /\ setup.lock \in BOOLEAN /\ setup.masked \in BOOLEAN /\ setup.legacy \in BOOLEAN
    BY <1>1 DEF Trading!Setups
  <2> QED BY <2>1, <2>2, <2>3, <2>4 DEF Trading!Options
<1> QED BY <1>3, <1>4, <1>5, <1>6, <1>7, <1>8

(* A mark is a price of a listed option, or none.                          *)
LEMMA MarksArePrices ==
  ASSUME StudyFixed, NEW d, NEW q \in Trading!Markets(d), NEW e, NEW o
  PROVE  /\ Trading!Mark(q, e, o) \in Nat
         /\ Trading!Mark(q, e, o) # 0 => e \in Trading!Listed(d) /\ o \in Trading!Options
         /\ Trading!Listed(d) = {} => Trading!Mark(q, e, o) = 0
         /\ setup.masked = FALSE /\ <<e, o>> \in DOMAIN q => Trading!Mark(q, e, o) = q[<<e, o>>].close
<1>1. q \in [Trading!Listed(d) \X Trading!Options -> Quotes]
  BY DEF Trading!Markets
<1>2. <<e, o>> \in DOMAIN q =>
        e \in Trading!Listed(d) /\ o \in Trading!Options /\ q[<<e, o>>].close \in Nat
  BY <1>1, TradingConstants
<1> QED BY <1>2 DEF Trading!Mark, Trading!None

(* The least of a set of options.                                          *)
LEMMA MinIsLeast ==
  ASSUME NEW S, S \subseteq Nat, S # {}
  PROVE  Trading!Min(S) \in S /\ \A y \in S : Trading!Min(S) <= y
BY LeastNumber DEF Trading!Min

LEMMA CostsAreWhole ==
  ASSUME NEW p \in Nat, NEW stt \in Nat PROVE Trading!RoundTrip(p, stt) \in Nat
<1>1. 2000000 \div Lot \in Nat
  BY TradingConstants
<1> DEFINE brokerage == 2000000 \div Lot
           ppm == stt + 30 + 2 * 1 + 2 * 5000 + 2 * 500
<1>2. ppm \in Nat /\ brokerage \in Nat
  BY <1>1
<1> HIDE DEF ppm, brokerage
<1>3. p * ppm \in Nat
  BY <1>2
<1> DEFINE whole == p * ppm + 2 * (18 * (p * 5)) + 2 * 1180 * brokerage
<1>4. whole \in Nat
  BY <1>2, <1>3
<1> HIDE DEF whole
<1>5. 2 * (whole \div 2000000) \in Nat
  BY <1>4
<1> QED BY <1>5 DEF Trading!RoundTrip, ppm, brokerage, whole

LEMMA ShortSeqs ==
  ASSUME NEW S
  PROVE  /\ <<>> \in Seq(S) /\ Len(<<>>) <= 1
         /\ \A a \in S : <<a>> \in Seq(S) /\ Len(<<a>>) <= 1
OBVIOUS

\* A position that is opened on bar i in option o of expiry e, at a price of the day.
Opens(a, q, i, e, o, on) ==
  /\ a \in Trading!Positions /\ a.bar = i /\ a.expiry = e /\ a.option = o
  /\ a.paid = Trading!Mark(q, on, o) /\ a.last = a.paid

LEMMA BoughtOpens ==
  ASSUME StudyFixed, NEW i \in 1 .. Trading!Bars, NEW q \in Trading!Markets(Trading!Day(i)),
         NEW e \in Int, NEW o, Trading!Mark(q, e, o) # 0
  PROVE  \E a : Trading!Bought(q, i, e, o) = <<a>> /\ Opens(a, q, i, e, o, e)
<1>1. Trading!Mark(q, e, o) \in Nat /\ o \in Trading!Options
  BY MarksArePrices
<1> DEFINE a == [bar |-> i, expiry |-> e, option |-> o, paid |-> Trading!Mark(q, e, o),
                 last |-> Trading!Mark(q, e, o)]
<1>2. Opens(a, q, i, e, o, e)
  BY <1>1 DEF Opens, Trading!Positions
<1> QED BY <1>2 DEF Trading!Bought

LEMMA TryFillOpens ==
  ASSUME StudyFixed, NEW i \in 1 .. Trading!Bars, NEW q \in Trading!Markets(Trading!Day(i)),
         NEW b, NEW s \in Trading!Signals, NEW on, on = Trading!PricedOn(Trading!Day(i), s.expiry),
         NEW p, p = Trading!Mark(q, on, s.option)
  PROVE  IF p > 500 /\ ~Trading!MustSquareOff(Trading!Day(i), s.expiry) /\ Trading!Affordable(b, p)
         THEN \E a : Trading!TryFill(b, q, i, s) = <<a>> /\ Opens(a, q, i, s.expiry, s.option, on)
         ELSE Trading!TryFill(b, q, i, s) = <<>>
<1>1. p \in Nat
  BY MarksArePrices
<1>2. s.expiry \in Int /\ s.option \in Trading!Options
  BY DEF Trading!Signals
<1> DEFINE a == [bar |-> i, expiry |-> s.expiry, option |-> s.option, paid |-> p, last |-> p]
<1>3. p > 500 => Opens(a, q, i, s.expiry, s.option, on)
  BY <1>1, <1>2 DEF Opens, Trading!Positions
<1> QED BY <1>3 DEF Trading!TryFill

LEMMA FilledBook ==
  ASSUME StudyFixed, NEW i \in 1 .. Trading!Bars, NEW q \in Trading!Markets(Trading!Day(i)),
         NEW b, BookOK(b), NEW r, r = Trading!Filled(b, q, i)
  PROVE  /\ BookOK(r) /\ r.equity = b.equity /\ r.trades = b.trades
         /\ IF b.active = <<>> /\ b.pending # <<>>
            THEN r.pending = <<>> /\ r.active = Trading!TryFill(b, q, i, b.pending[1])
            ELSE r = b
<1>1. CASE b.active = <<>> /\ b.pending # <<>>
  <2>1. PICK f : f = Trading!TryFill(b, q, i, b.pending[1])
    OBVIOUS
  <2>2. r = [b EXCEPT !.active = f, !.pending = <<>>]
    BY <1>1, <2>1 DEF Trading!Filled, Trading!Flat
  <2>3. b.pending[1] \in Trading!Signals
    BY <1>1 DEF BookOK, Books
  <2>4. f = <<>> \/ \E a \in Trading!Positions : f = <<a>>
    BY <2>1, <2>3, TryFillOpens DEF Opens
  <2>5. f \in Seq(Trading!Positions) /\ Len(f) <= 1
    <3> DEFINE S == Trading!Positions
    <3> HIDE DEF S
    <3>1. f = <<>> \/ \E a \in S : f = <<a>>
      BY <2>4 DEF S
    <3>2. f \in Seq(S) /\ Len(f) <= 1
      BY <3>1, ShortSeqs
    <3> QED BY <3>2 DEF S
  <2>6. PICK z \in Seq(Trading!Signals) : z = <<>> /\ Len(z) <= 1
    BY ShortSeqs
  <2>7. r = [b EXCEPT !.active = f, !.pending = z]
    BY <2>2, <2>6
  <2>8. b \in Books
    BY DEF BookOK
  <2>9. /\ r \in Books /\ r.active = f /\ r.pending = z /\ r.equity = b.equity /\ r.trades = b.trades
    BY <2>5, <2>7, <2>8 DEF Books
  <2> QED BY <1>1, <2>1, <2>5, <2>6, <2>9 DEF BookOK
<1>2. CASE ~(b.active = <<>> /\ b.pending # <<>>)
  BY <1>2 DEF Trading!Filled, Trading!Flat
<1> QED BY <1>1, <1>2

\* The trade that a position becomes at price p.
TradeOf(a, p, i, stt) ==
  [entry |-> a.bar, exit |-> i, expiry |-> a.expiry, option |-> a.option, paid |-> a.paid,
   got |-> p, cost |-> Trading!RoundTrip(a.paid, stt)]

LEMMA ClosedBook ==
  ASSUME StudyFixed, NEW i \in 1 .. Trading!Bars, NEW b, BookOK(b), b.active # <<>>,
         NEW p \in Nat \ {0}, NEW stt \in Nat, NEW r, r = Trading!Closed(b, p, i, stt),
         NEW t, t = TradeOf(b.active[1], p, i, stt)
  PROVE  /\ BookOK(r) /\ t \in Trading!Trades
         /\ r.active = <<>> /\ r.pending = b.pending /\ r.trades = Append(b.trades, t)
         /\ r.equity = b.equity + Trading!Net(t)
<1>1. b \in Books /\ b.active[1] \in Trading!Positions
  BY DEF BookOK, Books
<1>2. Trading!RoundTrip(b.active[1].paid, stt) \in Nat
  BY <1>1, CostsAreWhole DEF Trading!Positions
<1>3. t \in Trading!Trades
  BY <1>1, <1>2 DEF TradeOf, Trading!Trades, Trading!Positions
<1>4. Trading!Net(t) \in Int
  BY <1>3 DEF Trading!Net, Trading!Trades
<1>5. PICK u : u = Append(b.trades, t)
  OBVIOUS
<1>6. u \in Seq(Trading!Trades)
  BY <1>1, <1>3, <1>5 DEF Books
<1>7. PICK v \in Int : v = b.equity + Trading!Net(t)
  BY <1>1, <1>4 DEF Books
<1>8. PICK z \in Seq(Trading!Positions) : z = <<>> /\ Len(z) <= 1
  BY ShortSeqs
<1>9. r = [b EXCEPT !.active = z, !.equity = v, !.trades = u]
  BY <1>5, <1>7, <1>8 DEF Trading!Closed, TradeOf
<1>10. /\ r \in Books /\ r.active = z /\ r.pending = b.pending /\ r.equity = v /\ r.trades = u
  BY <1>1, <1>6, <1>9 DEF Books
<1> QED BY <1>3, <1>5, <1>7, <1>8, <1>10 DEF BookOK

LEMMA PriceOfHeld ==
  ASSUME StudyFixed, NEW i \in 1 .. Trading!Bars, NEW q \in Trading!Markets(Trading!Day(i)),
         NEW b, BookOK(b), b.active # <<>>
  PROVE  Trading!Price(b, q, i) \in Nat \ {0}
<1>1. b.active[1] \in Trading!Positions
  BY DEF BookOK, Books
<1>2. b.active[1].last \in Nat \ {0} /\ b.active[1].paid \in Nat \ {0}
  BY <1>1 DEF Trading!Positions
<1>3. \A e, o : Trading!Mark(q, e, o) \in Nat
  BY MarksArePrices
<1> QED BY <1>2, <1>3 DEF Trading!Price, Trading!None

\* The view of what is held, a missing row counts as fair without the lock.
ViewOfHeld(b, q, i) ==
  LET a  == b.active[1]
      on == Trading!PricedOn(Trading!Day(i), a.expiry)
  IN  IF ~setup.lock /\ Trading!Mark(q, on, a.option) = Trading!None THEN "fair"
                                                                  ELSE Trading!View(q, on, a.option)

LEMMA ManagedBook ==
  ASSUME StudyFixed, NEW i \in 1 .. Trading!Bars, NEW q \in Trading!Markets(Trading!Day(i)),
         NEW b, BookOK(b), NEW r, r = Trading!Managed(b, q, i)
  PROVE  /\ BookOK(r)
         /\ b.active = <<>> => r = b
         /\ b.active # <<>> => LET a == b.active[1] 
                                  p == Trading!Price(b, q, i)
                              IN
              IF Trading!Leaves(a, p, ViewOfHeld(b, q, i), i) \/ Trading!MustSquareOff(Trading!Day(i), a.expiry)
              THEN r = Trading!Closed(b, p, i, Trading!SttRate(Trading!Day(i)))
              ELSE /\ \E c \in Trading!Positions :
                        r.active = <<c>> /\ c.bar = a.bar /\ c.expiry = a.expiry /\ c.option = a.option
                        /\ c.paid = a.paid /\ c.last = p
                   /\ r.pending = b.pending /\ r.equity = b.equity /\ r.trades = b.trades
<1>1. CASE b.active = <<>>
  BY <1>1 DEF Trading!Managed, Trading!Flat
<1>2. CASE b.active # <<>>
  <2>1. PICK a, p : a = b.active[1] /\ p = Trading!Price(b, q, i)
    OBVIOUS
  <2>2. p \in Nat \ {0}
    BY <1>2, <2>1, PriceOfHeld
  <2>3. b \in Books /\ a \in Trading!Positions /\ b.active = <<a>>
    BY <1>2, <2>1 DEF BookOK, Books
  <2>4. CASE Trading!Leaves(a, p, ViewOfHeld(b, q, i), i) \/ Trading!MustSquareOff(Trading!Day(i), a.expiry)
    <3>1. r = Trading!Closed(b, p, i, Trading!SttRate(Trading!Day(i)))
      BY <1>2, <2>1, <2>4 DEF Trading!Managed, Trading!Flat, ViewOfHeld
    <3>2. Trading!SttRate(Trading!Day(i)) \in Nat
      BY DEF Trading!SttRate
    <3>3. BookOK(r)
      BY <1>2, <2>2, <3>1, <3>2, ClosedBook
    <3> QED BY <1>2, <2>1, <2>4, <3>1, <3>3
  <2>5. CASE ~(Trading!Leaves(a, p, ViewOfHeld(b, q, i), i) \/ Trading!MustSquareOff(Trading!Day(i), a.expiry))
    <3>1. r = [b EXCEPT !.active[1].last = p]
      BY <1>2, <2>1, <2>5 DEF Trading!Managed, Trading!Flat, ViewOfHeld
    <3>2. PICK c : c = [a EXCEPT !.last = p]
      OBVIOUS
    <3>3. c \in Trading!Positions /\ c.bar = a.bar /\ c.expiry = a.expiry /\ c.option = a.option
          /\ c.paid = a.paid /\ c.last = p
      BY <2>2, <2>3, <3>2 DEF Trading!Positions
    <3>4. PICK f : f = <<c>>
      OBVIOUS
    <3>5. f = [b.active EXCEPT ![1].last = p]
      BY <2>3, <3>2, <3>4
    <3>6. r = [b EXCEPT !.active = f]
      BY <3>1, <3>5
    <3>7. f \in Seq(Trading!Positions) /\ Len(f) <= 1
      BY <3>3, <3>4
    <3>8. r \in Books /\ r.active = f /\ r.pending = b.pending /\ r.equity = b.equity /\ r.trades = b.trades
      BY <2>3, <3>6, <3>7 DEF Books
    <3>9. BookOK(r)
      BY <3>7, <3>8 DEF BookOK
    <3>10. \E x \in Trading!Positions :
                        r.active = <<x>> /\ x.bar = a.bar /\ x.expiry = a.expiry /\ x.option = a.option
                        /\ x.paid = a.paid /\ x.last = p
      BY <3>3, <3>4, <3>8
    <3> QED BY <1>2, <2>1, <2>5, <3>8, <3>9, <3>10
  <2> QED BY <2>4, <2>5
<1> QED BY <1>1, <1>2

\* The rows of a day that close above ten rupees.
Dear(q, i) ==
  {o \in Trading!Options : /\ <<calendar.signal[Trading!Day(i)], o>> \in DOMAIN q
                           /\ q[<<calendar.signal[Trading!Day(i)], o>>].close > 1000}

LEMMA PassingIsDear ==
  ASSUME StudyFixed, NEW i, NEW q, NEW atm, NEW passing \in Trading!Passing(q, i, atm)
  PROVE  passing \subseteq Dear(q, i)
<1> DEFINE cheap == {o \in Dear(q, i) : q[<<calendar.signal[Trading!Day(i)], o>>].view = "under"}
<1>0. cheap \subseteq Dear(q, i)
  OBVIOUS
<1>1. CASE setup.kind = "PURE_PDE"
  <2>1. Trading!Passing(q, i, atm) = {cheap}
    BY <1>1 DEF Trading!Passing, Dear
  <2> QED BY <2>1, <1>0
<1>2. CASE setup.kind = "HYBRID"
  <2>1. Trading!Passing(q, i, atm) = SUBSET cheap
    BY <1>2 DEF Trading!Passing, Trading!HybridFilter, Dear
  <2> QED BY <2>1, <1>0
<1>3. CASE setup.kind = "RETAIL"
  <2>1. Trading!Passing(q, i, atm) = SUBSET (Dear(q, i) \cap {atm})
    BY <1>3 DEF Trading!Passing, Dear
  <2> QED BY <2>1
<1>4. CASE setup.kind = "RANDOM_PUT"
  <2>1. Trading!Passing(q, i, atm) = {{}} \cup {{o} : o \in Dear(q, i)}
    BY <1>4 DEF Trading!Passing, Dear
  <2> QED BY <2>1
<1> QED BY <1>1, <1>2, <1>3, <1>4, StudyFacts

\* The first of the rows that pass, as a signal.
LEMMA SignalOfFirst ==
  ASSUME StudyFixed, NEW i \in 1 .. Trading!Bars, NEW passing, passing \subseteq Trading!Options, passing # {}
  PROVE  /\ Trading!Min(passing) \in passing /\ \A o \in passing : Trading!Min(passing) <= o
         /\ Trading!Signal(i, Trading!Min(passing)) \in Trading!Signals
         /\ Trading!Signal(i, Trading!Min(passing)).expiry = calendar.signal[Trading!Day(i)]
         /\ Trading!Signal(i, Trading!Min(passing)).option = Trading!Min(passing)
<1>1. Trading!Options \subseteq Nat /\ calendar.signal[Trading!Day(i)] \in Nat
  BY StudyFacts
<1>2. Trading!Min(passing) \in passing /\ \A o \in passing : Trading!Min(passing) <= o
  BY <1>1, MinIsLeast
<1>3. PICK o : o = Trading!Min(passing) /\ o \in Trading!Options
  BY <1>2
<1>4. PICK e \in Int : e = calendar.signal[Trading!Day(i)]
  BY <1>1
<1>5. Trading!Signal(i, o) = [expiry |-> e, option |-> o]
  BY <1>4 DEF Trading!Signal
<1> QED BY <1>2, <1>3, <1>4, <1>5 DEF Trading!Signals

LEMMA SignalledBook ==
  ASSUME StudyFixed, NEW i \in 1 .. Trading!Bars, NEW q \in Trading!Markets(Trading!Day(i)),
         NEW b, BookOK(b), NEW passing, passing \subseteq Trading!Options,
         NEW s, s = Trading!Signal(i, Trading!Min(passing)),
         NEW r, r = Trading!Signalled(b, q, i, passing)
  PROVE  /\ BookOK(r) /\ r.equity = b.equity /\ r.trades = b.trades
         /\ IF b.active = <<>> /\ b.pending = <<>> /\ passing # {} /\ i < Trading!Bars
                 /\ ~Trading!MustSquareOff(Trading!Day(i), calendar.signal[Trading!Day(i)])
            THEN IF setup.lag = 0 THEN r.active = Trading!TryFill(b, q, i, s) /\ r.pending = b.pending
                                  ELSE r.active = b.active /\ r.pending = <<s>>
            ELSE r = b
<1> DEFINE C == b.active = <<>> /\ b.pending = <<>> /\ passing # {} /\ i < Trading!Bars
                 /\ ~Trading!MustSquareOff(Trading!Day(i), calendar.signal[Trading!Day(i)])
<1>1. CASE ~C
  BY <1>1 DEF Trading!Signalled, Trading!Flat
<1>2. CASE C
  <2>0. s \in Trading!Signals /\ b \in Books
    BY <1>2, SignalOfFirst DEF BookOK
  <2>1. CASE setup.lag = 0
    <3>1. PICK f : f = Trading!TryFill(b, q, i, s)
      OBVIOUS
    <3>2. f = <<>> \/ \E a \in Trading!Positions : f = <<a>>
      BY <2>0, <3>1, TryFillOpens DEF Opens
    <3>3. f \in Seq(Trading!Positions) /\ Len(f) <= 1
      <4> DEFINE S == Trading!Positions
      <4> HIDE DEF S
      <4>1. f = <<>> \/ \E a \in S : f = <<a>>
        BY <3>2 DEF S
      <4>2. f \in Seq(S) /\ Len(f) <= 1
        BY <4>1, ShortSeqs
      <4> QED BY <4>2 DEF S
    <3>4. r = [b EXCEPT !.active = f]
      BY <1>2, <2>1, <3>1 DEF Trading!Signalled, Trading!Flat
    <3>5. r \in Books /\ r.active = f /\ r.pending = b.pending /\ r.equity = b.equity /\ r.trades = b.trades
      BY <2>0, <3>3, <3>4 DEF Books
    <3> QED BY <1>2, <2>1, <3>1, <3>3, <3>5 DEF BookOK
  <2>2. CASE setup.lag # 0
    <3>1. PICK f : f = <<s>>
      OBVIOUS
    <3>2. f \in Seq(Trading!Signals) /\ Len(f) <= 1
      BY <2>0, <3>1, ShortSeqs
    <3>3. r = [b EXCEPT !.pending = f]
      BY <1>2, <2>2, <3>1 DEF Trading!Signalled, Trading!Flat
    <3>4. r \in Books /\ r.active = b.active /\ r.pending = f /\ r.equity = b.equity /\ r.trades = b.trades
      BY <2>0, <3>2, <3>3 DEF Books
    <3> QED BY <1>2, <2>2, <3>1, <3>2, <3>4 DEF BookOK
  <2> QED BY <2>1, <2>2
<1> QED BY <1>1, <1>2

LEMMA RobustBook ==
  ASSUME StudyFixed, NEW i \in 1 .. Trading!Bars, NEW q \in Trading!Markets(Trading!Day(i)),
         NEW b, BookOK(b), NEW passing, passing \subseteq Trading!Options
  PROVE  BookOK(Trading!RobustBar(b, q, i, passing))
<1>1. PICK f : f = Trading!Filled(b, q, i)
  OBVIOUS
<1>2. PICK m : m = Trading!Managed(f, q, i)
  OBVIOUS
<1>3. BookOK(f)
  BY <1>1, FilledBook
<1>4. BookOK(m)
  BY <1>2, <1>3, ManagedBook
<1>5. BookOK(Trading!Signalled(m, q, i, passing))
  BY <1>4, SignalledBook
<1> QED BY <1>1, <1>2, <1>5 DEF Trading!RobustBar

\* The price of what the old classes hold: today's row of option o, or what was paid.
OldPrice(b, q, e, o) ==
  IF Trading!Mark(q, e, o) = Trading!None THEN b.active[1].paid ELSE Trading!Mark(q, e, o)
OldView(q, e, o) ==
  IF Trading!Mark(q, e, o) = Trading!None THEN "fair" ELSE Trading!View(q, e, o)

LEMMA LegacyManagedBook ==
  ASSUME StudyFixed, NEW i \in 1 .. Trading!Bars, NEW q \in Trading!Markets(Trading!Day(i)),
         NEW b, BookOK(b), NEW e, NEW atm, NEW r, r = Trading!LegacyManaged(b, q, i, e, atm)
  PROVE  /\ BookOK(r)
         /\ b.active = <<>> => r = b
         /\ b.active # <<>> =>
              LET o == IF setup.kind = "RETAIL" THEN atm ELSE b.active[1].option
                  p == OldPrice(b, q, e, o)
              IN  /\ p \in Nat \ {0}
                  /\ IF Trading!Leaves(b.active[1], p, OldView(q, e, o), i)
                     THEN r = Trading!Closed(b, p, i, Trading!DefaultStt)
                     ELSE r = b
<1>1. CASE b.active = <<>>
  BY <1>1 DEF Trading!LegacyManaged, Trading!Flat
<1>2. CASE b.active # <<>>
  <2>1. PICK o, p : o = (IF setup.kind = "RETAIL" THEN atm ELSE b.active[1].option) /\ p = OldPrice(b, q, e, o)
    OBVIOUS
  <2>2. b.active[1].paid \in Nat \ {0}
    <3>1. b.active[1] \in Trading!Positions
      BY <1>2 DEF BookOK, Books
    <3> QED BY <3>1 DEF Trading!Positions
  <2>3. p \in Nat \ {0}
    BY <2>1, <2>2, MarksArePrices DEF OldPrice, Trading!None
  <2>4. r = IF Trading!Leaves(b.active[1], p, OldView(q, e, o), i)
            THEN Trading!Closed(b, p, i, Trading!DefaultStt) ELSE b
    BY <1>2, <2>1 DEF Trading!LegacyManaged, Trading!Flat, OldPrice, OldView
  <2>5. Trading!DefaultStt \in Nat
    BY DEF Trading!DefaultStt
  <2>6. BookOK(Trading!Closed(b, p, i, Trading!DefaultStt))
    BY <1>2, <2>3, <2>5, ClosedBook
  <2> QED BY <1>2, <2>1, <2>3, <2>4, <2>6
<1> QED BY <1>1, <1>2

LEMMA BuysBook ==
  ASSUME StudyFixed, NEW i \in 1 .. Trading!Bars, NEW q \in Trading!Markets(Trading!Day(i)),
         NEW b, BookOK(b), NEW e \in Int, NEW o, Trading!Mark(q, e, o) # 0,
         NEW r, r = [b EXCEPT !.active = Trading!Bought(q, i, e, o)]
  PROVE  BookOK(r) /\ r.active = Trading!Bought(q, i, e, o)
         /\ r.pending = b.pending /\ r.equity = b.equity /\ r.trades = b.trades
<1>1. PICK a : Trading!Bought(q, i, e, o) = <<a>> /\ a \in Trading!Positions
  BY BoughtOpens DEF Opens
<1>2. PICK f : f = <<a>>
  OBVIOUS
<1>3. f \in Seq(Trading!Positions) /\ Len(f) <= 1
  BY <1>1, <1>2, ShortSeqs
<1>4. r = [b EXCEPT !.active = f] /\ b \in Books
  BY <1>1, <1>2 DEF BookOK
<1>5. r \in Books /\ r.active = f /\ r.pending = b.pending /\ r.equity = b.equity /\ r.trades = b.trades
  BY <1>3, <1>4 DEF Books
<1> QED BY <1>1, <1>2, <1>3, <1>5 DEF BookOK

LEMMA RetailBook ==
  ASSUME StudyFixed, NEW i \in 1 .. Trading!Bars, NEW q \in Trading!Markets(Trading!Day(i)),
         NEW b, BookOK(b), NEW passing, NEW atm
  PROVE  BookOK(Trading!RetailBar(b, q, i, passing, atm))
<1>1. PICK e : e = calendar.signal[Trading!Day(i)]
  OBVIOUS
<1>2. PICK m : m = Trading!LegacyManaged(b, q, i, e, atm)
  OBVIOUS
<1>3. BookOK(m)
  BY <1>2, LegacyManagedBook
<1>4. e \in Int
  BY <1>1, StudyFacts
<1>5. Trading!Mark(q, e, atm) # 0 => BookOK([m EXCEPT !.active = Trading!Bought(q, i, e, atm)])
  BY <1>3, <1>4, BuysBook
<1>6. Trading!RetailBar(b, q, i, passing, atm) =
        IF e = 0 \/ Trading!Mark(q, e, atm) = 0 THEN b
        ELSE IF Trading!Flat(m) /\ atm \in passing /\ Trading!Affordable(m, Trading!Mark(q, e, atm))
             THEN [m EXCEPT !.active = Trading!Bought(q, i, e, atm)]
        ELSE m
  BY <1>1, <1>2 DEF Trading!RetailBar, Trading!None
<1> QED BY <1>3, <1>5, <1>6

\* Of the rows that pass, the ones the class can afford.
Within(b, q, i, passing) ==
  {x \in passing : Trading!Affordable(b, Trading!Mark(q, calendar.signal[Trading!Day(i)], x))}

\* What a bar of the mispricing classes does to the managed book m.
MispricingBuys(r, b, m, q, i, e, passing) ==
  IF e # 0 /\ m.active = <<>> /\ Within(m, q, i, passing) # {}
  THEN LET o == Trading!Min(Within(m, q, i, passing))
       IN  /\ o \in Within(m, q, i, passing) /\ \A x \in Within(m, q, i, passing) : o <= x
           /\ Trading!Mark(q, e, o) # 0
           /\ r.active = Trading!Bought(q, i, e, o)
           /\ r.pending = m.pending /\ r.equity = m.equity /\ r.trades = m.trades
  ELSE r = IF e = 0 THEN b ELSE m

LEMMA MispricingBook ==
  ASSUME StudyFixed, NEW i \in 1 .. Trading!Bars, NEW q \in Trading!Markets(Trading!Day(i)),
         NEW b, BookOK(b), NEW passing, passing \subseteq Dear(q, i), setup.masked = FALSE,
         NEW r, r = Trading!MispricingBar(b, q, i, passing),
         NEW e, e = calendar.signal[Trading!Day(i)],
         NEW m, m = Trading!LegacyManaged(b, q, i, e, Trading!None)
  PROVE  BookOK(r) /\ MispricingBuys(r, b, m, q, i, e, passing)
<1>1. BookOK(m) /\ e \in Int
  BY LegacyManagedBook, StudyFacts
<1>2. PICK W : W = Within(m, q, i, passing)
  OBVIOUS
<1>3. r = IF e # 0 /\ m.active = <<>> /\ W # {}
          THEN [m EXCEPT !.active = Trading!Bought(q, i, e, Trading!Min(W))]
          ELSE IF e = 0 THEN b ELSE m
  BY <1>2 DEF Trading!MispricingBar, Trading!None, Trading!Flat, Within
<1>4. CASE e # 0 /\ m.active = <<>> /\ W # {}
  <2>1. W \subseteq Dear(q, i) /\ W \subseteq Nat
    BY <1>2, StudyFacts DEF Within, Dear
  <2>2. PICK o : o = Trading!Min(W)
    OBVIOUS
  <2>3. o \in W /\ \A x \in W : o <= x
    BY <1>4, <2>1, <2>2, MinIsLeast
  <2>4. o \in Dear(q, i)
    BY <2>1, <2>3
  <2>5. q[<<e, o>>].close > 1000 /\ <<e, o>> \in DOMAIN q
    BY <2>4 DEF Dear
  <2>6. Trading!Mark(q, e, o) # 0
    <3>1. Trading!Mark(q, e, o) \in Nat
      BY MarksArePrices
    <3>2. Trading!Mark(q, e, o) = q[<<e, o>>].close
      BY <2>5 DEF Trading!Mark
    <3> QED BY <2>5, <3>1, <3>2
  <2>7. r = [m EXCEPT !.active = Trading!Bought(q, i, e, o)]
    BY <1>3, <1>4, <2>2
  <2>8. BookOK(r) /\ r.active = Trading!Bought(q, i, e, o)
         /\ r.pending = m.pending /\ r.equity = m.equity /\ r.trades = m.trades
    BY <1>1, <2>6, <2>7, BuysBook
  <2> QED BY <1>2, <1>4, <2>2, <2>3, <2>6, <2>8 DEF MispricingBuys
<1>5. CASE ~(e # 0 /\ m.active = <<>> /\ W # {})
  BY <1>1, <1>2, <1>3, <1>5 DEF MispricingBuys
<1> QED BY <1>4, <1>5

LEMMA MispricingIsBook ==
  ASSUME StudyFixed, NEW i \in 1 .. Trading!Bars, NEW q \in Trading!Markets(Trading!Day(i)),
         NEW b, BookOK(b), NEW passing, passing \subseteq Dear(q, i), setup.masked = FALSE
  PROVE  BookOK(Trading!MispricingBar(b, q, i, passing))
<1>1. PICK e : e = calendar.signal[Trading!Day(i)]
  OBVIOUS
<1>2. PICK m : m = Trading!LegacyManaged(b, q, i, e, Trading!None)
  OBVIOUS
<1>3. PICK r : r = Trading!MispricingBar(b, q, i, passing)
  OBVIOUS
<1>4. BookOK(r)
  BY <1>1, <1>2, <1>3, MispricingBook
<1> QED BY <1>3, <1>4

\* The first half of a bar of the lagged old class: the signal of the bar before is filled.
OldFilled(b, q, i) ==
  LET e == calendar.signal[Trading!Day(i)]
      p == Trading!Mark(q, e, b.pending[1].option)
  IN  IF b.active = <<>> /\ b.pending # <<>>
      THEN [b EXCEPT !.pending = <<>>,
                     !.active = IF p > 500 /\ Trading!Affordable(b, p)
                                THEN Trading!Bought(q, i, e, b.pending[1].option) ELSE <<>>]
      ELSE b

LEMMA OldFilledBook ==
  ASSUME StudyFixed, NEW i \in 1 .. Trading!Bars, NEW q \in Trading!Markets(Trading!Day(i)),
         NEW b, BookOK(b), NEW r, r = OldFilled(b, q, i),
         NEW e, e = calendar.signal[Trading!Day(i)],
         NEW p, p = Trading!Mark(q, e, b.pending[1].option)
  PROVE  /\ BookOK(r) /\ r.equity = b.equity /\ r.trades = b.trades /\ p \in Nat
         /\ IF b.active = <<>> /\ b.pending # <<>>
            THEN /\ r.pending = <<>>
                 /\ r.active = IF p > 500 /\ Trading!Affordable(b, p)
                               THEN Trading!Bought(q, i, e, b.pending[1].option) ELSE <<>>
            ELSE r = b
<1>0. p \in Nat
  BY MarksArePrices
<1>1. CASE b.active = <<>> /\ b.pending # <<>>
  <2>1. PICK f : f = IF p > 500 /\ Trading!Affordable(b, p)
                     THEN Trading!Bought(q, i, e, b.pending[1].option) ELSE <<>>
    OBVIOUS
  <2>2. e \in Int
    BY StudyFacts
  <2>3. f = <<>> \/ \E a \in Trading!Positions : f = <<a>>
    BY <1>0, <2>1, <2>2, BoughtOpens DEF Opens
  <2>4. f \in Seq(Trading!Positions) /\ Len(f) <= 1
    <3> DEFINE S == Trading!Positions
    <3> HIDE DEF S
    <3>1. f = <<>> \/ \E a \in S : f = <<a>>
      BY <2>3 DEF S
    <3>2. f \in Seq(S) /\ Len(f) <= 1
      BY <3>1, ShortSeqs
    <3> QED BY <3>2 DEF S
  <2>5. PICK z \in Seq(Trading!Signals) : z = <<>> /\ Len(z) <= 1
    BY ShortSeqs
  <2>6. r = [b EXCEPT !.pending = z, !.active = f]
    BY <1>1, <2>1, <2>5 DEF OldFilled
  <2>7. b \in Books
    BY DEF BookOK
  <2>8. r \in Books /\ r.active = f /\ r.pending = z /\ r.equity = b.equity /\ r.trades = b.trades
    BY <2>4, <2>6, <2>7 DEF Books
  <2> QED BY <1>0, <1>1, <2>1, <2>4, <2>5, <2>8 DEF BookOK
<1>2. CASE ~(b.active = <<>> /\ b.pending # <<>>)
  BY <1>0, <1>2 DEF OldFilled
<1> QED BY <1>1, <1>2

LEMMA UpgradedBook ==
  ASSUME StudyFixed, NEW i \in 1 .. Trading!Bars, NEW q \in Trading!Markets(Trading!Day(i)),
         NEW b, BookOK(b), NEW passing, passing \subseteq Trading!Options,
         NEW r, r = Trading!UpgradedBar(b, q, i, passing),
         NEW e, e = calendar.signal[Trading!Day(i)],
         NEW m, m = Trading!LegacyManaged(OldFilled(b, q, i), q, i, e, Trading!None),
         NEW s, s = Trading!Signal(i, Trading!Min(passing))
  PROVE  /\ BookOK(r)
         /\ IF e = 0 THEN r = b
            ELSE IF m.active = <<>> /\ m.pending = <<>> /\ passing # {} /\ i < Trading!Bars
            THEN r.pending = <<s>> /\ r.active = m.active /\ r.equity = m.equity /\ r.trades = m.trades
            ELSE r = m
<1>1. BookOK(m)
  <2>1. PICK f : f = OldFilled(b, q, i)
    OBVIOUS
  <2>2. BookOK(f)
    BY <2>1, OldFilledBook
  <2> QED BY <2>1, <2>2, LegacyManagedBook
<1> DEFINE C == m.active = <<>> /\ m.pending = <<>> /\ passing # {} /\ i < Trading!Bars
<1>2. r = IF e = 0 THEN b ELSE IF C THEN [m EXCEPT !.pending = <<s>>] ELSE m
  BY DEF Trading!UpgradedBar, OldFilled, Trading!Flat, Trading!None
<1>3. CASE e # 0 /\ C
  <2>1. s \in Trading!Signals
    BY <1>3, SignalOfFirst
  <2>2. PICK f \in Seq(Trading!Signals) : f = <<s>> /\ Len(f) <= 1
    BY <2>1, ShortSeqs
  <2>3. r = [m EXCEPT !.pending = f] /\ m \in Books
    BY <1>1, <1>2, <1>3, <2>2 DEF BookOK
  <2>4. r \in Books /\ r.active = m.active /\ r.pending = f /\ r.equity = m.equity /\ r.trades = m.trades
    BY <2>2, <2>3 DEF Books
  <2> QED BY <1>1, <1>3, <2>2, <2>4 DEF BookOK
<1>4. CASE ~(e # 0 /\ C)
  BY <1>1, <1>2, <1>4
<1> QED BY <1>3, <1>4

-----------------------------------------------------------------------------
PrintType == (1 .. bar) \X Int \X Trading!Options \X (Nat \ {0})

TradingTypes ==
  /\ StudyFixed /\ bar \in 0 .. Trading!Bars
  /\ BookOK(robust) /\ BookOK(legacy) /\ tight \in BOOLEAN
  /\ prints \subseteq PrintType
  /\ fund.date \in 0 .. Trading!Bars /\ fund.open \subseteq DOMAIN robust.trades
  /\ bar < Trading!Bars => fund.open = {}

\* The latest print of option o of expiry e on the bars from .. to is v.
LatestIs(P, e, o, from, to, v) ==
  \E y \in P : /\ y[2] = e /\ y[3] = o /\ y[1] \in from .. to /\ y[4] = v
               /\ \A x \in P : x[2] = e /\ x[3] = o /\ x[1] \in from .. to => x[1] <= y[1]

\* Up to bar n a position is at the latest price of its contract, and a trade was when it ended.
PositionPriced(a, P, n) ==
  <<a.bar, a.expiry, a.option, a.paid>> \in P /\ a.bar <= n
    /\ LatestIs(P, a.expiry, a.option, a.bar, n, a.last)
TradePriced(t, P, n) ==
  <<t.entry, t.expiry, t.option, t.paid>> \in P /\ t.exit <= n
    /\ LatestIs(P, t.expiry, t.option, t.entry, t.exit, t.got)

BookPriced(b, P, n) ==
  /\ b.active # <<>> => PositionPriced(b.active[1], P, n)
  /\ \A k \in DOMAIN b.trades : TradePriced(b.trades[k], P, n)

\* No contract has two prices on a bar.
OnePrice(P) == \A x, y \in P : x[1] = y[1] /\ x[2] = y[2] /\ x[3] = y[3] => x[4] = y[4]

\* What is held or signalled after bar n can still be sold before its expiry.
StillListed(n, e) == n >= 1 /\ ~Trading!MustSquareOff(Trading!Day(n), e)

BookSquared(b, n) ==
  /\ b.active # <<>> => StillListed(n, b.active[1].expiry)
  /\ b.pending # <<>> => StillListed(n, b.pending[1].expiry)
  /\ \A k \in DOMAIN b.trades :
       LET t == b.trades[k]
       IN  Trading!Day(t.exit) < t.expiry /\ t.expiry \in Trading!Listed(Trading!Day(t.exit))

EverySession == Trading!Sessions \subseteq Trading!Range(calendar.bars)

TradesInv ==
  /\ robust.active = <<>> \/ robust.pending = <<>>
  /\ OnePrice(prints)
  /\ setup.lock = TRUE => BookPriced(robust, prints, bar)
  /\ setup.lock = TRUE /\ EverySession => BookSquared(robust, bar)

TradingInv == TradingTypes /\ TradesInv

\* A bar, with what it works on named.
BarOf(q, atm, passing) ==
  /\ bar < Trading!Bars /\ bar' = bar + 1 /\ UNCHANGED <<setup, calendar, fund>>
  /\ q \in Trading!Markets(Trading!Day(bar'))
  /\ atm \in Trading!AtTheMoney /\ passing \in Trading!Passing(q, bar', atm)
  /\ robust' = Trading!RobustBar(robust, q, bar', passing)
  /\ legacy' = IF setup.legacy = FALSE THEN legacy
               ELSE IF setup.lag = 1 THEN Trading!UpgradedBar(legacy, q, bar', passing)
               ELSE IF setup.kind = "RETAIL" THEN Trading!RetailBar(legacy, q, bar', passing, atm)
               ELSE Trading!MispricingBar(legacy, q, bar', passing)
  /\ tight' = (tight \/ \E o \in passing, b \in {robust', legacy'} :
                 /\ Trading!Flat(b)
                 /\ ~Trading!Affordable(b, q[<<calendar.signal[Trading!Day(bar')], o>>].close))
  /\ prints' = prints \cup {h \in Trading!Held(Trading!Filled(robust, q, bar'), q, bar')
                                    \cup Trading!Held(robust', q, bar') : h[4] # Trading!None}

LEMMA BarIsOf ==
  ASSUME StudyFixed, Trading!Bar PROVE \E q, atm, passing : BarOf(q, atm, passing)
<1>1. setup.lag \in {0, 1} /\ setup.legacy \in BOOLEAN
  BY StudyFacts
<1> QED BY <1>1 DEF Trading!Bar, BarOf

\* What a bar prints: the marks of what was held on it.
PrintOf(a, q, i) == <<i, a.expiry, a.option, Trading!Mark(q, a.expiry, a.option)>>

LEMMA HeldPrints ==
  ASSUME NEW b, BookOK(b), NEW q, NEW i
  PROVE  Trading!Held(b, q, i) = IF b.active = <<>> THEN {} ELSE {PrintOf(b.active[1], q, i)}
<1>1. CASE b.active = <<>>
  <2>1. Trading!Range(b.active) = {}
    BY <1>1 DEF Trading!Range
  <2> QED BY <1>1, <2>1 DEF Trading!Held
<1>2. CASE b.active # <<>>
  <2>1. DOMAIN b.active = {1}
    BY <1>2 DEF BookOK, Books
  <2>2. Trading!Range(b.active) = {b.active[1]}
    BY <2>1 DEF Trading!Range
  <2> QED BY <1>2, <2>2 DEF Trading!Held, PrintOf
<1> QED BY <1>1, <1>2

LEMMA NewPrints ==
  ASSUME TradingTypes, NEW q, NEW atm, NEW passing, BarOf(q, atm, passing), BookOK(robust'),
         NEW f, f = Trading!Filled(robust, q, bar'), BookOK(f)
  PROVE  \A h : h \in prints' <=>
           \/ h \in prints
           \/ /\ h[4] # 0
              /\ \/ f.active # <<>> /\ h = PrintOf(f.active[1], q, bar')
                 \/ robust'.active # <<>> /\ h = PrintOf(robust'.active[1], q, bar')
<1>1. prints' = prints \cup {h \in Trading!Held(f, q, bar') \cup Trading!Held(robust', q, bar') : h[4] # 0}
  BY DEF BarOf, Trading!None
<1>2. Trading!Held(f, q, bar') = IF f.active = <<>> THEN {} ELSE {PrintOf(f.active[1], q, bar')}
  BY HeldPrints
<1>3. Trading!Held(robust', q, bar') =
        IF robust'.active = <<>> THEN {} ELSE {PrintOf(robust'.active[1], q, bar')}
  <2>1. PICK r, n : r = robust' /\ n = bar'
    OBVIOUS
  <2> QED BY <2>1, HeldPrints
<1> QED BY <1>1, <1>2, <1>3

LEMMA BarTypes ==
  ASSUME TradingTypes, NEW q, NEW atm, NEW passing, BarOf(q, atm, passing) PROVE TradingTypes'
<1>1. PICK i : i = bar' /\ i \in 1 .. Trading!Bars /\ i = bar + 1
  BY StudyFacts DEF TradingTypes, BarOf
<1>2. StudyFixed /\ StudyFixed' /\ UNCHANGED <<setup, calendar>>
  BY DEF TradingTypes, StudyFixed, BarOf
<1>3. Trading!Bars' = Trading!Bars /\ Trading!Options' = Trading!Options
      /\ Trading!Positions' = Trading!Positions /\ Trading!Signals' = Trading!Signals
      /\ Trading!Trades' = Trading!Trades
  BY <1>2 DEF Trading!Bars, Trading!Options, Trading!Positions, Trading!Signals, Trading!Trades
<1>4. q \in Trading!Markets(Trading!Day(i))
  BY <1>1, <1>2 DEF BarOf
<1>5. passing \subseteq Dear(q, i) /\ passing \subseteq Trading!Options
  <2>1. passing \in Trading!Passing(q, i, atm)
    BY <1>1 DEF BarOf
  <2>2. passing \subseteq Dear(q, i)
    BY <1>2, <2>1, PassingIsDear
  <2> QED BY <2>2 DEF Dear
<1>6. \A b : BookOK(b)' <=> BookOK(b)
  BY <1>3 DEF BookOK, Books
<1>7. BookOK(robust) /\ BookOK(legacy)
  BY DEF TradingTypes
<1>8. BookOK(Trading!RobustBar(robust, q, i, passing))
  BY <1>1, <1>2, <1>4, <1>5, <1>7, RobustBook
<1>9. PICK r : r = robust' /\ BookOK(r)
  BY <1>1, <1>8 DEF BarOf
<1>10. BookOK(robust)'
  BY <1>3, <1>9 DEF BookOK, Books
<1>11. PICK l : l = legacy' /\ BookOK(l)
  <2>1. CASE setup.legacy = FALSE
    BY <1>7, <2>1 DEF BarOf
  <2>2. CASE setup.legacy # FALSE /\ setup.lag = 1
    <3>1. BookOK(Trading!UpgradedBar(legacy, q, i, passing))
      BY <1>1, <1>2, <1>4, <1>5, <1>7, UpgradedBook
    <3> QED BY <1>1, <2>2, <3>1 DEF BarOf
  <2>3. CASE setup.legacy # FALSE /\ setup.lag # 1 /\ setup.kind = "RETAIL"
    <3>1. BookOK(Trading!RetailBar(legacy, q, i, passing, atm))
      BY <1>1, <1>2, <1>4, <1>7, RetailBook
    <3> QED BY <1>1, <2>3, <3>1 DEF BarOf
  <2>4. CASE setup.legacy # FALSE /\ setup.lag # 1 /\ setup.kind # "RETAIL"
    <3>1. setup.masked = FALSE
      BY <1>2, <2>4, StudyFacts
    <3>2. BookOK(Trading!MispricingBar(legacy, q, i, passing))
      BY <1>1, <1>2, <1>4, <1>5, <1>7, <3>1, MispricingIsBook
    <3> QED BY <1>1, <2>4, <3>2 DEF BarOf
  <2> QED BY <2>1, <2>2, <2>3, <2>4
<1>12. BookOK(legacy)'
  BY <1>3, <1>11 DEF BookOK, Books
<1>13. PICK f : f = Trading!Filled(robust, q, i) /\ BookOK(f)
  BY <1>1, <1>2, <1>4, <1>7, FilledBook
<1>14. BookOK(robust')
  BY <1>9
<1>15. \A b : BookOK(b) /\ b.active # <<>> =>
         /\ b.active[1].expiry \in Int /\ b.active[1].option \in Trading!Options
  <2> SUFFICES ASSUME NEW b, BookOK(b), b.active # <<>>
               PROVE  b.active[1].expiry \in Int /\ b.active[1].option \in Trading!Options
    OBVIOUS
  <2>1. b.active[1] \in Trading!Positions
    BY DEF BookOK, Books
  <2> QED BY <2>1 DEF Trading!Positions
<1>16. \A e, o : Trading!Mark(q, e, o) \in Nat
  BY <1>2, <1>4, MarksArePrices
<1>17. ASSUME NEW a, a.expiry \in Int, a.option \in Trading!Options, PrintOf(a, q, i)[4] # 0
       PROVE  PrintOf(a, q, i) \in (1 .. i) \X Int \X Trading!Options \X (Nat \ {0})
  <2>1. i \in 1 .. i
    BY <1>1
  <2>2. Trading!Mark(q, a.expiry, a.option) \in Nat \ {0}
    BY <1>16, <1>17 DEF PrintOf
  <2> QED BY <1>17, <2>1, <2>2 DEF PrintOf
<1>18. prints \subseteq (1 .. i) \X Int \X Trading!Options \X (Nat \ {0})
  <2>1. 1 .. bar \subseteq 1 .. i
    BY <1>1 DEF TradingTypes
  <2> QED BY <2>1 DEF TradingTypes, PrintType
<1>19. prints' \subseteq (1 .. i) \X Int \X Trading!Options \X (Nat \ {0})
  BY <1>1, <1>13, <1>14, <1>15, <1>17, <1>18, NewPrints
<1>20. (prints \subseteq PrintType)'
  BY <1>1, <1>3, <1>19 DEF PrintType
<1>21. tight' \in BOOLEAN
  BY DEF BarOf
<1>22. fund' = fund /\ fund.open = {} /\ fund.date \in 0 .. Trading!Bars
  BY DEF BarOf, TradingTypes
<1>23. bar' \in 0 .. Trading!Bars
  BY <1>1
<1> QED BY <1>2, <1>3, <1>10, <1>12, <1>20, <1>21, <1>22, <1>23 DEF TradingTypes

LEMMA AccountTypes ==
  ASSUME TradingTypes, Trading!Account PROVE TradingTypes'
<1>1. UNCHANGED <<setup, calendar, bar, robust, legacy, tight, prints>> /\ bar = Trading!Bars
      /\ fund.date < Trading!Bars
  BY DEF Trading!Account
<1>2. fund'.date = fund.date + 1
  BY DEF Trading!Account
<1>3. fund'.open \subseteq DOMAIN robust.trades
  BY DEF Trading!Account, TradingTypes, Trading!On
<1>4. Trading!Bars \in Nat /\ Trading!Bars' = Trading!Bars
  BY <1>1, StudyFacts DEF TradingTypes, Trading!Bars
<1>5. StudyFixed' /\ BookOK(robust)' /\ BookOK(legacy)' /\ (prints \subseteq PrintType)'
  BY <1>1 DEF TradingTypes, StudyFixed, BookOK, Books, PrintType, Trading!Bars, Trading!Options, Trading!Positions,
              Trading!Signals, Trading!Trades
<1>6. bar' \in 0 .. Trading!Bars /\ tight' \in BOOLEAN /\ robust' = robust
  BY <1>1 DEF TradingTypes
<1>7. fund'.date \in 0 .. Trading!Bars
  BY <1>1, <1>2, <1>4 DEF TradingTypes
<1>8. ~(bar' < Trading!Bars)
  BY <1>1, <1>4
<1> QED BY <1>3, <1>4, <1>5, <1>6, <1>7, <1>8 DEF TradingTypes

\* What bar i adds to the prints P, Q being the prints after it.
Adds(P, Q, q, i) ==
  /\ P \subseteq Q /\ \A x \in P : x[1] \in Int /\ x[1] < i
  /\ \A x \in Q : x \in P \/ (x[1] = i /\ x[4] # 0 /\ x[4] = Trading!Mark(q, x[2], x[3]))

LEMMA LatestKept ==
  ASSUME NEW P, NEW Q, NEW q, NEW i \in Int, Adds(P, Q, q, i),
         NEW e, NEW o, NEW from \in Int, NEW to \in Int, to < i, NEW v, LatestIs(P, e, o, from, to, v)
  PROVE  LatestIs(Q, e, o, from, to, v)
<1>1. PICK y \in P : /\ y[2] = e /\ y[3] = o /\ y[1] \in from .. to /\ y[4] = v
                     /\ \A x \in P : x[2] = e /\ x[3] = o /\ x[1] \in from .. to => x[1] <= y[1]
  BY DEF LatestIs
<1>2. y \in Q
  BY <1>1 DEF Adds
<1>3. \A x \in Q : x[1] \in from .. to => x \in P
  BY DEF Adds
<1> QED BY <1>1, <1>2, <1>3 DEF LatestIs

LEMMA LatestCarried ==
  ASSUME NEW P, NEW Q, NEW q, NEW i \in Int, Adds(P, Q, q, i),
         NEW e, NEW o, NEW from \in Int, NEW v, LatestIs(P, e, o, from, i - 1, v),
         Trading!Mark(q, e, o) = 0
  PROVE  LatestIs(Q, e, o, from, i, v)
<1>1. PICK y \in P : /\ y[2] = e /\ y[3] = o /\ y[1] \in from .. i - 1 /\ y[4] = v
                     /\ \A x \in P : x[2] = e /\ x[3] = o /\ x[1] \in from .. i - 1 => x[1] <= y[1]
  BY DEF LatestIs
<1>2. y \in Q /\ y[1] \in from .. i
  BY <1>1 DEF Adds
<1>3. ASSUME NEW x \in Q, x[2] = e, x[3] = o, x[1] \in from .. i PROVE x[1] <= y[1]
  <2>1. x \in P
    BY <1>3 DEF Adds
  <2>2. x[1] \in from .. i - 1
    BY <1>3, <2>1 DEF Adds
  <2> QED BY <1>1, <1>3, <2>1, <2>2
<1> QED BY <1>1, <1>2, <1>3 DEF LatestIs

LEMMA LatestIsNow ==
  ASSUME NEW P, NEW Q, NEW q, NEW i \in Int, Adds(P, Q, q, i),
         NEW e, NEW o, NEW from \in Int, from <= i, NEW p, <<i, e, o, p>> \in Q
  PROVE  LatestIs(Q, e, o, from, i, p)
<1>1. PICK y \in Q : y = <<i, e, o, p>>
  OBVIOUS
<1>2. y[1] = i /\ y[2] = e /\ y[3] = o /\ y[4] = p
  BY <1>1
<1>3. \A x \in Q : x[1] \in Int /\ x[1] <= i
  BY DEF Adds
<1> QED BY <1>2, <1>3 DEF LatestIs

\* Trades of the bars before stay at the prices they had.
LEMMA TradesStayPriced ==
  ASSUME NEW P, NEW Q, NEW q, NEW i \in Int, Adds(P, Q, q, i),
         NEW t \in Trading!Trades, TradePriced(t, P, i - 1)
  PROVE  TradePriced(t, Q, i)
<1>1. t.entry \in Int /\ t.exit \in Int
  BY DEF Trading!Trades
<1>2. t.exit < i /\ t.exit <= i
  BY <1>1 DEF TradePriced
<1>3. LatestIs(Q, t.expiry, t.option, t.entry, t.exit, t.got)
  BY <1>1, <1>2, LatestKept DEF TradePriced
<1> QED BY <1>2, <1>3 DEF TradePriced, Adds

\* What is held on a bar was printed when it was bought, and is managed at its latest print.
LEMMA HeldIsPriced ==
  ASSUME StudyFixed, setup.lock = TRUE, NEW i \in 1 .. Trading!Bars,
         NEW q \in Trading!Markets(Trading!Day(i)), NEW b, BookOK(b),
         NEW f, f = Trading!Filled(b, q, i), f.active # <<>>, NEW a, a = f.active[1],
         NEW P, NEW Q, Adds(P, Q, q, i), BookPriced(b, P, i - 1),
         Trading!Mark(q, a.expiry, a.option) # 0 => PrintOf(a, q, i) \in Q
  PROVE  /\ <<a.bar, a.expiry, a.option, a.paid>> \in Q /\ a.bar <= i
         /\ LatestIs(Q, a.expiry, a.option, a.bar, i, Trading!Price(f, q, i))
<1>1. BookOK(f)
  BY FilledBook
<1>2. a \in Trading!Positions
  BY <1>1 DEF BookOK, Books
<1>3. a.bar \in Int /\ a.bar <= Trading!Bars
  BY <1>2 DEF Trading!Positions
<1>4. PICK p : p = Trading!Mark(q, a.expiry, a.option)
  OBVIOUS
<1>5. Trading!Price(f, q, i) = IF p # 0 THEN p ELSE a.last
  BY <1>4 DEF Trading!Price, Trading!PricedOn, Trading!None
<1>6. CASE b.active = <<>> /\ b.pending # <<>>
  <2>1. f.active = Trading!TryFill(b, q, i, b.pending[1])
    BY <1>6, FilledBook
  <2>2. b.pending[1] \in Trading!Signals
    BY <1>6 DEF BookOK, Books
  <2>3. PICK s \in Trading!Signals : s = b.pending[1]
    BY <2>2
  <2>4. Trading!PricedOn(Trading!Day(i), s.expiry) = s.expiry
    BY DEF Trading!PricedOn
  <2>5. PICK v : v = Trading!Mark(q, s.expiry, s.option)
    OBVIOUS
  <2>6. v > 500 /\ \E c : Trading!TryFill(b, q, i, s) = <<c>> /\ Opens(c, q, i, s.expiry, s.option, s.expiry)
    BY <2>1, <2>3, <2>4, <2>5, TryFillOpens
  <2>7. Opens(a, q, i, s.expiry, s.option, s.expiry)
    BY <2>1, <2>3, <2>6
  <2>8. a.bar = i /\ a.paid = v /\ p = v /\ PrintOf(a, q, i) = <<i, a.expiry, a.option, a.paid>>
    BY <1>4, <2>5, <2>7 DEF Opens, PrintOf
  <2>9. v # 0
    <3>1. v \in Nat
      BY <2>5, MarksArePrices
    <3> QED BY <2>6, <3>1
  <2>10. <<i, a.expiry, a.option, a.paid>> \in Q
    BY <1>4, <2>8, <2>9
  <2>11. LatestIs(Q, a.expiry, a.option, a.bar, i, a.paid)
    BY <2>8, <2>10, LatestIsNow
  <2> QED BY <1>5, <2>8, <2>9, <2>10, <2>11
<1>7. CASE ~(b.active = <<>> /\ b.pending # <<>>)
  <2>1. f = b
    BY <1>7, FilledBook
  <2>2. PositionPriced(a, P, i - 1)
    BY <2>1 DEF BookPriced
  <2>3. <<a.bar, a.expiry, a.option, a.paid>> \in Q /\ a.bar <= i
    BY <1>3, <2>2 DEF PositionPriced, Adds
  <2>4. CASE p = 0
    <3>1. LatestIs(Q, a.expiry, a.option, a.bar, i, a.last)
      <4>1. PICK e, o, from, v : e = a.expiry /\ o = a.option /\ from = a.bar /\ v = a.last
        OBVIOUS
      <4>2. LatestIs(P, e, o, from, i - 1, v) /\ Trading!Mark(q, e, o) = 0
        BY <1>4, <2>2, <2>4, <4>1 DEF PositionPriced
      <4>3. i \in Int /\ from \in Int
        BY <1>3, <4>1
      <4>4. LatestIs(Q, e, o, from, i, v)
        BY <4>2, <4>3, LatestCarried
      <4> QED BY <4>1, <4>4
    <3> QED BY <1>5, <2>3, <2>4, <3>1
  <2>5. CASE p # 0
    <3>1. <<i, a.expiry, a.option, p>> \in Q
      BY <1>4, <2>5 DEF PrintOf
    <3>2. LatestIs(Q, a.expiry, a.option, a.bar, i, p)
      BY <1>3, <2>3, <3>1, LatestIsNow
    <3> QED BY <1>5, <2>3, <2>5, <3>2
  <2> QED BY <2>4, <2>5
<1> QED BY <1>6, <1>7

LEMMA ManagedIsPriced ==
  ASSUME StudyFixed, setup.lock = TRUE, NEW i \in 1 .. Trading!Bars,
         NEW q \in Trading!Markets(Trading!Day(i)), NEW b, BookOK(b),
         NEW f, f = Trading!Filled(b, q, i), NEW m, m = Trading!Managed(f, q, i),
         NEW P, NEW Q, Adds(P, Q, q, i), BookPriced(b, P, i - 1),
         f.active # <<>> /\ Trading!Mark(q, f.active[1].expiry, f.active[1].option) # 0
           => PrintOf(f.active[1], q, i) \in Q
  PROVE  BookPriced(m, Q, i)
<1>1. BookOK(f) /\ f.trades = b.trades
  BY FilledBook
<1>2. \A k \in DOMAIN b.trades : b.trades[k] \in Trading!Trades
  BY DEF BookOK, Books
<1>3. \A k \in DOMAIN f.trades : TradePriced(f.trades[k], Q, i)
  <2> SUFFICES ASSUME NEW k \in DOMAIN b.trades PROVE TradePriced(b.trades[k], Q, i)
    BY <1>1
  <2>1. TradePriced(b.trades[k], P, i - 1) /\ b.trades[k] \in Trading!Trades
    BY <1>2 DEF BookPriced
  <2> QED BY <2>1, TradesStayPriced
<1>4. CASE f.active = <<>>
  <2>1. m = f
    BY <1>1, <1>4, ManagedBook
  <2> QED BY <1>3, <1>4, <2>1 DEF BookPriced
<1>5. CASE f.active # <<>>
  <2>1. PICK a, p : a = f.active[1] /\ p = Trading!Price(f, q, i)
    OBVIOUS
  <2>2. /\ <<a.bar, a.expiry, a.option, a.paid>> \in Q /\ a.bar <= i
        /\ LatestIs(Q, a.expiry, a.option, a.bar, i, p)
    BY <1>5, <2>1, HeldIsPriced
  <2>3. p \in Nat \ {0}
    BY <1>1, <1>5, <2>1, PriceOfHeld
  <2>4. CASE Trading!Leaves(a, p, ViewOfHeld(f, q, i), i) \/ Trading!MustSquareOff(Trading!Day(i), a.expiry)
    <3>1. PICK stt, t : /\ stt = Trading!SttRate(Trading!Day(i)) /\ stt \in Nat
                        /\ t = TradeOf(a, p, i, stt)
      BY DEF Trading!SttRate
    <3>2. m = Trading!Closed(f, p, i, stt)
      BY <1>1, <1>5, <2>1, <2>4, <3>1, ManagedBook
    <3>3. m.active = <<>> /\ m.trades = Append(f.trades, t) /\ t \in Trading!Trades
      <4>1. t = TradeOf(f.active[1], p, i, stt) /\ stt \in Nat
        BY <2>1, <3>1
      <4>2. StudyFixed /\ BookOK(f) /\ i \in 1 .. Trading!Bars
        BY <1>1
      <4>3. m = Trading!Closed(f, p, i, stt)
        BY <3>2
      <4> HIDE DEF StudyFixed
      <4> QED BY <1>5, <2>3, <4>1, <4>2, <4>3, ClosedBook
    <3>4. t.entry = a.bar /\ t.exit = i /\ t.expiry = a.expiry /\ t.option = a.option /\ t.paid = a.paid /\ t.got = p
      BY <3>1 DEF TradeOf
    <3>5. TradePriced(t, Q, i)
      BY <2>2, <3>4 DEF TradePriced
    <3>6. f.trades \in Seq(Trading!Trades)
      BY <1>1 DEF BookOK, Books
    <3>7. \A k \in DOMAIN m.trades : TradePriced(m.trades[k], Q, i)
      <4>1. \A k \in DOMAIN m.trades : \/ k \in DOMAIN f.trades /\ m.trades[k] = f.trades[k]
                                       \/ m.trades[k] = t
        BY <3>3, <3>6
      <4> QED BY <1>3, <3>5, <4>1
    <3> QED BY <3>3, <3>7 DEF BookPriced
  <2>5. CASE ~(Trading!Leaves(a, p, ViewOfHeld(f, q, i), i) \/ Trading!MustSquareOff(Trading!Day(i), a.expiry))
    <3>1. PICK c \in Trading!Positions :
                  /\ m.active = <<c>> /\ c.bar = a.bar /\ c.expiry = a.expiry /\ c.option = a.option
                  /\ c.paid = a.paid /\ c.last = p /\ m.trades = f.trades
      BY <1>1, <1>5, <2>1, <2>5, ManagedBook
    <3>2. PositionPriced(c, Q, i) /\ m.active[1] = c
      BY <2>2, <3>1 DEF PositionPriced
    <3> QED BY <1>3, <3>1, <3>2 DEF BookPriced
  <2> QED BY <2>4, <2>5
<1> QED BY <1>4, <1>5

LEMMA SignalledIsPriced ==
  ASSUME StudyFixed, setup.lock = TRUE, NEW i \in 1 .. Trading!Bars,
         NEW q \in Trading!Markets(Trading!Day(i)), NEW m, BookOK(m),
         NEW passing, passing \subseteq Trading!Options,
         NEW r, r = Trading!Signalled(m, q, i, passing),
         NEW P, NEW Q, Adds(P, Q, q, i), BookPriced(m, Q, i),
         r.active # <<>> /\ Trading!Mark(q, r.active[1].expiry, r.active[1].option) # 0
           => PrintOf(r.active[1], q, i) \in Q
  PROVE  BookPriced(r, Q, i)
<1>1. PICK s : s = Trading!Signal(i, Trading!Min(passing))
  OBVIOUS
<1>2. CASE r = m
  BY <1>2
<1>3. CASE r # m
  <2>1. r.trades = m.trades /\ passing # {}
        /\ IF setup.lag = 0 THEN r.active = Trading!TryFill(m, q, i, s) ELSE r.active = <<>>
    BY <1>1, <1>3, SignalledBook
  <2>2. CASE r.active = <<>>
    BY <2>1, <2>2 DEF BookPriced
  <2>3. CASE r.active # <<>>
    <3>1. s \in Trading!Signals
      BY <1>1, <2>1, SignalOfFirst
    <3>2. PICK on, p : on = Trading!PricedOn(Trading!Day(i), s.expiry) /\ p = Trading!Mark(q, on, s.option)
      OBVIOUS
    <3>3. on = s.expiry
      BY <3>2 DEF Trading!PricedOn
    <3>4. p > 500 /\ \E a : Trading!TryFill(m, q, i, s) = <<a>> /\ Opens(a, q, i, s.expiry, s.option, on)
      BY <2>1, <2>3, <3>1, <3>2, TryFillOpens
    <3>5. PICK a : r.active = <<a>> /\ Opens(a, q, i, s.expiry, s.option, on)
      BY <2>1, <2>3, <3>4
    <3>6. p # 0
      <4>1. p \in Nat
        BY <3>2, MarksArePrices
      <4> QED BY <3>4, <4>1
    <3>7. a.bar = i /\ a.last = a.paid /\ a.paid = p /\ Trading!Mark(q, a.expiry, a.option) = p /\ a = r.active[1]
      BY <3>2, <3>3, <3>5 DEF Opens
    <3>8. <<i, a.expiry, a.option, a.paid>> \in Q
      BY <2>3, <3>6, <3>7 DEF PrintOf
    <3>9. LatestIs(Q, a.expiry, a.option, a.bar, i, a.last)
      BY <3>7, <3>8, LatestIsNow
    <3>10. PositionPriced(a, Q, i)
      BY <3>7, <3>8, <3>9 DEF PositionPriced
    <3> QED BY <1>3, <2>1, <3>7, <3>10 DEF BookPriced
  <2> QED BY <2>2, <2>3
<1> QED BY <1>2, <1>3

\* On a day without a listing nothing trades and nothing has a price.
LEMMA IdleIsPriced ==
  ASSUME StudyFixed, NEW i \in 1 .. Trading!Bars,
         NEW q \in Trading!Markets(Trading!Day(i)), Trading!Day(i) \notin Trading!Sessions,
         NEW b, BookOK(b), NEW P, NEW Q, Adds(P, Q, q, i), BookPriced(b, P, i - 1)
  PROVE  BookPriced(b, Q, i)
<1>1. \A e, o : Trading!Mark(q, e, o) = 0
  <2>1. Trading!Listed(Trading!Day(i)) = {}
    BY StudyFacts DEF Trading!Sessions
  <2> QED BY <2>1, MarksArePrices
<1>2. \A k \in DOMAIN b.trades : TradePriced(b.trades[k], Q, i)
  <2> SUFFICES ASSUME NEW k \in DOMAIN b.trades PROVE TradePriced(b.trades[k], Q, i)
    OBVIOUS
  <2>1. TradePriced(b.trades[k], P, i - 1) /\ b.trades[k] \in Trading!Trades
    BY DEF BookPriced, BookOK, Books
  <2> QED BY <2>1, TradesStayPriced
<1>3. CASE b.active = <<>>
  BY <1>2, <1>3 DEF BookPriced
<1>4. CASE b.active # <<>>
  <2>1. PICK a : a = b.active[1]
    OBVIOUS
  <2>2. a \in Trading!Positions /\ PositionPriced(a, P, i - 1)
    BY <1>4, <2>1 DEF BookPriced, BookOK, Books
  <2>3. a.bar \in Int /\ a.bar <= i
    BY <2>2 DEF PositionPriced, Trading!Positions
  <2>4. <<a.bar, a.expiry, a.option, a.paid>> \in Q
    BY <2>2 DEF PositionPriced, Adds
  <2>5. LatestIs(Q, a.expiry, a.option, a.bar, i, a.last)
    <3>1. PICK e, o, from, v : e = a.expiry /\ o = a.option /\ from = a.bar /\ v = a.last
      OBVIOUS
    <3>2. LatestIs(P, e, o, from, i - 1, v) /\ Trading!Mark(q, e, o) = 0
      BY <1>1, <2>2, <3>1 DEF PositionPriced
    <3>3. i \in Int /\ from \in Int
      BY <2>3, <3>1
    <3>4. LatestIs(Q, e, o, from, i, v)
      BY <3>2, <3>3, LatestCarried
    <3> QED BY <3>1, <3>4
  <2> QED BY <1>2, <2>1, <2>3, <2>4, <2>5 DEF BookPriced, PositionPriced
<1> QED BY <1>3, <1>4

LEMMA RobustIsPriced ==
  ASSUME StudyFixed, setup.lock = TRUE, NEW i \in 1 .. Trading!Bars,
         NEW q \in Trading!Markets(Trading!Day(i)), NEW b, BookOK(b),
         NEW passing, passing \subseteq Trading!Options,
         NEW f, f = Trading!Filled(b, q, i), NEW r, r = Trading!RobustBar(b, q, i, passing),
         NEW P, NEW Q, Adds(P, Q, q, i), BookPriced(b, P, i - 1),
         f.active # <<>> /\ Trading!Mark(q, f.active[1].expiry, f.active[1].option) # 0
           => PrintOf(f.active[1], q, i) \in Q,
         r.active # <<>> /\ Trading!Mark(q, r.active[1].expiry, r.active[1].option) # 0
           => PrintOf(r.active[1], q, i) \in Q
  PROVE  BookPriced(r, Q, i)
<1>1. CASE Trading!Day(i) \notin Trading!Sessions
  <2>1. r = b
    BY <1>1 DEF Trading!RobustBar
  <2> QED BY <1>1, <2>1, IdleIsPriced
<1>2. CASE Trading!Day(i) \in Trading!Sessions
  <2>1. PICK m : m = Trading!Managed(f, q, i)
    OBVIOUS
  <2>2. r = Trading!Signalled(m, q, i, passing)
    BY <1>2, <2>1 DEF Trading!RobustBar
  <2>3. BookPriced(m, Q, i)
    BY <2>1, ManagedIsPriced
  <2>4. BookOK(m)
    BY <2>1, FilledBook, ManagedBook
  <2> QED BY <2>2, <2>3, <2>4, SignalledIsPriced
<1> QED BY <1>1, <1>2

-----------------------------------------------------------------------------
\* A contract that could be sold on the session after bar n can be sold on bar n + 1.
LEMMA NextSession ==
  ASSUME StudyFixed, setup.lock = TRUE, EverySession, NEW n \in Nat, n + 1 <= Trading!Bars,
         NEW e \in Int, StillListed(n, e)
  PROVE  IF Trading!Day(n + 1) \in Trading!Sessions
         THEN Trading!Day(n + 1) < e /\ e \in Trading!Listed(Trading!Day(n + 1))
         ELSE StillListed(n + 1, e)
<1> DEFINE Later(d) == {s \in Trading!Sessions : s > d}
<1>1. PICK i, d, c : i = n + 1 /\ d = Trading!Day(i) /\ c = Trading!Day(n)
  OBVIOUS
<1>2. n \in 1 .. Trading!Bars /\ i \in 1 .. Trading!Bars /\ i \in Nat
  BY <1>1, StudyFacts DEF StillListed
<1>3. c \in Nat /\ d \in Nat /\ c < d
  BY <1>1, <1>2, StudyFacts
<1>4. \A s \in Later(c) : s \in Nat /\ d <= s
  <2> SUFFICES ASSUME NEW s \in Later(c) PROVE s \in Nat /\ d <= s
    OBVIOUS
  <2>1. PICK j \in 1 .. Trading!Bars : s = Trading!Day(j)
    <3>1. DOMAIN calendar.bars = 1 .. Trading!Bars
      BY StudyTypes DEF Trading!Calendars, Trading!Bars
    <3> QED BY <3>1 DEF EverySession, Trading!Range, Trading!Day
  <2>2. s \in Nat /\ s > c
    BY StudyFacts
  <2>3. j > n
    <3>1. \A k, l \in 1 .. Trading!Bars : k < l => Trading!Day(k) < Trading!Day(l)
      BY StudyFacts
    <3>2. j = n \/ j < n \/ j > n
      BY <1>2
    <3> QED BY <1>1, <1>2, <1>3, <2>1, <2>2, <3>1, <3>2
  <2>4. j = i \/ i < j
    BY <1>1, <1>2, <2>3
  <2>5. i < j => Trading!Day(i) < Trading!Day(j)
    BY <1>2, StudyFacts
  <2> QED BY <1>1, <1>3, <2>1, <2>2, <2>4, <2>5
<1>5. Later(c) # {} /\ e \in Trading!Listed(Trading!Min(Later(c))) /\ ~(e - Trading!Min(Later(c)) < 1)
  BY <1>1 DEF StillListed, Trading!MustSquareOff
<1>6. CASE d \in Trading!Sessions
  <2>1. d \in Later(c)
    BY <1>3, <1>6
  <2>2. Later(c) \subseteq Nat
    BY StudyFacts
  <2>3. PICK m : m = Trading!Min(Later(c))
    OBVIOUS
  <2>4. m \in Later(c) /\ m <= d
    BY <2>1, <2>2, <2>3, MinIsLeast
  <2>5. m = d
    BY <1>3, <1>4, <2>4
  <2>6. d < e
    BY <1>3, <1>5, <2>3, <2>5
  <2> QED BY <1>1, <1>5, <1>6, <2>3, <2>5, <2>6
<1>7. CASE d \notin Trading!Sessions
  <2>1. Later(d) = Later(c)
    <3>1. \A s \in Later(c) : s > d
      BY <1>3, <1>4, <1>7
    <3>2. \A s \in Trading!Sessions : s \in Nat
      BY StudyFacts
    <3> QED BY <1>3, <3>1, <3>2
  <2>2. ~Trading!MustSquareOff(d, e)
    BY <1>5, <2>1 DEF Trading!MustSquareOff
  <2> QED BY <1>1, <1>2, <1>7, <2>2 DEF StillListed
<1> QED BY <1>6, <1>7

\* Nothing can be sold after the last bar.
LEMMA NothingAfterTheEnd ==
  ASSUME StudyFixed, setup.lock = TRUE, EverySession, NEW e, StillListed(Trading!Bars, e)
  PROVE  FALSE
<1>1. PICK n : n = Trading!Bars /\ n \in Nat /\ n >= 1
  BY StudyFacts DEF StillListed
<1>2. DOMAIN calendar.bars = 1 .. n
  BY <1>1, StudyTypes DEF Trading!Calendars, Trading!Bars
<1>3. {s \in Trading!Sessions : s > Trading!Day(n)} = {}
  <2> SUFFICES ASSUME NEW s \in Trading!Sessions, s > Trading!Day(n) PROVE FALSE
    OBVIOUS
  <2>1. PICK j \in 1 .. n : s = Trading!Day(j)
    BY <1>2 DEF EverySession, Trading!Range, Trading!Day
  <2>2. \A k, l \in 1 .. n : k < l => Trading!Day(k) < Trading!Day(l)
    BY <1>1, StudyFacts
  <2>3. \A k \in 1 .. n : Trading!Day(k) \in Nat
    BY <1>1, StudyFacts
  <2>4. n \in 1 .. n /\ (j = n \/ j < n)
    BY <1>1
  <2> QED BY <2>1, <2>2, <2>3, <2>4
<1> QED BY <1>1, <1>3 DEF StillListed, Trading!MustSquareOff

\* With a signal pending nothing is held, so a session leaves none pending that it did not make.
LEMMA FilledLeavesNone ==
  ASSUME StudyFixed, NEW i \in 1 .. Trading!Bars, NEW q \in Trading!Markets(Trading!Day(i)),
         NEW b, BookOK(b), b.active = <<>> \/ b.pending = <<>>,
         NEW f, f = Trading!Filled(b, q, i), NEW m, m = Trading!Managed(f, q, i)
  PROVE  f.pending = <<>> /\ m.pending = <<>>
<1>1. f.pending = <<>> /\ BookOK(f)
  BY FilledBook
<1>2. CASE f.active = <<>>
  BY <1>1, <1>2, ManagedBook
<1>3. CASE f.active # <<>>
  <2>1. PICK p, stt : p = Trading!Price(f, q, i) /\ stt = Trading!SttRate(Trading!Day(i))
    OBVIOUS
  <2>2. m = Trading!Closed(f, p, i, stt) \/ m.pending = f.pending
    BY <1>1, <1>3, <2>1, ManagedBook
  <2>3. ASSUME m = Trading!Closed(f, p, i, stt) PROVE m.pending = f.pending
    <3>1. p \in Nat \ {0} /\ stt \in Nat
      BY <1>1, <1>3, <2>1, PriceOfHeld DEF Trading!SttRate
    <3> QED BY <1>1, <1>3, <2>3, <3>1, ClosedBook
  <2> QED BY <1>1, <2>2, <2>3
<1> QED BY <1>2, <1>3

LEMMA OneAtATime ==
  ASSUME StudyFixed, NEW i \in 1 .. Trading!Bars, NEW q \in Trading!Markets(Trading!Day(i)),
         NEW b, BookOK(b), b.active = <<>> \/ b.pending = <<>>,
         NEW passing, passing \subseteq Trading!Options, NEW r, r = Trading!RobustBar(b, q, i, passing)
  PROVE  r.active = <<>> \/ r.pending = <<>>
<1>1. CASE Trading!Day(i) \notin Trading!Sessions
  BY <1>1 DEF Trading!RobustBar
<1>2. CASE Trading!Day(i) \in Trading!Sessions
  <2>1. PICK f : f = Trading!Filled(b, q, i)
    OBVIOUS
  <2>2. PICK m : m = Trading!Managed(f, q, i)
    OBVIOUS
  <2>3. r = Trading!Signalled(m, q, i, passing)
    BY <1>2, <2>1, <2>2 DEF Trading!RobustBar
  <2>4. BookOK(m) /\ m.pending = <<>>
    <3>1. BookOK(f)
      BY <2>1, FilledBook
    <3>2. BookOK(m)
      BY <2>2, <3>1, ManagedBook
    <3> QED BY <2>1, <2>2, <3>2, FilledLeavesNone
  <2>5. PICK s : s = Trading!Signal(i, Trading!Min(passing))
    OBVIOUS
  <2> QED BY <2>3, <2>4, <2>5, SignalledBook
<1> QED BY <1>1, <1>2

\* The trades of a book that were squared off in time.
InTime(trades) ==
  \A k \in DOMAIN trades :
    LET t == trades[k]
    IN  Trading!Day(t.exit) < t.expiry /\ t.expiry \in Trading!Listed(Trading!Day(t.exit))

LEMMA ManagedIsSquared ==
  ASSUME StudyFixed, setup.lock = TRUE, EverySession, NEW i \in 1 .. Trading!Bars,
         NEW q \in Trading!Markets(Trading!Day(i)), Trading!Day(i) \in Trading!Sessions,
         NEW b, BookOK(b), BookSquared(b, i - 1),
         NEW f, f = Trading!Filled(b, q, i), NEW m, m = Trading!Managed(f, q, i)
  PROVE  InTime(m.trades) /\ (m.active # <<>> => StillListed(i, m.active[1].expiry))
<1>1. BookOK(f) /\ f.trades = b.trades
  BY FilledBook
<1>2. InTime(f.trades)
  BY <1>1 DEF BookSquared, InTime
<1>3. CASE f.active = <<>>
  <2>1. m = f
    BY <1>1, <1>3, ManagedBook
  <2> QED BY <1>2, <1>3, <2>1
<1>4. CASE f.active # <<>>
  <2>1. PICK a, p : a = f.active[1] /\ p = Trading!Price(f, q, i)
    OBVIOUS
  <2>2. a \in Trading!Positions /\ a.expiry \in Int
    <3>1. a \in Trading!Positions
      BY <1>1, <1>4, <2>1 DEF BookOK, Books
    <3> QED BY <3>1 DEF Trading!Positions
  <2>3. StillListed(i - 1, a.expiry)
    <3>1. CASE b.active = <<>> /\ b.pending # <<>>
      <4>1. f.active = Trading!TryFill(b, q, i, b.pending[1])
        BY <3>1, FilledBook
      <4>2. PICK s \in Trading!Signals : s = b.pending[1]
        BY <3>1 DEF BookOK, Books
      <4>3. PICK on, v : on = Trading!PricedOn(Trading!Day(i), s.expiry) /\ v = Trading!Mark(q, on, s.option)
        OBVIOUS
      <4>4. \E c : Trading!TryFill(b, q, i, s) = <<c>> /\ Opens(c, q, i, s.expiry, s.option, on)
        BY <1>4, <4>1, <4>2, <4>3, TryFillOpens
      <4>5. a.expiry = s.expiry
        BY <2>1, <4>1, <4>2, <4>4 DEF Opens
      <4> QED BY <3>1, <4>2, <4>5 DEF BookSquared
    <3>2. CASE ~(b.active = <<>> /\ b.pending # <<>>)
      <4>1. f = b
        BY <3>2, FilledBook
      <4> QED BY <1>4, <2>1, <4>1 DEF BookSquared
    <3> QED BY <3>1, <3>2
  <2>4. Trading!Day(i) < a.expiry /\ a.expiry \in Trading!Listed(Trading!Day(i))
    <3>1. PICK n \in Nat : n = i - 1 /\ n + 1 = i
      OBVIOUS
    <3>2. n + 1 <= Trading!Bars
      BY <3>1, StudyFacts
    <3> QED BY <2>2, <2>3, <3>1, <3>2, NextSession
  <2>5. CASE Trading!Leaves(a, p, ViewOfHeld(f, q, i), i) \/ Trading!MustSquareOff(Trading!Day(i), a.expiry)
    <3>1. PICK stt, t : /\ stt = Trading!SttRate(Trading!Day(i)) /\ stt \in Nat
                        /\ t = TradeOf(a, p, i, stt)
      BY DEF Trading!SttRate
    <3>2. m = Trading!Closed(f, p, i, stt)
      BY <1>1, <1>4, <2>1, <2>5, <3>1, ManagedBook
    <3>3. p \in Nat \ {0}
      BY <1>1, <1>4, <2>1, PriceOfHeld
    <3>4. m.active = <<>> /\ m.trades = Append(f.trades, t)
      <4>1. t = TradeOf(f.active[1], p, i, stt) /\ stt \in Nat
        BY <2>1, <3>1
      <4> QED BY <1>1, <1>4, <3>2, <3>3, <4>1, ClosedBook
    <3>5. t.exit = i /\ t.expiry = a.expiry
      BY <3>1 DEF TradeOf
    <3>6. f.trades \in Seq(Trading!Trades)
      BY <1>1 DEF BookOK, Books
    <3>7. \A k \in DOMAIN m.trades : \/ k \in DOMAIN f.trades /\ m.trades[k] = f.trades[k]
                                     \/ m.trades[k] = t
      BY <3>4, <3>6
    <3>8. InTime(m.trades)
      BY <1>2, <2>4, <3>5, <3>7 DEF InTime
    <3> QED BY <3>4, <3>8
  <2>6. CASE ~(Trading!Leaves(a, p, ViewOfHeld(f, q, i), i) \/ Trading!MustSquareOff(Trading!Day(i), a.expiry))
    <3>1. PICK c \in Trading!Positions : m.active = <<c>> /\ c.expiry = a.expiry /\ m.trades = f.trades
      BY <1>1, <1>4, <2>1, <2>6, ManagedBook
    <3>2. m.active[1].expiry = a.expiry /\ StillListed(i, a.expiry)
      BY <2>6, <3>1 DEF StillListed
    <3> QED BY <1>2, <3>1, <3>2
  <2> QED BY <2>5, <2>6
<1> QED BY <1>3, <1>4

LEMMA RobustIsSquared ==
  ASSUME StudyFixed, setup.lock = TRUE, EverySession, NEW i \in 1 .. Trading!Bars,
         NEW q \in Trading!Markets(Trading!Day(i)),
         NEW b, BookOK(b), BookSquared(b, i - 1), b.active = <<>> \/ b.pending = <<>>,
         NEW passing, passing \subseteq Trading!Options, NEW r, r = Trading!RobustBar(b, q, i, passing)
  PROVE  BookSquared(r, i)
<1>1. CASE Trading!Day(i) \notin Trading!Sessions
  <2>1. r = b
    BY <1>1 DEF Trading!RobustBar
  <2>2. \A e \in Int : StillListed(i - 1, e) => StillListed(i, e)
    <3>1. PICK n \in Nat : n = i - 1 /\ n + 1 = i
      OBVIOUS
    <3>2. n + 1 <= Trading!Bars
      BY <3>1, StudyFacts
    <3> QED BY <1>1, <3>1, <3>2, NextSession
  <2>3. b.active # <<>> => b.active[1].expiry \in Int
    <3>1. b.active # <<>> => b.active[1] \in Trading!Positions
      BY DEF BookOK, Books
    <3> QED BY <3>1 DEF Trading!Positions
  <2>4. b.pending # <<>> => b.pending[1].expiry \in Int
    <3>1. b.pending # <<>> => b.pending[1] \in Trading!Signals
      BY DEF BookOK, Books
    <3> QED BY <3>1 DEF Trading!Signals
  <2> QED BY <2>1, <2>2, <2>3, <2>4 DEF BookSquared
<1>2. CASE Trading!Day(i) \in Trading!Sessions
  <2>1. PICK f : f = Trading!Filled(b, q, i)
    OBVIOUS
  <2>2. PICK m : m = Trading!Managed(f, q, i)
    OBVIOUS
  <2>3. r = Trading!Signalled(m, q, i, passing)
    BY <1>2, <2>1, <2>2 DEF Trading!RobustBar
  <2>4. BookOK(m) /\ m.pending = <<>>
    <3>1. BookOK(f)
      BY <2>1, FilledBook
    <3>2. BookOK(m)
      BY <2>2, <3>1, ManagedBook
    <3> QED BY <2>1, <2>2, <3>2, FilledLeavesNone
  <2>5. InTime(m.trades) /\ (m.active # <<>> => StillListed(i, m.active[1].expiry))
    BY <1>2, <2>1, <2>2, ManagedIsSquared
  <2>6. CASE r = m
    BY <2>4, <2>5, <2>6 DEF BookSquared, InTime
  <2>7. CASE r # m
    <3>1. PICK s : s = Trading!Signal(i, Trading!Min(passing))
      OBVIOUS
    <3>2. /\ r.trades = m.trades /\ passing # {}
          /\ ~Trading!MustSquareOff(Trading!Day(i), calendar.signal[Trading!Day(i)])
          /\ IF setup.lag = 0 THEN r.active = Trading!TryFill(m, q, i, s) /\ r.pending = <<>>
                              ELSE r.active = <<>> /\ r.pending = <<s>>
      BY <2>3, <2>4, <2>7, <3>1, SignalledBook
    <3>3. s \in Trading!Signals /\ s.expiry = calendar.signal[Trading!Day(i)]
      BY <3>1, <3>2, SignalOfFirst
    <3>4. StillListed(i, s.expiry)
      BY <3>2, <3>3 DEF StillListed
    <3>5. r.pending # <<>> => r.pending[1].expiry = s.expiry
      BY <3>2
    <3>6. r.active # <<>> => r.active[1].expiry = s.expiry
      <4>1. PICK on, v : on = Trading!PricedOn(Trading!Day(i), s.expiry) /\ v = Trading!Mark(q, on, s.option)
        OBVIOUS
      <4>2. r.active # <<>> =>
              \E c : Trading!TryFill(m, q, i, s) = <<c>> /\ Opens(c, q, i, s.expiry, s.option, on)
        BY <3>2, <3>3, <4>1, TryFillOpens
      <4>3. \A c : Opens(c, q, i, s.expiry, s.option, on) => c.expiry = s.expiry
        BY DEF Opens
      <4> QED BY <3>2, <4>2, <4>3
    <3> QED BY <2>5, <3>2, <3>4, <3>5, <3>6 DEF BookSquared, InTime
  <2> QED BY <2>6, <2>7
<1> QED BY <1>1, <1>2

-----------------------------------------------------------------------------
LEMMA BarAdds ==
  ASSUME TradingTypes, NEW q, NEW atm, NEW passing, BarOf(q, atm, passing), BookOK(robust'),
         NEW f, f = Trading!Filled(robust, q, bar'), BookOK(f), NEW i, i = bar'
  PROVE  Adds(prints, prints', q, i)
<1>1. \A x \in prints : x[1] \in Int /\ x[1] < i
  <2>1. i = bar + 1 /\ bar \in Nat
    BY StudyFacts DEF TradingTypes, BarOf
  <2>2. \A x \in prints : x[1] \in 1 .. bar
    BY DEF TradingTypes, PrintType
  <2> QED BY <2>1, <2>2
<1>2. \A h : h \in prints' <=>
        \/ h \in prints
        \/ /\ h[4] # 0
           /\ \/ f.active # <<>> /\ h = PrintOf(f.active[1], q, i)
              \/ robust'.active # <<>> /\ h = PrintOf(robust'.active[1], q, i)
  BY NewPrints
<1>3. \A a : LET h == PrintOf(a, q, i) IN h[1] = i /\ h[4] = Trading!Mark(q, h[2], h[3])
  BY DEF PrintOf
<1> QED BY <1>1, <1>2, <1>3 DEF Adds

LEMMA AddsKeepOnePrice ==
  ASSUME NEW P, NEW Q, NEW q, NEW i \in Int, Adds(P, Q, q, i), OnePrice(P) PROVE OnePrice(Q)
<1> SUFFICES ASSUME NEW x \in Q, NEW y \in Q, x[1] = y[1], x[2] = y[2], x[3] = y[3] PROVE x[4] = y[4]
  BY DEF OnePrice
<1>1. CASE x \in P /\ y \in P
  BY <1>1 DEF OnePrice
<1>2. CASE ~(x \in P /\ y \in P)
  <2>1. x[1] = i /\ y[1] = i /\ x \notin P /\ y \notin P
    BY <1>2 DEF Adds
  <2> QED BY <2>1 DEF Adds
<1> QED BY <1>1, <1>2

LEMMA BarTrades ==
  ASSUME TradingInv, NEW q, NEW atm, NEW passing, BarOf(q, atm, passing) PROVE TradesInv'
<1>1. PICK i : i = bar' /\ i \in 1 .. Trading!Bars /\ i = bar + 1 /\ i - 1 = bar
  BY StudyFacts DEF TradingInv, TradingTypes, BarOf
<1>2. StudyFixed /\ UNCHANGED <<setup, calendar>> /\ TradingTypes /\ TradesInv /\ BookOK(robust)
  BY DEF TradingInv, TradingTypes, BarOf
<1>3. q \in Trading!Markets(Trading!Day(i))
  BY <1>1, <1>2 DEF BarOf
<1>4. passing \subseteq Trading!Options
  <2>1. passing \in Trading!Passing(q, i, atm)
    BY <1>1 DEF BarOf
  <2>2. passing \subseteq Dear(q, i)
    BY <1>2, <2>1, PassingIsDear
  <2> QED BY <2>2 DEF Dear
<1>5. PICK r : r = robust' /\ r = Trading!RobustBar(robust, q, i, passing)
  BY <1>1 DEF BarOf
<1>6. PICK f : f = Trading!Filled(robust, q, i) /\ BookOK(f)
  BY <1>1, <1>2, <1>3, FilledBook
<1>7. PICK Q : Q = prints'
  OBVIOUS
<1>8. BookOK(r) /\ BookOK(robust')
  BY <1>1, <1>2, <1>3, <1>4, <1>5, RobustBook
<1>9. Adds(prints, Q, q, i)
  BY <1>1, <1>2, <1>6, <1>7, <1>8, BarAdds
<1>10. /\ f.active # <<>> /\ Trading!Mark(q, f.active[1].expiry, f.active[1].option) # 0
           => PrintOf(f.active[1], q, i) \in Q
       /\ r.active # <<>> /\ Trading!Mark(q, r.active[1].expiry, r.active[1].option) # 0
           => PrintOf(r.active[1], q, i) \in Q
  <2>1. \A a : PrintOf(a, q, i)[4] = Trading!Mark(q, a.expiry, a.option)
    BY DEF PrintOf
  <2>2. \A h : h \in Q <=>
        \/ h \in prints
        \/ /\ h[4] # 0
           /\ \/ f.active # <<>> /\ h = PrintOf(f.active[1], q, i)
              \/ r.active # <<>> /\ h = PrintOf(r.active[1], q, i)
    BY <1>1, <1>2, <1>5, <1>6, <1>7, <1>8, NewPrints
  <2> QED BY <2>1, <2>2
<1>11. r.active = <<>> \/ r.pending = <<>>
  BY <1>1, <1>2, <1>3, <1>4, <1>5, OneAtATime DEF TradesInv
<1>12. OnePrice(Q)
  BY <1>1, <1>2, <1>9, AddsKeepOnePrice DEF TradesInv
<1>13. setup.lock = TRUE => BookPriced(r, Q, i)
  <2> SUFFICES ASSUME setup.lock = TRUE PROVE BookPriced(r, Q, i)
    OBVIOUS
  <2>1. BookPriced(robust, prints, i - 1)
    BY <1>1, <1>2 DEF TradesInv
  <2> QED BY <1>1, <1>2, <1>3, <1>4, <1>5, <1>6, <1>9, <1>10, <2>1, RobustIsPriced
<1>14. setup.lock = TRUE /\ EverySession => BookSquared(r, i)
  <2> SUFFICES ASSUME setup.lock = TRUE, EverySession PROVE BookSquared(r, i)
    OBVIOUS
  <2>1. BookSquared(robust, i - 1) /\ (robust.active = <<>> \/ robust.pending = <<>>)
    BY <1>1, <1>2 DEF TradesInv
  <2> QED BY <1>1, <1>2, <1>3, <1>4, <1>5, <2>1, RobustIsSquared
<1>15. BookPriced(robust, prints, bar)' <=> BookPriced(r, Q, i)
  BY <1>1, <1>5, <1>7 DEF BookPriced, PositionPriced, TradePriced, LatestIs
<1>16. BookSquared(robust, bar)' <=> BookSquared(r, i)
  BY <1>1, <1>2, <1>5 DEF BookSquared, StillListed, Trading!MustSquareOff, Trading!Day, Trading!Listed,
                          Trading!Sessions
<1>17. EverySession' <=> EverySession
  BY <1>2 DEF EverySession, Trading!Sessions, Trading!Listed
<1>18. OnePrice(prints)'
  BY <1>7, <1>12 DEF OnePrice
<1> QED BY <1>2, <1>5, <1>11, <1>13, <1>14, <1>15, <1>16, <1>17, <1>18 DEF TradesInv

LEMMA TradingStarts == Trading!Init => TradingInv
<1> SUFFICES ASSUME Trading!Init PROVE TradingInv
  OBVIOUS
<1>1. PICK s \in Studies : setup = s.setup /\ calendar = s.calendar
  BY DEF Trading!Init
<1>2. StudyFixed
  <2>1. s \in [setup : Trading!Setups, calendar : Trading!Calendars]
    BY TradingConstants
  <2>2. s = [setup |-> s.setup, calendar |-> s.calendar]
    BY <2>1
  <2> QED BY <1>1, <2>2 DEF StudyFixed
<1>3. Trading!Bars \in Nat /\ setup.capital \in Nat
  BY <1>2, StudyFacts
<1>4. PICK b : b = Trading!Book
  OBVIOUS
<1>5. PICK x \in Seq(Trading!Positions), y \in Seq(Trading!Signals), z \in Seq(Trading!Trades) :
        x = <<>> /\ y = <<>> /\ z = <<>> /\ Len(x) <= 1 /\ Len(y) <= 1
  BY ShortSeqs
<1>6. b = [active |-> x, pending |-> y, equity |-> setup.capital, trades |-> z]
  BY <1>4, <1>5 DEF Trading!Book
<1>7. BookOK(b) /\ b.active = <<>> /\ b.pending = <<>> /\ b.trades = z
  BY <1>3, <1>5, <1>6 DEF BookOK, Books
<1>8. /\ bar = 0 /\ robust = b /\ legacy = b /\ tight = FALSE /\ prints = {}
      /\ fund.date = 0 /\ fund.open = {}
  BY <1>4 DEF Trading!Init
<1>9. DOMAIN robust.trades = {}
  BY <1>5, <1>7, <1>8
<1>10. TradingTypes
  <2>1. BookOK(robust) /\ BookOK(legacy)
    BY <1>7, <1>8
  <2>2. bar \in 0 .. Trading!Bars /\ fund.date \in 0 .. Trading!Bars
    BY <1>3, <1>8
  <2>3. tight \in BOOLEAN /\ prints \subseteq PrintType /\ fund.open \subseteq DOMAIN robust.trades
    BY <1>8
  <2> QED BY <1>2, <1>8, <2>1, <2>2, <2>3 DEF TradingTypes
<1>11. TradesInv
  BY <1>7, <1>8, <1>9 DEF TradesInv, OnePrice, BookPriced, BookSquared
<1> QED BY <1>10, <1>11 DEF TradingInv

LEMMA TradesAlone ==
  ASSUME TradesInv, UNCHANGED <<setup, calendar, bar, robust, prints>> PROVE TradesInv'
BY DEF TradesInv, OnePrice, BookPriced, PositionPriced, TradePriced, LatestIs, BookSquared, StillListed,
       EverySession, Trading!MustSquareOff, Trading!Sessions, Trading!Listed, Trading!Day

LEMMA TradingAlone == ASSUME TradingInv, UNCHANGED tradingVars PROVE TradingInv'
<1>1. UNCHANGED <<setup, calendar, bar, robust, legacy, tight, prints, fund>>
  BY DEF tradingVars
<1>2. TradingTypes'
  BY <1>1 DEF TradingInv, TradingTypes, StudyFixed, BookOK, Books, PrintType, Trading!Bars, Trading!Options,
              Trading!Positions, Trading!Signals, Trading!Trades
<1> QED BY <1>1, <1>2, TradesAlone DEF TradingInv

LEMMA TradingStep == ASSUME TradingInv, [Trading!Next]_tradingVars PROVE TradingInv'
<1>1. CASE Trading!Bar
  <2>1. PICK q, atm, passing : BarOf(q, atm, passing)
    BY <1>1, BarIsOf DEF TradingInv, TradingTypes
  <2> QED BY <2>1, BarTypes, BarTrades DEF TradingInv
<1>2. CASE Trading!Account
  <2>1. UNCHANGED <<setup, calendar, bar, robust, prints>>
    BY <1>2 DEF Trading!Account
  <2> QED BY <1>2, <2>1, AccountTypes, TradesAlone DEF TradingInv
<1>3. CASE UNCHANGED tradingVars
  BY <1>3, TradingAlone
<1> QED BY <1>1, <1>2, <1>3 DEF Trading!Next

LEMMA TradingAlways == PathsSpec => []TradingInv
<1>1. PathsInit => TradingInv
  BY TradingStarts DEF PathsInit
<1>2. TradingInv /\ [PathsNext]_allVars => TradingInv'
  <2> SUFFICES ASSUME TradingInv, [PathsNext]_allVars PROVE TradingInv'
    OBVIOUS
  <2>1. [Trading!Next]_tradingVars
    BY DEF PathsNext, allVars, moreVars, tradingVars
  <2> QED BY <2>1, TradingStep
<1> QED BY <1>1, <1>2, PTL DEF PathsSpec

LEMMA BookIsOK == ASSUME NEW b, BookOK(b) PROVE Trading!BookOK(b)
<1>1. ASSUME NEW S, NEW s \in Seq(S) PROVE Trading!Range(s) \subseteq S
  BY <1>1 DEF Trading!Range
<1>2. /\ b.active \in Seq(Trading!Positions) /\ b.pending \in Seq(Trading!Signals)
      /\ b.trades \in Seq(Trading!Trades) /\ b.equity \in Int
      /\ Len(b.active) <= 1 /\ Len(b.pending) <= 1
  BY DEF BookOK, Books
<1>3. /\ Trading!Range(b.active) \subseteq Trading!Positions
      /\ Trading!Range(b.pending) \subseteq Trading!Signals
      /\ Trading!Range(b.trades) \subseteq Trading!Trades
  BY <1>1, <1>2
<1> QED BY <1>2, <1>3 DEF Trading!BookOK

LEMMA TradingImplies == ASSUME TradingInv PROVE Trading!TypeOK /\ Trading!TradesAreHonest
<1>1. StudyFixed /\ TradingTypes /\ TradesInv /\ BookOK(robust) /\ BookOK(legacy)
  BY DEF TradingInv, TradingTypes
<1>2. robust.trades \in Seq(Trading!Trades)
  BY <1>1 DEF BookOK, Books
<1>3. setup.lock \in BOOLEAN
  BY <1>1, StudyFacts
<1>4. Trading!TypeOK
  <2>1. \A h \in prints : h[1] \in 1 .. bar /\ h[3] \in Trading!Options /\ h[4] \in Nat \ {0}
    BY <1>1 DEF TradingTypes, PrintType
  <2>2. Trading!BookOK(robust) /\ Trading!BookOK(legacy)
    BY <1>1, BookIsOK
  <2> QED BY <1>1, <2>1, <2>2 DEF TradingTypes, StudyFixed, Trading!TypeOK
<1>5. Trading!HonestPrices
  <2> SUFFICES ASSUME setup.lock, NEW t \in Trading!Range(robust.trades)
               PROVE  <<t.entry, t.expiry, t.option, t.paid>> \in prints /\ Trading!Latest(t) = {t.got}
    BY DEF Trading!HonestPrices
  <2>1. TradePriced(t, prints, bar) /\ OnePrice(prints)
    <3>1. setup.lock = TRUE
      BY <1>3
    <3>2. PICK k \in DOMAIN robust.trades : t = robust.trades[k]
      BY <1>2 DEF Trading!Range
    <3> QED BY <1>1, <3>1, <3>2 DEF TradesInv, BookPriced
  <2>2. t.entry \in Int /\ t.exit \in Int
    <3>1. t \in Trading!Trades
      BY <1>2 DEF Trading!Range
    <3> QED BY <3>1 DEF Trading!Trades
  <2> DEFINE own == {h \in prints : h[2] = t.expiry /\ h[3] = t.option /\ h[1] \in t.entry .. t.exit}
             last == {x \in own : \A y \in own : y[1] <= x[1]}
  <2>3. PICK y \in own : y[4] = t.got /\ \A x \in own : x[1] <= y[1]
    BY <2>1 DEF TradePriced, LatestIs
  <2>4. \A x \in last : x[4] = t.got
    <3> SUFFICES ASSUME NEW x \in last PROVE x[4] = t.got
      OBVIOUS
    <3>1. x[1] <= y[1] /\ y[1] <= x[1] /\ x[1] \in Int /\ y[1] \in Int
      BY <2>2, <2>3
    <3>2. x[1] = y[1]
      BY <3>1
    <3> QED BY <2>1, <2>3, <3>2 DEF OnePrice
  <2>5. y \in last
    BY <2>3
  <2>6. {h[4] : h \in last} = {t.got}
    BY <2>3, <2>4, <2>5
  <2>7. Trading!Latest(t) = {h[4] : h \in last}
    BY DEF Trading!Latest
  <2> QED BY <2>1, <2>6, <2>7 DEF TradePriced
<1>6. Trading!SquaredOff
  <2> SUFFICES ASSUME setup.lock, Trading!Sessions \subseteq Trading!Range(calendar.bars)
               PROVE  /\ \A t \in Trading!Range(robust.trades) :
                           /\ Trading!Day(t.exit) < t.expiry
                           /\ t.expiry \in Trading!Listed(Trading!Day(t.exit))
                      /\ bar = Trading!Bars => Trading!Flat(robust) /\ robust.pending = <<>>
    BY DEF Trading!SquaredOff
  <2>1. setup.lock = TRUE /\ EverySession /\ BookSquared(robust, bar)
    BY <1>1, <1>3 DEF EverySession, TradesInv
  <2>2. \A t \in Trading!Range(robust.trades) :
           Trading!Day(t.exit) < t.expiry /\ t.expiry \in Trading!Listed(Trading!Day(t.exit))
    BY <1>2, <2>1 DEF BookSquared, Trading!Range
  <2>3. bar = Trading!Bars => robust.active = <<>> /\ robust.pending = <<>>
    BY <1>1, <2>1, NothingAfterTheEnd DEF BookSquared
  <2> QED BY <2>2, <2>3 DEF Trading!Flat
<1> QED BY <1>4, <1>5, <1>6 DEF Trading!TradesAreHonest

-----------------------------------------------------------------------------
(* Sums.  A sum is a fold over the subsets of a finite set: a table with a *)
(* total for every subset, of which there is exactly one.                  *)

Total(F, S) == Trading!SumFunctionOnSet(F, S)
One(s) == CHOOSE x \in s : TRUE

\* The table G holds a total for every subset of S with at most n elements.
TableTo(F, S, G, n) ==
  /\ G \in [SUBSET S -> Int]
  /\ \A s \in SUBSET S :
       Cardinality(s) <= n => G[s] = IF s = {} THEN 0 ELSE F[One(s)] + G[s \ {One(s)}]

Tabulates(F, S, G) ==
  \A s \in SUBSET S : G[s] = IF s = {} THEN 0 ELSE F[One(s)] + G[s \ {One(s)}]

Table(F, S, G) == G \in [SUBSET S -> Int] /\ Tabulates(F, S, G)

LEMMA OneIsIn == ASSUME NEW s, s # {} PROVE One(s) \in s
BY DEF One

\* In a set of subsets of a finite set there is one that contains no other.
LEMMA MinimalSubset ==
  ASSUME NEW S, IsFiniteSet(S), NEW B, B \subseteq SUBSET S, B # {}
  PROVE  \E s \in B : IsFiniteSet(s) /\ \A t \in B : t \subseteq s => t = s
<1>1. \A s \in B : IsFiniteSet(s) /\ Cardinality(s) \in Nat
  <2> SUFFICES ASSUME NEW s \in B PROVE IsFiniteSet(s) /\ Cardinality(s) \in Nat
    OBVIOUS
  <2>1. IsFiniteSet(s)
    BY FS_Subset
  <2> QED BY <2>1, FS_CardinalityType
<1> DEFINE N == {Cardinality(s) : s \in B}
<1>2. N \subseteq Nat /\ N # {}
  BY <1>1
<1>3. PICK n \in N : \A m \in N : n <= m
  BY <1>2, LeastNumber
<1>4. PICK s \in B : n = Cardinality(s)
  OBVIOUS
<1>5. ASSUME NEW t \in B, t \subseteq s PROVE t = s
  <2>1. Cardinality(t) <= Cardinality(s) /\ (Cardinality(s) = Cardinality(t) => t = s)
    BY <1>1, <1>5, FS_Subset
  <2>2. n <= Cardinality(t) /\ Cardinality(t) \in Nat /\ n \in Nat
    BY <1>1, <1>2, <1>3
  <2> QED BY <1>4, <2>1, <2>2
<1> QED BY <1>1, <1>5

LEMMA TablesTo ==
  ASSUME NEW S, IsFiniteSet(S), NEW F, \A x \in S : F[x] \in Int
  PROVE  \A n \in Nat : \E G : TableTo(F, S, G, n)
<1>0. \A s \in SUBSET S : IsFiniteSet(s) /\ Cardinality(s) \in Nat
  <2> SUFFICES ASSUME NEW s \in SUBSET S PROVE IsFiniteSet(s) /\ Cardinality(s) \in Nat
    OBVIOUS
  <2>1. IsFiniteSet(s)
    BY FS_Subset
  <2> QED BY <2>1, FS_CardinalityType
<1> DEFINE Bad == {n \in Nat : ~\E G : TableTo(F, S, G, n)}
<1>1. SUFFICES ASSUME Bad # {} PROVE FALSE
  OBVIOUS
<1>2. PICK n \in Bad : \A m \in Bad : n <= m
  BY <1>1, LeastNumber
<1>3. CASE n = 0
  <2> DEFINE G == [s \in SUBSET S |-> 0]
  <2>1. \A s \in SUBSET S : Cardinality(s) <= 0 => s = {}
    <3> SUFFICES ASSUME NEW s \in SUBSET S, Cardinality(s) <= 0 PROVE s = {}
      OBVIOUS
    <3>1. IsFiniteSet(s) /\ Cardinality(s) = 0
      BY <1>0
    <3> QED BY <3>1, FS_EmptySet
  <2>2. TableTo(F, S, G, 0)
    BY <2>1 DEF TableTo
  <2> QED BY <1>2, <1>3, <2>2
<1>4. CASE n # 0
  <2>1. n - 1 \in Nat /\ n - 1 \notin Bad
    BY <1>2, <1>4
  <2>2. PICK G : TableTo(F, S, G, n - 1)
    BY <2>1
  <2> DEFINE H == [s \in SUBSET S |-> IF s = {} THEN 0 ELSE IF Cardinality(s) = n
                                     THEN F[One(s)] + G[s \ {One(s)}] ELSE G[s]]
  <2>3. G \in [SUBSET S -> Int]
    BY <2>2 DEF TableTo
  <2>4. \A s \in SUBSET S : s # {} => /\ One(s) \in S /\ F[One(s)] \in Int /\ s \ {One(s)} \in SUBSET S
                                      /\ G[s \ {One(s)}] \in Int
    BY <2>3, OneIsIn
  <2>5. H \in [SUBSET S -> Int]
    <3>1. \A s \in SUBSET S : H[s] \in Int
      BY <2>3, <2>4
    <3> QED BY <3>1
  <2>6. ASSUME NEW s \in SUBSET S, Cardinality(s) <= n
        PROVE  H[s] = IF s = {} THEN 0 ELSE F[One(s)] + H[s \ {One(s)}]
    <3>1. CASE s = {}
      BY <3>1
    <3>2. CASE s # {}
      <4>1. PICK t \in SUBSET S : t = s \ {One(s)}
        OBVIOUS
      <4>2. Cardinality(t) = Cardinality(s) - 1
        BY <1>0, <3>2, <4>1, OneIsIn, FS_RemoveElement
      <4>3. Cardinality(t) \in Nat /\ Cardinality(s) \in Nat /\ n \in Nat
        BY <1>0, <1>2
      <4>4. Cardinality(t) # n /\ Cardinality(t) <= n - 1
        BY <2>6, <4>2, <4>3
      <4>5. H[t] = G[t]
        <5>1. CASE t = {}
          BY <2>2, <4>4, <5>1 DEF TableTo
        <5>2. CASE t # {}
          BY <4>4, <5>2
        <5> QED BY <5>1, <5>2
      <4>6. CASE Cardinality(s) = n
        BY <3>2, <4>1, <4>5, <4>6
      <4>7. CASE Cardinality(s) # n
        <5>1. Cardinality(s) <= n - 1
          BY <2>6, <4>3, <4>7
        <5>2. G[s] = F[One(s)] + G[t]
          BY <2>2, <3>2, <4>1, <5>1 DEF TableTo
        <5> QED BY <3>2, <4>1, <4>5, <4>7, <5>2
      <4> QED BY <4>6, <4>7
    <3> QED BY <3>1, <3>2
  <2> HIDE DEF H
  <2>7. TableTo(F, S, H, n)
    BY <2>5, <2>6 DEF TableTo
  <2> QED BY <1>2, <2>7
<1> QED BY <1>3, <1>4

LEMMA TableExists ==
  ASSUME NEW S, IsFiniteSet(S), NEW F, \A x \in S : F[x] \in Int
  PROVE  \E G : Table(F, S, G)
<1>1. PICK n : n = Cardinality(S) /\ n \in Nat
  BY FS_CardinalityType
<1>2. PICK G : TableTo(F, S, G, n)
  BY <1>1, TablesTo
<1>3. \A s \in SUBSET S : Cardinality(s) <= n
  BY <1>1, FS_Subset
<1> QED BY <1>2, <1>3 DEF TableTo, Table, Tabulates

\* Two tables agree, on whatever both have a total for.
LEMMA TablesAgree ==
  ASSUME NEW S, IsFiniteSet(S), NEW F, NEW G, NEW H, Tabulates(F, S, G), Tabulates(F, S, H)
  PROVE  \A s \in SUBSET S : G[s] = H[s]
<1> DEFINE B == {s \in SUBSET S : G[s] # H[s]}
<1>1. SUFFICES ASSUME B # {} PROVE FALSE
  OBVIOUS
<1>0. B \subseteq SUBSET S
  OBVIOUS
<1>2. PICK s \in B : \A t \in B : t \subseteq s => t = s
  <2> HIDE DEF B
  <2> QED BY <1>0, <1>1, MinimalSubset
<1>3. s # {}
  BY <1>2 DEF Tabulates
<1>4. PICK t : t = s \ {One(s)}
  OBVIOUS
<1>5. t \in SUBSET S /\ t \subseteq s /\ t # s
  BY <1>3, <1>4, OneIsIn
<1>6. G[t] = H[t]
  BY <1>2, <1>5
<1> QED BY <1>2, <1>3, <1>4, <1>6 DEF Tabulates

LEMMA TotalIsTable ==
  ASSUME NEW S, IsFiniteSet(S), NEW F, NEW G, Table(F, S, G)
  PROVE  Total(F, S) = G[S]
<1> DEFINE Is(iter) == iter = [s \in SUBSET S |-> IF s = {} THEN 0 ELSE F[One(s)] + iter[s \ {One(s)}]]
           iter == CHOOSE h : Is(h)
<1>1. Is(G)
  BY DEF Table, Tabulates
<1>2. Is(iter)
  BY <1>1
<1>3. Total(F, S) = iter[S]
  BY DEF Total, One, Trading!SumFunctionOnSet, Trading!FoldFunctionOnSet, Trading!MapThenFoldSet
<1> HIDE DEF iter
<1>4. Tabulates(F, S, iter)
  BY <1>2 DEF Tabulates
<1>5. Tabulates(F, S, G)
  BY DEF Table
<1>6. \A s \in SUBSET S : iter[s] = G[s]
  BY <1>4, <1>5, TablesAgree
<1> QED BY <1>3, <1>6

LEMMA TotalOfNone == ASSUME NEW F PROVE Total(F, {}) = 0
<1>1. IsFiniteSet({})
  BY FS_EmptySet
<1>2. PICK G : Table(F, {}, G)
  BY <1>1, TableExists
<1> QED BY <1>1, <1>2, TotalIsTable DEF Table, Tabulates

\* Totals of integers, and what functions give on a set decides its total.
LEMMA TotalIsInt ==
  ASSUME NEW S, IsFiniteSet(S), NEW F, \A x \in S : F[x] \in Int PROVE Total(F, S) \in Int
<1>1. PICK G : Table(F, S, G)
  BY TableExists
<1> QED BY <1>1, TotalIsTable DEF Table

LEMMA TotalOfEqual ==
  ASSUME NEW S, IsFiniteSet(S), NEW F, \A x \in S : F[x] \in Int, NEW H, \A x \in S : H[x] = F[x]
  PROVE  Total(H, S) = Total(F, S)
<1>1. PICK G : Table(F, S, G)
  BY TableExists
<1>2. Table(H, S, G)
  <2>1. \A s \in SUBSET S : s # {} => H[One(s)] = F[One(s)]
    BY OneIsIn
  <2> QED BY <1>1, <2>1 DEF Table, Tabulates
<1> QED BY <1>1, <1>2, TotalIsTable

\* The total of a subset is in the table of the set.
LEMMA TotalOfSubset ==
  ASSUME NEW S, IsFiniteSet(S), NEW F, NEW G, Table(F, S, G), NEW T, T \subseteq S
  PROVE  Total(F, T) = G[T]
<1>1. IsFiniteSet(T)
  BY FS_Subset
<1>2. PICK H : H = [s \in SUBSET T |-> G[s]]
  OBVIOUS
<1>3. Table(F, T, H)
  <2>1. H \in [SUBSET T -> Int]
    BY <1>2 DEF Table
  <2>2. \A s \in SUBSET T : s \in SUBSET S /\ s \ {One(s)} \in SUBSET T
    OBVIOUS
  <2> QED BY <1>2, <2>1, <2>2 DEF Table, Tabulates
<1>4. Total(F, T) = H[T]
  BY <1>1, <1>3, TotalIsTable
<1> QED BY <1>2, <1>4

\* Whichever element is taken out, the total is the rest and it.
LEMMA TotalWithout ==
  ASSUME NEW S, IsFiniteSet(S), NEW F, \A x \in S : F[x] \in Int, NEW x \in S
  PROVE  Total(F, S) = F[x] + Total(F, S \ {x})
<1>1. PICK G : Table(F, S, G)
  BY TableExists
<1> DEFINE B == {s \in SUBSET S : \E y \in s : G[s] # F[y] + G[s \ {y}]}
<1>2. B = {}
  <2> SUFFICES ASSUME B # {} PROVE FALSE
    OBVIOUS
  <2>1. B \subseteq SUBSET S
    OBVIOUS
  <2>2. PICK s \in B : \A t \in B : t \subseteq s => t = s
    <3> HIDE DEF B
    <3> QED BY <2>1, MinimalSubset
  <2>3. PICK y \in s : G[s] # F[y] + G[s \ {y}]
    OBVIOUS
  <2>4. PICK c \in s : c = One(s) /\ G[s] = F[c] + G[s \ {c}]
    BY <1>1, OneIsIn DEF Table, Tabulates
  <2>5. c # y
    BY <2>3, <2>4
  <2>6. PICK t, u, v \in SUBSET S : t = s \ {c} /\ u = s \ {y} /\ v = (s \ {c}) \ {y}
    OBVIOUS
  <2>7. v = u \ {c} /\ v = t \ {y} /\ y \in t /\ c \in u
    BY <2>5, <2>6
  <2>8. t \notin B /\ u \notin B
    <3>1. t \subseteq s /\ t # s /\ u \subseteq s /\ u # s
      BY <2>6
    <3> QED BY <2>2, <3>1
  <2>9. G[t] = F[y] + G[v] /\ G[u] = F[c] + G[v]
    BY <2>7, <2>8
  <2>10. F[y] \in Int /\ F[c] \in Int /\ G[v] \in Int
    BY <1>1 DEF Table
  <2> QED BY <2>3, <2>4, <2>6, <2>9, <2>10
<1>3. G[S] = F[x] + G[S \ {x}]
  BY <1>2
<1>4. Total(F, S \ {x}) = G[S \ {x}] /\ Total(F, S) = G[S]
  <2>1. S \ {x} \subseteq S
    OBVIOUS
  <2> QED BY <1>1, <2>1, TotalOfSubset, TotalIsTable
<1> QED BY <1>3, <1>4

\* A total by parts.
LEMMA TotalOfUnion ==
  ASSUME NEW S, IsFiniteSet(S), NEW F, \A x \in S : F[x] \in Int,
         NEW A, NEW C, A \cup C = S, A \cap C = {}
  PROVE  Total(F, S) = Total(F, A) + Total(F, C)
<1> DEFINE B == {s \in SUBSET C : Total(F, A \cup s) # Total(F, A) + Total(F, s)}
<1>1. IsFiniteSet(A) /\ IsFiniteSet(C)
  BY FS_Subset
<1>2. \A T \in SUBSET S : IsFiniteSet(T) /\ Total(F, T) \in Int
  <2> SUFFICES ASSUME NEW T \in SUBSET S PROVE IsFiniteSet(T) /\ Total(F, T) \in Int
    OBVIOUS
  <2>1. IsFiniteSet(T)
    BY FS_Subset
  <2> QED BY <2>1, TotalIsInt
<1>3. B = {}
  <2> SUFFICES ASSUME B # {} PROVE FALSE
    OBVIOUS
  <2>1. B \subseteq SUBSET C
    OBVIOUS
  <2>2. PICK s \in B : \A t \in B : t \subseteq s => t = s
    <3> HIDE DEF B
    <3> QED BY <1>1, <2>1, MinimalSubset
  <2>3. s # {}
    <3> SUFFICES ASSUME s = {} PROVE FALSE
      OBVIOUS
    <3>1. A \cup s = A /\ Total(F, s) = 0 /\ Total(F, A) \in Int
      BY <1>2, TotalOfNone
    <3> QED BY <2>2, <3>1
  <2>4. PICK x \in s : TRUE
    BY <2>3
  <2>5. PICK t, u, v : t = s \ {x} /\ u = A \cup s /\ v = A \cup t
    OBVIOUS
  <2>6. t \in SUBSET S /\ u \in SUBSET S /\ v \in SUBSET S
    <3> HIDE DEF B
    <3> QED BY <2>1, <2>2, <2>5
  <2>7. v = u \ {x} /\ x \in u /\ x \in S /\ s \in SUBSET S
    BY <2>5, <2>6
  <2>8. t \notin B
    BY <2>2, <2>5, <2>6
  <2>9. Total(F, v) = Total(F, A) + Total(F, t)
    BY <2>5, <2>6, <2>8
  <2>10. Total(F, s) = F[x] + Total(F, t)
    BY <1>2, <2>5, <2>6, <2>7, TotalWithout
  <2>11. Total(F, u) = F[x] + Total(F, v)
    BY <1>2, <2>6, <2>7, TotalWithout
  <2>12. F[x] \in Int /\ Total(F, t) \in Int /\ Total(F, A) \in Int
    BY <1>2, <2>5, <2>6, <2>7
  <2>13. Total(F, u) # Total(F, A) + Total(F, s)
    BY <2>2, <2>5, <2>6
  <2> QED BY <2>9, <2>10, <2>11, <2>12, <2>13
<1> QED BY <1>3

\* The total of differences is the difference of the totals.
LEMMA TotalOfDifference ==
  ASSUME NEW S, IsFiniteSet(S), NEW F, \A x \in S : F[x] \in Int,
         NEW H, \A x \in S : H[x] \in Int, NEW D, \A x \in S : D[x] = F[x] - H[x]
  PROVE  Total(D, S) = Total(F, S) - Total(H, S)
<1> DEFINE B == {s \in SUBSET S : Total(D, s) # Total(F, s) - Total(H, s)}
<1>1. \A T \in SUBSET S : IsFiniteSet(T) /\ Total(F, T) \in Int /\ Total(H, T) \in Int
  <2> SUFFICES ASSUME NEW T \in SUBSET S
               PROVE IsFiniteSet(T) /\ Total(F, T) \in Int /\ Total(H, T) \in Int
    OBVIOUS
  <2>1. IsFiniteSet(T)
    BY FS_Subset
  <2> QED BY <2>1, TotalIsInt
<1>2. B = {}
  <2> SUFFICES ASSUME B # {} PROVE FALSE
    OBVIOUS
  <2>1. B \subseteq SUBSET S
    OBVIOUS
  <2>2. PICK s \in B : \A t \in B : t \subseteq s => t = s
    <3> HIDE DEF B
    <3> QED BY <2>1, MinimalSubset
  <2>3. s # {}
    <3> SUFFICES ASSUME s = {} PROVE FALSE
      OBVIOUS
    <3>1. Total(F, s) = 0 /\ Total(H, s) = 0 /\ Total(D, s) = 0
      BY TotalOfNone
    <3> QED BY <2>2, <3>1
  <2>4. PICK x \in s : x \in S
    BY <2>3
  <2>5. PICK t \in SUBSET S : t = s \ {x}
    OBVIOUS
  <2>6. Total(D, t) = Total(F, t) - Total(H, t)
    BY <2>2, <2>5
  <2>7. IsFiniteSet(s) /\ \A y \in s : F[y] \in Int /\ H[y] \in Int /\ D[y] \in Int
    BY <1>1
  <2>8. /\ Total(F, s) = F[x] + Total(F, t) /\ Total(H, s) = H[x] + Total(H, t)
        /\ Total(D, s) = D[x] + Total(D, t)
    BY <2>5, <2>7, TotalWithout
  <2>9. D[x] = F[x] - H[x] /\ F[x] \in Int /\ H[x] \in Int /\ Total(F, t) \in Int /\ Total(H, t) \in Int
    BY <1>1, <2>4
  <2>10. Total(D, s) # Total(F, s) - Total(H, s)
    BY <2>2
  <2> QED BY <2>6, <2>8, <2>9, <2>10
<1> QED BY <1>2

-----------------------------------------------------------------------------
(* The curve.                                                              *)

NetsOf(s)     == [k \in DOMAIN s |-> Trading!Net(s[k])]
SpentsOf(s)   == [k \in DOMAIN s |-> Trading!Spent(s[k])]
ReceivedOf(s) == [k \in DOMAIN s |-> Trading!Received(s[k])]

\* What a book holds was bought up to bar n, its trades took a bar at least and add up.
BookAdds(b, n) ==
  /\ b.active # <<>> => b.active[1].bar <= n
  /\ \A k \in DOMAIN b.trades :
       LET t == b.trades[k]
       IN  t.entry < t.exit /\ t.exit <= n /\ t.cost = 2 * (t.cost \div 2)
  /\ b.equity = setup.capital + Total(NetsOf(b.trades), DOMAIN b.trades)

\* The trades that are open after bar n, and those that ended up to it.
OpenOn(s, n)  == {k \in DOMAIN s : s[k].entry <= n /\ n < s[k].exit}
EndedBy(s, n) == {k \in DOMAIN s : s[k].exit <= n}

FundAdds ==
  /\ bar < Trading!Bars => fund.date = 0
  /\ fund.open = OpenOn(robust.trades, fund.date)
  /\ fund.steps = setup.capital + Total(NetsOf(robust.trades), EndedBy(robust.trades, fund.date))
  /\ fund.cash = fund.steps - Total(SpentsOf(robust.trades), fund.open)
  /\ fund.open = {} => fund.equity = fund.cash

CurveInv == BookAdds(robust, bar) /\ FundAdds

LEMMA CostsAreEven ==
  ASSUME NEW p \in Nat, NEW stt \in Nat, NEW c, c = Trading!RoundTrip(p, stt)
  PROVE  c = 2 * (c \div 2)
<1>1. 2000000 \div Lot \in Nat
  BY TradingConstants
<1> DEFINE brokerage == 2000000 \div Lot
           ppm == stt + 30 + 2 * 1 + 2 * 5000 + 2 * 500
<1>2. ppm \in Nat /\ brokerage \in Nat
  BY <1>1
<1> HIDE DEF ppm, brokerage
<1>3. p * ppm \in Nat
  BY <1>2
<1> DEFINE whole == p * ppm + 2 * (18 * (p * 5)) + 2 * 1180 * brokerage
<1>4. whole \in Nat
  BY <1>2, <1>3
<1> HIDE DEF whole
<1>5. PICK w \in Nat : w = whole \div 2000000
  BY <1>4
<1>6. c = 2 * w
  BY <1>5 DEF Trading!RoundTrip, ppm, brokerage, whole
<1> QED BY <1>6

LEMMA AppendedTotal ==
  ASSUME NEW s \in Seq(Trading!Trades), NEW t \in Trading!Trades, NEW u, u = Append(s, t)
  PROVE  Total(NetsOf(u), DOMAIN u) = Total(NetsOf(s), DOMAIN s) + Trading!Net(t)
<1>1. PICK n \in Nat : n = Len(s) /\ DOMAIN s = 1 .. n /\ DOMAIN u = 1 .. n + 1
  OBVIOUS
<1>2. PICK D, E, x : D = 1 .. n + 1 /\ E = 1 .. n /\ x = n + 1 /\ x \in D /\ E = D \ {x}
  OBVIOUS
<1>3. IsFiniteSet(D) /\ IsFiniteSet(E)
  <2>1. 1 \in Int /\ n \in Int /\ n + 1 \in Int
    OBVIOUS
  <2> QED BY <1>2, <2>1, FS_Interval
<1>4. \A y \in Trading!Trades : Trading!Net(y) \in Int
  BY DEF Trading!Net, Trading!Trades
<1>5. PICK F, H : F = NetsOf(u) /\ H = NetsOf(s)
  OBVIOUS
<1>6. u[x] = t /\ \A k \in E : u[k] = s[k] /\ s[k] \in Trading!Trades
  BY <1>1, <1>2
<1>7. F[x] = Trading!Net(t) /\ \A k \in E : F[k] = Trading!Net(s[k])
  BY <1>1, <1>2, <1>5, <1>6 DEF NetsOf
<1>8. \A k \in E : H[k] = Trading!Net(s[k])
  BY <1>1, <1>2, <1>5 DEF NetsOf
<1>9. \A k \in E : H[k] \in Int
  BY <1>4, <1>6, <1>8
<1>10. \A k \in D : F[k] \in Int
  <2>1. \A k \in D : k = x \/ k \in E
    BY <1>2
  <2> QED BY <1>4, <1>6, <1>7, <2>1
<1>11. Total(F, D) = F[x] + Total(F, E)
  <2>1. Total(F, D) = F[x] + Total(F, D \ {x})
    <3>1. x \in D /\ IsFiniteSet(D)
      BY <1>2, <1>3
    <3> QED BY <1>10, <3>1, TotalWithout
  <2> QED BY <1>2, <2>1
<1>12. Total(F, E) = Total(H, E)
  BY <1>3, <1>7, <1>8, <1>9, TotalOfEqual
<1>13. Total(H, E) \in Int
  BY <1>3, <1>9, TotalIsInt
<1>14. Trading!Net(t) \in Int
  BY <1>4
<1> QED BY <1>1, <1>2, <1>5, <1>7, <1>11, <1>12, <1>13, <1>14

\* What is bought on a bar is not sold on it.
LEMMA FilledStays ==
  ASSUME StudyFixed, NEW i \in 1 .. Trading!Bars, NEW q \in Trading!Markets(Trading!Day(i)),
         NEW b, BookOK(b), b.active = <<>>, NEW f, f = Trading!Filled(b, q, i), f.active # <<>>,
         NEW m, m = Trading!Managed(f, q, i)
  PROVE  m.active # <<>> /\ m.active[1].bar = i /\ m.trades = f.trades /\ m.equity = f.equity
<1>1. BookOK(f)
  BY FilledBook
<1>2. b.pending # <<>> /\ f.active = Trading!TryFill(b, q, i, b.pending[1])
  <2>1. f # b
    OBVIOUS
  <2> QED BY <2>1, FilledBook
<1>3. PICK s \in Trading!Signals : s = b.pending[1]
  BY <1>2 DEF BookOK, Books
<1>4. PICK on, p : on = Trading!PricedOn(Trading!Day(i), s.expiry) /\ p = Trading!Mark(q, on, s.option)
  OBVIOUS
<1>5. /\ p > 500 /\ ~Trading!MustSquareOff(Trading!Day(i), s.expiry)
      /\ \E c : Trading!TryFill(b, q, i, s) = <<c>> /\ Opens(c, q, i, s.expiry, s.option, on)
  BY <1>2, <1>3, <1>4, TryFillOpens
<1>6. PICK a : f.active = <<a>> /\ Opens(a, q, i, s.expiry, s.option, on)
  BY <1>2, <1>3, <1>5
<1>7. p \in Nat
  BY <1>4, MarksArePrices
<1>8. a.bar = i /\ a.expiry = s.expiry /\ a.option = s.option /\ a.paid = p
  BY <1>4, <1>6 DEF Opens
<1>9. Trading!Price(f, q, i) = p
  BY <1>4, <1>5, <1>6, <1>7, <1>8 DEF Trading!Price, Trading!None
<1>10. StopLoss * p > 0 /\ TakeProfit * p > 0 /\ StopLoss * p \in Int /\ TakeProfit * p \in Int
  <2>1. ASSUME NEW x \in Nat \ {0}, NEW y \in Nat \ {0}
        PROVE  x * y > 0 /\ x * y \in Int
    OBVIOUS
  <2>2. p \in Nat \ {0} /\ StopLoss \in Nat \ {0} /\ TakeProfit \in Nat \ {0}
    BY <1>5, <1>7, TradingConstants
  <2> QED BY <2>1, <2>2
<1>11. ~Trading!Leaves(a, p, ViewOfHeld(f, q, i), i)
  <2>1. (p - a.paid) * 100 = 0
    BY <1>7, <1>8
  <2>2. i - a.bar = 0
    BY <1>8
  <2>3. Holding \in Nat \ {0}
    BY TradingConstants
  <2>4. PICK l, g \in Int : l = StopLoss * p /\ g = TakeProfit * p /\ l > 0 /\ g > 0
    BY <1>10
  <2>5. ~(0 <= -StopLoss * p) /\ ~(0 >= TakeProfit * p) /\ ~(0 >= Holding)
    <3>1. ~(0 <= -l) /\ ~(0 >= g) /\ ~(0 >= Holding)
      BY <2>3, <2>4
    <3> QED BY <2>4, <3>1
  <2> QED BY <1>8, <2>1, <2>2, <2>5 DEF Trading!Leaves
<1>12. ~Trading!MustSquareOff(Trading!Day(i), a.expiry)
  BY <1>5, <1>8
<1>13. f.active # <<>> /\ f.active[1] = a
  BY <1>6
<1>14. /\ \E c \in Trading!Positions : m.active = <<c>> /\ c.bar = a.bar
       /\ m.equity = f.equity /\ m.trades = f.trades
  BY <1>1, <1>9, <1>11, <1>12, <1>13, ManagedBook
<1> QED BY <1>8, <1>14

LEMMA ManagedAdds ==
  ASSUME StudyFixed, NEW i \in 1 .. Trading!Bars, NEW q \in Trading!Markets(Trading!Day(i)),
         NEW b, BookOK(b), BookAdds(b, i - 1),
         NEW f, f = Trading!Filled(b, q, i), NEW m, m = Trading!Managed(f, q, i)
  PROVE  BookAdds(m, i)
<1>1. BookOK(f) /\ f.trades = b.trades /\ f.equity = b.equity
  BY FilledBook
<1>2. b.trades \in Seq(Trading!Trades) /\ \A k \in DOMAIN b.trades : b.trades[k].exit \in Int
  <2>1. b.trades \in Seq(Trading!Trades)
    BY DEF BookOK, Books
  <2>2. \A k \in DOMAIN b.trades : b.trades[k] \in Trading!Trades
    BY <2>1
  <2> QED BY <2>1, <2>2 DEF Trading!Trades
<1>3. \A k \in DOMAIN b.trades :
        LET t == b.trades[k]
        IN  t.entry < t.exit /\ t.exit <= i /\ t.exit <= i - 1 /\ t.cost = 2 * (t.cost \div 2)
  BY <1>2 DEF BookAdds
<1>4. ASSUME m.trades = f.trades, m.equity = f.equity, m.active # <<>> => m.active[1].bar <= i
      PROVE  BookAdds(m, i)
  BY <1>1, <1>3, <1>4 DEF BookAdds
<1>5. CASE f.active = <<>>
  <2>1. m = f
    BY <1>1, <1>5, ManagedBook
  <2> QED BY <1>4, <1>5, <2>1
<1>6. CASE f.active # <<>> /\ b.active = <<>>
  BY <1>4, <1>6, FilledStays
<1>7. CASE f.active # <<>> /\ b.active # <<>>
  <2>1. f = b
    BY <1>7, FilledBook
  <2>2. PICK a, p : a = b.active[1] /\ p = Trading!Price(b, q, i)
    OBVIOUS
  <2>3. a \in Trading!Positions
    BY <1>7, <2>2 DEF BookOK, Books
  <2>4. a.bar \in Int /\ a.bar <= i - 1 /\ a.paid \in Nat
    BY <1>7, <2>2, <2>3 DEF BookAdds, Trading!Positions
  <2>5. CASE Trading!Leaves(a, p, ViewOfHeld(b, q, i), i) \/ Trading!MustSquareOff(Trading!Day(i), a.expiry)
    <3>1. PICK stt, t : /\ stt = Trading!SttRate(Trading!Day(i)) /\ stt \in Nat
                        /\ t = TradeOf(a, p, i, stt)
      BY DEF Trading!SttRate
    <3>2. m = Trading!Closed(b, p, i, stt)
      BY <1>7, <2>1, <2>2, <2>5, <3>1, ManagedBook
    <3>3. p \in Nat \ {0}
      BY <1>7, <2>2, PriceOfHeld
    <3>4. t = TradeOf(b.active[1], p, i, stt) /\ stt \in Nat
      BY <2>2, <3>1
    <3>5. /\ m.active = <<>> /\ m.trades = Append(b.trades, t) /\ t \in Trading!Trades
          /\ m.equity = b.equity + Trading!Net(t)
      BY <1>7, <3>2, <3>3, <3>4, ClosedBook
    <3>6. t.entry = a.bar /\ t.exit = i /\ t.cost = Trading!RoundTrip(a.paid, stt)
      BY <3>1 DEF TradeOf
    <3>7. t.cost = 2 * (t.cost \div 2)
      BY <2>4, <3>1, <3>6, CostsAreEven
    <3>8. \A k \in DOMAIN m.trades : \/ k \in DOMAIN b.trades /\ m.trades[k] = b.trades[k]
                                     \/ m.trades[k] = t
      BY <1>2, <3>5
    <3>9. \A k \in DOMAIN m.trades :
            LET x == m.trades[k]
            IN  x.entry < x.exit /\ x.exit <= i /\ x.cost = 2 * (x.cost \div 2)
      <4>1. t.entry < t.exit /\ t.exit <= i
        BY <2>4, <3>6
      <4> QED BY <1>3, <3>7, <3>8, <4>1
    <3>10. PICK u : u = m.trades /\ u = Append(b.trades, t)
      BY <3>5
    <3>11. Total(NetsOf(u), DOMAIN u) = Total(NetsOf(b.trades), DOMAIN b.trades) + Trading!Net(t)
      BY <1>2, <3>5, <3>10, AppendedTotal
    <3>12. PICK v : v = Total(NetsOf(b.trades), DOMAIN b.trades)
      OBVIOUS
    <3>13. v \in Int
      <4>1. IsFiniteSet(DOMAIN b.trades)
        <5>1. DOMAIN b.trades = 1 .. Len(b.trades) /\ Len(b.trades) \in Int /\ 1 \in Int
          BY <1>2
        <5> QED BY <5>1, FS_Interval
      <4>2. \A k \in DOMAIN b.trades : NetsOf(b.trades)[k] \in Int
        <5>1. \A k \in DOMAIN b.trades : b.trades[k] \in Trading!Trades
          BY <1>2
        <5>2. \A y \in Trading!Trades : Trading!Net(y) \in Int
          BY DEF Trading!Net, Trading!Trades
        <5> QED BY <5>1, <5>2 DEF NetsOf
      <4> QED BY <3>12, <4>1, <4>2, TotalIsInt
    <3>14. Trading!Net(t) \in Int /\ setup.capital \in Int
      <4>1. \A y \in Trading!Trades : Trading!Net(y) \in Int
        BY DEF Trading!Net, Trading!Trades
      <4> QED BY <3>5, <4>1, StudyFacts
    <3>15. m.equity = setup.capital + Total(NetsOf(u), DOMAIN u)
      <4>1. b.equity = setup.capital + v
        BY <3>12 DEF BookAdds
      <4> QED BY <3>5, <3>11, <3>12, <3>13, <3>14, <4>1
    <3> QED BY <3>5, <3>9, <3>10, <3>15 DEF BookAdds
  <2>6. CASE ~(Trading!Leaves(a, p, ViewOfHeld(b, q, i), i) \/ Trading!MustSquareOff(Trading!Day(i), a.expiry))
    <3>1. PICK c \in Trading!Positions :
            m.active = <<c>> /\ c.bar = a.bar /\ m.trades = b.trades /\ m.equity = b.equity
      BY <1>7, <2>1, <2>2, <2>6, ManagedBook
    <3>2. m.active[1].bar <= i
      BY <2>4, <3>1
    <3> QED BY <1>4, <2>1, <3>1, <3>2
  <2> QED BY <2>5, <2>6
<1> QED BY <1>5, <1>6, <1>7

LEMMA RobustAdds ==
  ASSUME StudyFixed, NEW i \in 1 .. Trading!Bars, NEW q \in Trading!Markets(Trading!Day(i)),
         NEW b, BookOK(b), BookAdds(b, i - 1), NEW passing, passing \subseteq Trading!Options,
         NEW r, r = Trading!RobustBar(b, q, i, passing)
  PROVE  BookAdds(r, i)
<1>1. CASE Trading!Day(i) \notin Trading!Sessions
  <2>1. r = b
    BY <1>1 DEF Trading!RobustBar
  <2>2. \A k \in DOMAIN b.trades : b.trades[k].exit \in Int
    <3>1. \A k \in DOMAIN b.trades : b.trades[k] \in Trading!Trades
      BY DEF BookOK, Books
    <3> QED BY <3>1 DEF Trading!Trades
  <2>3. b.active # <<>> => b.active[1].bar \in Int
    <3>1. b.active # <<>> => b.active[1] \in Trading!Positions
      BY DEF BookOK, Books
    <3> QED BY <3>1 DEF Trading!Positions
  <2> QED BY <2>1, <2>2, <2>3 DEF BookAdds
<1>2. CASE Trading!Day(i) \in Trading!Sessions
  <2>1. PICK f : f = Trading!Filled(b, q, i)
    OBVIOUS
  <2>2. PICK m : m = Trading!Managed(f, q, i)
    OBVIOUS
  <2>3. r = Trading!Signalled(m, q, i, passing)
    BY <1>2, <2>1, <2>2 DEF Trading!RobustBar
  <2>4. BookOK(f)
    BY <2>1, FilledBook
  <2>5. BookOK(m)
    BY <2>2, <2>4, ManagedBook
  <2>6. BookAdds(m, i)
    BY <2>1, <2>2, ManagedAdds
  <2>7. PICK s : s = Trading!Signal(i, Trading!Min(passing))
    OBVIOUS
  <2>8. r.trades = m.trades /\ r.equity = m.equity
    BY <2>3, <2>5, <2>7, SignalledBook
  <2>9. r.active # <<>> => r.active[1].bar <= i
    <3>1. CASE r.active = m.active
      BY <2>6, <3>1 DEF BookAdds
    <3>2. CASE r.active # m.active /\ r.active # <<>>
      <4>1. passing # {} /\ r.active = Trading!TryFill(m, q, i, s)
        BY <2>3, <2>5, <2>7, <3>2, SignalledBook
      <4>2. s \in Trading!Signals
        BY <2>7, <4>1, SignalOfFirst
      <4>3. PICK on, v : on = Trading!PricedOn(Trading!Day(i), s.expiry) /\ v = Trading!Mark(q, on, s.option)
        OBVIOUS
      <4>4. \E c : Trading!TryFill(m, q, i, s) = <<c>> /\ Opens(c, q, i, s.expiry, s.option, on)
        BY <3>2, <4>1, <4>2, <4>3, TryFillOpens
      <4>5. r.active[1].bar = i
        BY <4>1, <4>4 DEF Opens
      <4> QED BY <4>5
    <3> QED BY <3>1, <3>2
  <2> QED BY <2>6, <2>8, <2>9 DEF BookAdds
<1> QED BY <1>1, <1>2

\* What the trades of an executor give: numbers, on a finite set.
LEMMA TradesGive ==
  ASSUME NEW s \in Seq(Trading!Trades), NEW S, S \subseteq DOMAIN s
  PROVE  /\ IsFiniteSet(S)
         /\ \A k \in S : /\ s[k] \in Trading!Trades /\ s[k].entry \in Int /\ s[k].exit \in Int
                         /\ NetsOf(s)[k] \in Int /\ SpentsOf(s)[k] \in Int /\ ReceivedOf(s)[k] \in Int
         /\ Total(NetsOf(s), S) \in Int /\ Total(SpentsOf(s), S) \in Int
         /\ Total(ReceivedOf(s), S) \in Int
<1>1. IsFiniteSet(S)
  <2>1. DOMAIN s = 1 .. Len(s) /\ Len(s) \in Int /\ 1 \in Int
    OBVIOUS
  <2>2. IsFiniteSet(DOMAIN s)
    BY <2>1, FS_Interval
  <2> QED BY <2>2, FS_Subset
<1>2. \A t \in Trading!Trades : /\ t.entry \in Int /\ t.exit \in Int /\ Trading!Net(t) \in Int
                                /\ Trading!Spent(t) \in Int /\ Trading!Received(t) \in Int
  BY DEF Trading!Trades, Trading!Net, Trading!Spent, Trading!Received
<1>3. \A k \in S : k \in DOMAIN s /\ s[k] \in Trading!Trades
  OBVIOUS
<1>4. \A k \in S : /\ NetsOf(s)[k] \in Int /\ SpentsOf(s)[k] \in Int /\ ReceivedOf(s)[k] \in Int
  BY <1>2, <1>3 DEF NetsOf, SpentsOf, ReceivedOf
<1> QED BY <1>1, <1>2, <1>3, <1>4, TotalIsInt

LEMMA AccountAdds ==
  ASSUME TradingInv, CurveInv, Trading!Account PROVE CurveInv'
<1> DEFINE s == robust.trades
<1>1. /\ UNCHANGED <<setup, calendar, bar, robust, legacy, tight, prints>> /\ bar = Trading!Bars
      /\ fund.date < Trading!Bars
  BY DEF Trading!Account
<1>2. s \in Seq(Trading!Trades) /\ setup.capital \in Int /\ fund.date \in Int /\ Trading!Bars \in Int
  <2>1. StudyFixed /\ BookOK(robust) /\ fund.date \in 0 .. Trading!Bars
    BY DEF TradingInv, TradingTypes
  <2>2. Trading!Bars \in Nat /\ setup.capital \in Nat
    BY <2>1, StudyFacts
  <2> QED BY <2>1, <2>2 DEF BookOK, Books
<1>3. PICK d, i : d = fund.date /\ i = d + 1 /\ d \in Int /\ i \in Int
  BY <1>2
<1>4. PICK ending, coming, held :
        /\ held = OpenOn(s, d) /\ ending = {k \in DOMAIN s : s[k].exit = i} \cap held
        /\ coming = {k \in DOMAIN s : s[k].entry = i}
  OBVIOUS
<1>5. fund.open = held /\ FundAdds /\ BookAdds(robust, bar)
  BY <1>3, <1>4 DEF CurveInv, FundAdds
<1>6. \A k \in DOMAIN s : /\ s[k] \in Trading!Trades /\ s[k].entry \in Int /\ s[k].exit \in Int
                          /\ s[k].entry < s[k].exit
  <2>1. \A k \in DOMAIN s : s[k] \in Trading!Trades /\ s[k].entry \in Int /\ s[k].exit \in Int
    BY <1>2, TradesGive
  <2> QED BY <1>5, <2>1 DEF BookAdds
<1>7. ending = {k \in DOMAIN s : s[k].exit = i}
  BY <1>3, <1>4, <1>6 DEF OpenOn
<1>8. PICK next : next = (held \ ending) \cup coming
  OBVIOUS
<1>9. next = OpenOn(s, i)
  BY <1>3, <1>4, <1>6, <1>8 DEF OpenOn
<1>10. PICK past, then : past = EndedBy(s, d) /\ then = EndedBy(s, i)
  OBVIOUS
<1>11. then = past \cup ending /\ past \cap ending = {}
  BY <1>3, <1>6, <1>7, <1>10 DEF EndedBy
<1>12. PICK N, S, R : N = NetsOf(s) /\ S = SpentsOf(s) /\ R = ReceivedOf(s)
  OBVIOUS
<1>13. /\ \A k \in DOMAIN s : N[k] \in Int /\ S[k] \in Int /\ R[k] \in Int
       /\ \A T : T \subseteq DOMAIN s =>
            IsFiniteSet(T) /\ Total(N, T) \in Int /\ Total(S, T) \in Int /\ Total(R, T) \in Int
  BY <1>2, <1>12, TradesGive
<1>14. PICK kept : kept = held \ ending
  OBVIOUS
<1>15. /\ held \subseteq DOMAIN s /\ ending \subseteq DOMAIN s /\ coming \subseteq DOMAIN s
       /\ next \subseteq DOMAIN s /\ past \subseteq DOMAIN s /\ then \subseteq DOMAIN s
       /\ kept \subseteq DOMAIN s
  BY <1>4, <1>8, <1>10, <1>14 DEF OpenOn, EndedBy
<1>16. Total(N, then) = Total(N, past) + Total(N, ending)
  BY <1>11, <1>13, <1>15, TotalOfUnion
<1>17. Total(S, held) = Total(S, kept) + Total(S, ending)
  <2>1. kept \cup ending = held /\ kept \cap ending = {}
    BY <1>4, <1>14
  <2>2. IsFiniteSet(held) /\ \A k \in held : S[k] \in Int
    BY <1>13, <1>15
  <2> QED BY <2>1, <2>2, TotalOfUnion
<1>18. Total(S, next) = Total(S, kept) + Total(S, coming)
  <2>1. kept \cup coming = next /\ kept \cap coming = {}
    BY <1>3, <1>4, <1>6, <1>8, <1>14 DEF OpenOn
  <2>2. IsFiniteSet(next) /\ \A k \in next : S[k] \in Int
    BY <1>13, <1>15
  <2> QED BY <2>1, <2>2, TotalOfUnion
<1>19. Total(N, ending) = Total(R, ending) - Total(S, ending)
  <2>1. \A k \in ending : N[k] = R[k] - S[k]
    <3> SUFFICES ASSUME NEW k \in ending PROVE N[k] = R[k] - S[k]
      OBVIOUS
    <3>1. k \in DOMAIN s
      BY <1>15
    <3>2. PICK t \in Trading!Trades : t = s[k] /\ t.cost = 2 * (t.cost \div 2)
      BY <1>5, <1>6, <3>1 DEF BookAdds
    <3>3. N[k] = Trading!Net(t) /\ R[k] = Trading!Received(t) /\ S[k] = Trading!Spent(t)
      BY <1>12, <3>1, <3>2 DEF NetsOf, ReceivedOf, SpentsOf
    <3>4. t.got \in Int /\ t.paid \in Int /\ t.cost \in Int
      BY DEF Trading!Trades
    <3> QED BY <3>2, <3>3, <3>4 DEF Trading!Net, Trading!Received, Trading!Spent
  <2>2. \A k \in ending : N[k] \in Int /\ S[k] \in Int /\ R[k] \in Int
    BY <1>13, <1>15
  <2> QED BY <1>13, <1>15, <2>1, <2>2, TotalOfDifference
<1>20. /\ Trading!SumOf(Trading!Received, ending) = Total(R, ending)
       /\ Trading!SumOf(Trading!Spent, coming) = Total(S, coming)
       /\ Trading!SumOf(Trading!Net, ending) = Total(N, ending)
  BY <1>12 DEF Trading!SumOf, Trading!Trade, Total, NetsOf, SpentsOf, ReceivedOf
<1>21. PICK cash : cash = fund.cash + Total(R, ending) - Total(S, coming)
  OBVIOUS
<1>22. /\ fund'.date = i /\ fund'.open = next /\ fund'.cash = cash
       /\ fund'.steps = fund.steps + Total(N, ending)
       /\ \E mark : fund'.equity = cash + Total(mark, next)
  <2>1. Trading!On(LAMBDA t : t.exit, i) = ending
    BY <1>7 DEF Trading!On, Trading!Trade
  <2>2. Trading!On(LAMBDA t : t.entry, i) = coming
    BY <1>4 DEF Trading!On, Trading!Trade
  <2>3. (Trading!On(LAMBDA t : t.exit, i) \cap fund.open) = ending
    BY <1>4, <1>5, <2>1
  <2> QED BY <1>3, <1>5, <1>8, <1>20, <1>21, <2>1, <2>2, <2>3 DEF Trading!Account, Total
<1>23. PICK p, o, v, w, x, y, z \in Int :
         /\ p = Total(N, past) /\ o = Total(S, kept) /\ v = Total(N, ending) /\ w = Total(S, coming)
         /\ x = Total(R, ending) /\ y = Total(S, ending) /\ z = setup.capital
  BY <1>2, <1>13, <1>15
<1>24. fund.steps = z + p /\ fund.cash = (z + p) - (o + y) /\ v = x - y
  BY <1>3, <1>4, <1>5, <1>10, <1>12, <1>17, <1>19, <1>23 DEF FundAdds
<1>25. fund'.steps = z + (p + v) /\ cash = fund'.steps - (o + w) /\ cash \in Int
  <2>1. fund'.steps = (z + p) + v
    BY <1>22, <1>23, <1>24
  <2>2. cash = ((z + p) - (o + y)) + x - w
    BY <1>21, <1>23, <1>24
  <2> QED BY <1>24, <2>1, <2>2
<1>26. fund'.steps = setup.capital + Total(N, then)
  BY <1>16, <1>23, <1>25
<1>27. fund'.cash = fund'.steps - Total(S, next)
  BY <1>18, <1>22, <1>23, <1>25
<1>28. next = {} => fund'.equity = cash
  BY <1>22, <1>25, TotalOfNone
<1>29. PICK e : e = fund'
  OBVIOUS
<1>30. BookAdds(robust, bar)'
  BY <1>1, <1>5 DEF BookAdds, Total, NetsOf
<1>31. ~(bar' < Trading!Bars')
  BY <1>1, <1>2 DEF Trading!Bars
<1>32. /\ OpenOn(robust.trades, fund.date)' = OpenOn(s, i)
       /\ EndedBy(robust.trades, fund.date)' = EndedBy(s, i)
  BY <1>1, <1>22 DEF OpenOn, EndedBy
<1>33. /\ Total(NetsOf(robust.trades), EndedBy(robust.trades, fund.date))' = Total(N, then)
       /\ Total(SpentsOf(robust.trades), fund.open)' = Total(S, next)
  BY <1>1, <1>10, <1>12, <1>22, <1>32 DEF Total, NetsOf, SpentsOf
<1> QED BY <1>1, <1>9, <1>22, <1>26, <1>27, <1>28, <1>30, <1>31, <1>32, <1>33 DEF CurveInv, FundAdds

LEMMA BarAddsUp ==
  ASSUME TradingInv, CurveInv, NEW q, NEW atm, NEW passing, BarOf(q, atm, passing) PROVE CurveInv'
<1>1. PICK i : i = bar' /\ i \in 1 .. Trading!Bars /\ i = bar + 1 /\ i - 1 = bar
  BY StudyFacts DEF TradingInv, TradingTypes, BarOf
<1>2. StudyFixed /\ UNCHANGED <<setup, calendar, fund>> /\ BookOK(robust) /\ BookAdds(robust, i - 1)
  BY <1>1 DEF TradingInv, TradingTypes, BarOf, CurveInv
<1>3. q \in Trading!Markets(Trading!Day(i))
  BY <1>1, <1>2 DEF BarOf
<1>4. passing \subseteq Trading!Options
  <2>1. passing \in Trading!Passing(q, i, atm)
    BY <1>1 DEF BarOf
  <2>2. passing \subseteq Dear(q, i)
    BY <1>2, <2>1, PassingIsDear
  <2> QED BY <2>2 DEF Dear
<1>5. PICK r : r = robust' /\ r = Trading!RobustBar(robust, q, i, passing)
  BY <1>1 DEF BarOf
<1>6. BookAdds(r, i) /\ BookOK(r)
  BY <1>1, <1>2, <1>3, <1>4, <1>5, RobustAdds, RobustBook
<1>7. BookAdds(robust, bar)'
  BY <1>1, <1>2, <1>5, <1>6 DEF BookAdds, Total, NetsOf
<1>8. fund.date = 0 /\ fund.open = {} /\ bar < Trading!Bars /\ FundAdds
  BY DEF BarOf, CurveInv, FundAdds, TradingInv, TradingTypes
<1>9. setup.capital \in Int
  BY <1>2, StudyFacts
<1>10. ASSUME NEW b, BookOK(b)
       PROVE  OpenOn(b.trades, 0) = {} /\ EndedBy(b.trades, 0) = {}
  <2>1. \A k \in DOMAIN b.trades : b.trades[k] \in Trading!Trades
    BY <1>10 DEF BookOK, Books
  <2>2. \A k \in DOMAIN b.trades : b.trades[k].entry >= 1 /\ b.trades[k].exit >= 1
                                    /\ b.trades[k].entry \in Int /\ b.trades[k].exit \in Int
    BY <2>1 DEF Trading!Trades
  <2> QED BY <2>2 DEF OpenOn, EndedBy
<1>11. fund.steps = setup.capital /\ fund.cash = fund.steps /\ fund.equity = fund.cash
  <2>1. Total(NetsOf(robust.trades), {}) = 0 /\ Total(SpentsOf(robust.trades), {}) = 0
    BY TotalOfNone
  <2>2. EndedBy(robust.trades, 0) = {}
    BY <1>2, <1>10
  <2>3. fund.steps = setup.capital + 0 /\ fund.cash = fund.steps - 0 /\ fund.equity = fund.cash
    BY <1>8, <2>1, <2>2 DEF FundAdds
  <2> QED BY <1>9, <2>3
<1>12. FundAdds'
  <2>1. Total(NetsOf(r.trades), {}) = 0 /\ Total(SpentsOf(r.trades), {}) = 0
    BY TotalOfNone
  <2>2. OpenOn(r.trades, 0) = {} /\ EndedBy(r.trades, 0) = {}
    BY <1>6, <1>10
  <2>3. /\ OpenOn(robust.trades, fund.date)' = OpenOn(r.trades, 0)
        /\ EndedBy(robust.trades, fund.date)' = EndedBy(r.trades, 0)
    BY <1>2, <1>5, <1>8 DEF OpenOn, EndedBy
  <2>4. /\ Total(NetsOf(robust.trades), EndedBy(robust.trades, fund.date))' = 0
        /\ Total(SpentsOf(robust.trades), fund.open)' = 0
    BY <1>2, <1>5, <1>8, <2>1, <2>2, <2>3 DEF Total, NetsOf, SpentsOf
  <2>5. fund'.steps = setup.capital + 0 /\ fund'.cash = fund'.steps - 0
    BY <1>2, <1>9, <1>11
  <2>6. fund' = fund /\ setup' = setup
    BY <1>2
  <2> QED BY <1>8, <1>11, <2>2, <2>3, <2>4, <2>5, <2>6 DEF FundAdds
<1> QED BY <1>7, <1>12 DEF CurveInv

LEMMA CurveStarts == ASSUME Trading!Init PROVE CurveInv
<1>1. TradingInv
  BY TradingStarts
<1>2. setup.capital \in Int
  BY <1>1, StudyFacts DEF TradingInv, TradingTypes
<1>3. bar = 0 /\ robust = Trading!Book /\ fund.date = 0 /\ fund.open = {}
      /\ fund.cash = setup.capital /\ fund.equity = setup.capital /\ fund.steps = setup.capital
  BY DEF Trading!Init
<1>4. robust.active = <<>> /\ robust.equity = setup.capital /\ robust.trades = <<>>
  BY <1>3 DEF Trading!Book
<1>5. DOMAIN robust.trades = {}
  BY <1>4
<1>6. \A F : Total(F, {}) = 0
  BY TotalOfNone
<1>7. BookAdds(robust, bar)
  BY <1>2, <1>4, <1>5, <1>6 DEF BookAdds
<1>8. OpenOn(robust.trades, fund.date) = {} /\ EndedBy(robust.trades, fund.date) = {}
  BY <1>5 DEF OpenOn, EndedBy
<1>9. FundAdds
  <2>1. /\ Total(NetsOf(robust.trades), EndedBy(robust.trades, fund.date)) = 0
        /\ Total(SpentsOf(robust.trades), fund.open) = 0
    BY <1>3, <1>6, <1>8
  <2>2. setup.capital = setup.capital + 0 /\ setup.capital = setup.capital - 0
    BY <1>2
  <2> QED BY <1>3, <1>8, <2>1, <2>2 DEF FundAdds
<1> QED BY <1>7, <1>9 DEF CurveInv

LEMMA CurveStep == ASSUME TradingInv, CurveInv, [Trading!Next]_tradingVars PROVE CurveInv'
<1>1. CASE Trading!Bar
  <2>1. PICK q, atm, passing : BarOf(q, atm, passing)
    BY <1>1, BarIsOf DEF TradingInv, TradingTypes
  <2> QED BY <2>1, BarAddsUp
<1>2. CASE Trading!Account
  BY <1>2, AccountAdds
<1>3. CASE UNCHANGED tradingVars
  BY <1>3 DEF tradingVars, CurveInv, BookAdds, FundAdds, OpenOn, EndedBy, Total, NetsOf, SpentsOf, Trading!Bars
<1> QED BY <1>1, <1>2, <1>3 DEF Trading!Next

LEMMA CurveAlways == PathsSpec => []CurveInv
<1>1. PathsInit => CurveInv
  BY CurveStarts DEF PathsInit
<1>2. TradingInv /\ CurveInv /\ [PathsNext]_allVars => CurveInv'
  <2> SUFFICES ASSUME TradingInv, CurveInv, [PathsNext]_allVars PROVE CurveInv'
    OBVIOUS
  <2>1. [Trading!Next]_tradingVars
    BY DEF PathsNext, allVars, moreVars, tradingVars
  <2> QED BY <2>1, CurveStep
<1> QED BY <1>1, <1>2, TradingAlways, PTL DEF PathsSpec

LEMMA CurveImplies == ASSUME TradingInv, CurveInv PROVE Trading!CurveMeetsBook
<1>1. StudyFixed /\ BookOK(robust) /\ FundAdds /\ BookAdds(robust, bar) /\ bar \in 0 .. Trading!Bars
      /\ fund.date \in 0 .. Trading!Bars
  BY DEF TradingInv, TradingTypes, CurveInv
<1>2. robust.trades \in Seq(Trading!Trades) /\ setup.capital \in Int
  BY <1>1, StudyFacts DEF BookOK, Books
<1>3. fund.open = {} => fund.equity = fund.steps
  <2> SUFFICES ASSUME fund.open = {} PROVE fund.equity = fund.steps
    OBVIOUS
  <2>1. Total(SpentsOf(robust.trades), {}) = 0
    BY TotalOfNone
  <2>2. Total(NetsOf(robust.trades), EndedBy(robust.trades, fund.date)) \in Int
    <3>1. EndedBy(robust.trades, fund.date) \subseteq DOMAIN robust.trades
      BY DEF EndedBy
    <3> QED BY <1>2, <3>1, TradesGive
  <2>3. fund.steps \in Int /\ fund.equity = fund.steps - 0
    <3>1. Total(SpentsOf(robust.trades), fund.open) = 0
      BY <2>1
    <3>2. fund.steps \in Int
      BY <1>1, <1>2, <2>2 DEF FundAdds
    <3> QED BY <1>1, <3>1, <3>2 DEF FundAdds
  <2> QED BY <2>3
<1>4. fund.date = Trading!Bars => fund.open = {} /\ fund.equity = robust.equity
  <2> SUFFICES ASSUME fund.date = Trading!Bars PROVE fund.open = {} /\ fund.equity = robust.equity
    OBVIOUS
  <2>1. \A k \in DOMAIN robust.trades : robust.trades[k].exit <= fund.date /\ robust.trades[k].exit \in Int
    <3>1. \A k \in DOMAIN robust.trades : robust.trades[k] \in Trading!Trades
      BY <1>2
    <3> QED BY <3>1, StudyFacts, <1>1 DEF Trading!Trades
  <2>2. fund.date \in Int
    BY <1>1
  <2>3. EndedBy(robust.trades, fund.date) = DOMAIN robust.trades
    BY <2>1 DEF EndedBy
  <2>4. OpenOn(robust.trades, fund.date) = {}
    BY <2>1, <2>2 DEF OpenOn
  <2> QED BY <1>1, <1>3, <2>3, <2>4 DEF FundAdds, BookAdds
<1> QED BY <1>3, <1>4 DEF Trading!CurveMeetsBook

(* The mark-to-market curve of the engine and the book of the corrected    *)
(* executor tell the same story, and the trades are ones that could have   *)
(* been made.                                                              *)
THEOREM BooksAgree == PathsSpec => []BooksAreHonest
<1>1. TradingInv /\ CurveInv => BooksAreHonest
  BY TradingImplies, CurveImplies DEF BooksAreHonest
<1> QED BY <1>1, TradingAlways, CurveAlways, PTL

-----------------------------------------------------------------------------
(* The bridge between the old classes and the corrected executor.          *)

Bridged ==
  /\ setup.legacy = TRUE /\ setup.lock = FALSE /\ setup.masked = FALSE
  /\ setup.kind \in {"PURE_PDE", "HYBRID"} /\ (setup.lag = 0 => tight = FALSE)

\* Two positions, trades, books that differ in the expiry alone.
Alike(a, c) == a.bar = c.bar /\ a.option = c.option /\ a.paid = c.paid
Twins(t, u) == /\ t.entry = u.entry /\ t.exit = u.exit /\ t.option = u.option
               /\ t.paid = u.paid /\ t.got = u.got /\ t.cost = u.cost
SameActive(x, y) == (x = <<>> <=> y = <<>>) /\ (x # <<>> => Alike(x[1], y[1]))
SameTrades(s, u) == DOMAIN s = DOMAIN u /\ \A k \in DOMAIN s : Twins(s[k], u[k])
SameResults(b, l) == b.equity = l.equity /\ SameTrades(b.trades, l.trades)
SameBooks(b, l) == SameResults(b, l) /\ SameActive(b.active, l.active) /\ b.pending = l.pending

\* After the last bar the old class may have bought once more.
InStep(b, l, n) ==
  /\ SameResults(b, l)
  /\ n < Trading!Bars => SameBooks(b, l) /\ (setup.lag = 0 => b.pending = <<>>)

BridgeInv == Bridged => InStep(robust, legacy, bar)

LEMMA OneTaxRate ==
  ASSUME StudyFixed, setup.legacy = TRUE, NEW i \in 1 .. Trading!Bars
  PROVE  /\ Trading!SttRate(Trading!Day(i)) = Trading!DefaultStt
         /\ calendar.signal[Trading!Day(i)] = 0 <=> Trading!Day(i) \notin Trading!Sessions
<1>1. Trading!Comparable([setup |-> setup, calendar |-> calendar]) /\ calendar \in Trading!Calendars
  BY StudyTypes
<1>2. DOMAIN calendar.bars = 1 .. Trading!Bars
  BY <1>1 DEF Trading!Calendars, Trading!Bars
<1>3. PICK d : d = Trading!Day(i) /\ d = calendar.bars[i] /\ d \in Nat /\ d \in DOMAIN calendar.listed
  BY StudyFacts DEF Trading!Day
<1>4. SttChanges[1] <= d /\ d < SttChanges[2] /\ (calendar.signal[d] = 0 <=> calendar.listed[d] = {})
  <2>1. PICK s : s = [setup |-> setup, calendar |-> calendar]
    OBVIOUS
  <2>2. s.calendar = calendar /\ Trading!Comparable(s)
    BY <1>1, <2>1
  <2>3. i \in DOMAIN s.calendar.bars /\ s.calendar.bars[i] = d
    BY <1>2, <1>3, <2>2
  <2>4. SttChanges[1] <= d /\ d < SttChanges[2] /\ (s.calendar.signal[d] = 0 <=> s.calendar.listed[d] = {})
    BY <2>2, <2>3 DEF Trading!Comparable, Trading!None
  <2> QED BY <2>2, <2>4
<1>5. Trading!SttRate(d) = 625
  BY <1>3, <1>4, TradingConstants DEF Trading!SttRate
<1>6. d \in Trading!Sessions <=> calendar.listed[d] # {}
  BY <1>3 DEF Trading!Sessions, Trading!Listed
<1> QED BY <1>3, <1>4, <1>5, <1>6 DEF Trading!DefaultStt

LEMMA Appended ==
  ASSUME NEW S, NEW s \in Seq(S), NEW t \in S, NEW r, r = Append(s, t), NEW n, n = Len(s)
  PROVE  /\ DOMAIN r = 1 .. n + 1 /\ r[n + 1] = t
         /\ \A k \in 1 .. n : r[k] = s[k] /\ k \in DOMAIN s
OBVIOUS

LEMMA ClosedAlike ==
  ASSUME StudyFixed, NEW i \in 1 .. Trading!Bars, NEW b, BookOK(b), NEW l, BookOK(l), SameBooks(b, l),
         b.active # <<>>, NEW p \in Nat \ {0}, NEW stt \in Nat,
         NEW x, x = Trading!Closed(b, p, i, stt), NEW y, y = Trading!Closed(l, p, i, stt)
  PROVE  SameBooks(x, y)
<1>1. l.active # <<>> /\ Alike(b.active[1], l.active[1])
  BY DEF SameBooks, SameActive
<1>2. PICK t, u : t = TradeOf(b.active[1], p, i, stt) /\ u = TradeOf(l.active[1], p, i, stt)
  OBVIOUS
<1>3. /\ t \in Trading!Trades /\ x.active = <<>> /\ x.pending = b.pending
      /\ x.trades = Append(b.trades, t) /\ x.equity = b.equity + Trading!Net(t)
  BY <1>2, ClosedBook
<1>4. /\ u \in Trading!Trades /\ y.active = <<>> /\ y.pending = l.pending
      /\ y.trades = Append(l.trades, u) /\ y.equity = l.equity + Trading!Net(u)
  BY <1>1, <1>2, ClosedBook
<1>5. Twins(t, u)
  BY <1>1, <1>2 DEF TradeOf, Twins, Alike
<1>6. Trading!Net(t) = Trading!Net(u)
  BY <1>5 DEF Trading!Net, Twins
<1>7. b.trades \in Seq(Trading!Trades) /\ l.trades \in Seq(Trading!Trades) /\ SameTrades(b.trades, l.trades)
  BY DEF BookOK, Books, SameBooks, SameResults
<1>8. SameTrades(x.trades, y.trades)
  <2>1. PICK n \in Nat : n = Len(b.trades) /\ n = Len(l.trades)
    <3>1. DOMAIN b.trades = DOMAIN l.trades
      BY <1>7 DEF SameTrades
    <3> QED BY <1>7, <3>1
  <2>2. /\ DOMAIN x.trades = 1 .. n + 1 /\ x.trades[n + 1] = t
        /\ \A k \in 1 .. n : x.trades[k] = b.trades[k] /\ k \in DOMAIN b.trades
    <3>1. PICK S : S = Trading!Trades
      OBVIOUS
    <3>2. b.trades \in Seq(S) /\ t \in S
      BY <1>3, <1>7, <3>1
    <3>3. x.trades = Append(b.trades, t) /\ n = Len(b.trades)
      BY <1>3, <2>1
    <3> QED BY <3>2, <3>3, Appended
  <2>3. /\ DOMAIN y.trades = 1 .. n + 1 /\ y.trades[n + 1] = u
        /\ \A k \in 1 .. n : y.trades[k] = l.trades[k]
    <3>1. PICK S : S = Trading!Trades
      OBVIOUS
    <3>2. l.trades \in Seq(S) /\ u \in S
      BY <1>4, <1>7, <3>1
    <3>3. y.trades = Append(l.trades, u) /\ n = Len(l.trades)
      BY <1>4, <2>1
    <3> QED BY <3>2, <3>3, Appended
  <2>5. \A k \in 1 .. n + 1 : k \in 1 .. n \/ k = n + 1
    OBVIOUS
  <2> QED BY <1>5, <1>7, <2>2, <2>3, <2>5 DEF SameTrades
<1> QED BY <1>3, <1>4, <1>6, <1>8 DEF SameBooks, SameResults, SameActive

LEMMA ManagedAlike ==
  ASSUME StudyFixed, setup.legacy = TRUE, setup.lock = FALSE, setup.kind # "RETAIL",
         NEW i \in 1 .. Trading!Bars, NEW q \in Trading!Markets(Trading!Day(i)),
         NEW b, BookOK(b), NEW l, BookOK(l), SameBooks(b, l),
         NEW e, e = calendar.signal[Trading!Day(i)],
         NEW m, m = Trading!Managed(b, q, i), NEW n, n = Trading!LegacyManaged(l, q, i, e, Trading!None)
  PROVE  SameBooks(m, n)
<1>1. CASE b.active = <<>>
  <2>1. l.active = <<>>
    BY <1>1 DEF SameBooks, SameActive
  <2> QED BY <1>1, <2>1, ManagedBook, LegacyManagedBook
<1>2. CASE b.active # <<>>
  <2>1. l.active # <<>> /\ Alike(b.active[1], l.active[1])
    BY <1>2 DEF SameBooks, SameActive
  <2>2. PICK a, c, o, p : /\ a = b.active[1] /\ c = l.active[1] /\ o = c.option /\ o = a.option
                          /\ p = OldPrice(l, q, e, o)
    BY <2>1 DEF Alike
  <2>3. Trading!Price(b, q, i) = p /\ ViewOfHeld(b, q, i) = OldView(q, e, o)
    BY <2>1, <2>2 DEF Trading!Price, Trading!PricedOn, ViewOfHeld, OldPrice, OldView, Trading!None, Alike
  <2>4. Trading!Leaves(a, p, OldView(q, e, o), i) <=> Trading!Leaves(c, p, OldView(q, e, o), i)
    BY <2>1, <2>2 DEF Trading!Leaves, Alike
  <2>5. ~Trading!MustSquareOff(Trading!Day(i), a.expiry)
    BY DEF Trading!MustSquareOff
  <2>6. p \in Nat \ {0}
    BY <1>2, <2>3, PriceOfHeld
  <2>7. /\ IF Trading!Leaves(c, p, OldView(q, e, o), i)
           THEN n = Trading!Closed(l, p, i, Trading!DefaultStt) ELSE n = l
    BY <2>1, <2>2 DEF Trading!LegacyManaged, Trading!Flat, OldPrice, OldView
  <2>8. CASE Trading!Leaves(c, p, OldView(q, e, o), i)
    <3>1. PICK stt \in Nat : stt = Trading!DefaultStt
      BY DEF Trading!DefaultStt
    <3>2. m = Trading!Closed(b, p, i, stt)
      <4>1. Trading!SttRate(Trading!Day(i)) = stt
        BY <3>1, OneTaxRate
      <4> QED BY <1>2, <2>2, <2>3, <2>4, <2>8, <4>1, ManagedBook
    <3>3. n = Trading!Closed(l, p, i, stt)
      BY <2>7, <2>8, <3>1
    <3> QED BY <1>2, <2>6, <3>2, <3>3, ClosedAlike
  <2>9. CASE ~Trading!Leaves(c, p, OldView(q, e, o), i)
    <3>1. PICK x : /\ m.active = <<x>> /\ x.bar = a.bar /\ x.option = a.option /\ x.paid = a.paid
                   /\ m.pending = b.pending /\ m.equity = b.equity /\ m.trades = b.trades
      BY <1>2, <2>2, <2>3, <2>4, <2>5, <2>9, ManagedBook
    <3>2. n = l
      BY <2>7, <2>9
    <3>3. SameActive(m.active, n.active)
      BY <2>1, <2>2, <3>1, <3>2 DEF SameActive, Alike
    <3> QED BY <3>1, <3>2, <3>3 DEF SameBooks, SameResults
  <2> QED BY <2>8, <2>9
<1> QED BY <1>1, <1>2

\* With the lag of a bar the two fill the same signal.
LEMMA FilledAlike ==
  ASSUME StudyFixed, setup.legacy = TRUE, setup.lock = FALSE,
         NEW i \in 1 .. Trading!Bars, NEW q \in Trading!Markets(Trading!Day(i)),
         NEW b, BookOK(b), NEW l, BookOK(l), SameBooks(b, l),
         NEW f, f = Trading!Filled(b, q, i), NEW g, g = OldFilled(l, q, i)
  PROVE  SameBooks(f, g)
<1>1. PICK e : e = calendar.signal[Trading!Day(i)]
  OBVIOUS
<1>2. PICK p : p = Trading!Mark(q, e, l.pending[1].option)
  OBVIOUS
<1>3. b.pending = l.pending /\ (b.active = <<>> <=> l.active = <<>>) /\ SameResults(b, l)
  BY DEF SameBooks, SameActive
<1>4. f.equity = b.equity /\ f.trades = b.trades /\ g.equity = l.equity /\ g.trades = l.trades
  BY <1>1, <1>2, FilledBook, OldFilledBook
<1>5. CASE b.active = <<>> /\ b.pending # <<>>
  <2>1. PICK s \in Trading!Signals : s = b.pending[1]
    BY <1>5 DEF BookOK, Books
  <2>2. f.pending = <<>> /\ f.active = Trading!TryFill(b, q, i, s)
    BY <1>5, <2>1, FilledBook
  <2>3. /\ g.pending = <<>> /\ p \in Nat
        /\ g.active = IF p > 500 /\ Trading!Affordable(l, p) THEN Trading!Bought(q, i, e, s.option) ELSE <<>>
    BY <1>1, <1>2, <1>3, <1>5, <2>1, OldFilledBook
  <2>4. e = Trading!PricedOn(Trading!Day(i), s.expiry) /\ p = Trading!Mark(q, e, s.option) /\ e \in Int
    BY <1>1, <1>2, <1>3, <2>1, StudyFacts DEF Trading!PricedOn
  <2>5. ~Trading!MustSquareOff(Trading!Day(i), s.expiry)
    BY DEF Trading!MustSquareOff
  <2>6. Trading!Affordable(b, p) <=> Trading!Affordable(l, p)
    BY <1>3 DEF Trading!Affordable, SameResults
  <2>7. SameActive(f.active, g.active)
    <3>1. CASE p > 500 /\ Trading!Affordable(b, p)
      <4>1. \E a : f.active = <<a>> /\ Opens(a, q, i, s.expiry, s.option, e)
        BY <2>2, <2>4, <2>5, <3>1, TryFillOpens
      <4>2. \E c : Trading!Bought(q, i, e, s.option) = <<c>> /\ Opens(c, q, i, e, s.option, e)
        BY <2>3, <2>4, <3>1, BoughtOpens
      <4>3. g.active = Trading!Bought(q, i, e, s.option)
        BY <2>3, <2>6, <3>1
      <4> QED BY <4>1, <4>2, <4>3 DEF SameActive, Alike, Opens
    <3>2. CASE ~(p > 500 /\ Trading!Affordable(b, p))
      <4>1. f.active = <<>>
        BY <2>2, <2>4, <2>5, <3>2, TryFillOpens
      <4> QED BY <2>3, <2>6, <3>2, <4>1 DEF SameActive
    <3> QED BY <3>1, <3>2
  <2> QED BY <1>3, <1>4, <2>2, <2>3, <2>7 DEF SameBooks, SameResults
<1>6. CASE ~(b.active = <<>> /\ b.pending # <<>>)
  <2>1. f = b
    BY <1>6, FilledBook
  <2>2. g = l
    BY <1>3, <1>6 DEF OldFilled
  <2> QED BY <2>1, <2>2
<1> QED BY <1>5, <1>6

LEMMA UpgradedInStep ==
  ASSUME StudyFixed, setup.legacy = TRUE, setup.lock = FALSE, setup.kind # "RETAIL", setup.lag = 1,
         NEW i \in 1 .. Trading!Bars, NEW q \in Trading!Markets(Trading!Day(i)),
         NEW b, BookOK(b), NEW l, BookOK(l), SameBooks(b, l),
         NEW passing, passing \subseteq Trading!Options,
         NEW x, x = Trading!RobustBar(b, q, i, passing), NEW y, y = Trading!UpgradedBar(l, q, i, passing)
  PROVE  SameBooks(x, y)
<1>1. PICK e : e = calendar.signal[Trading!Day(i)]
  OBVIOUS
<1>2. PICK s : s = Trading!Signal(i, Trading!Min(passing))
  OBVIOUS
<1>3. PICK f, g : f = Trading!Filled(b, q, i) /\ g = OldFilled(l, q, i)
  OBVIOUS
<1>4. PICK m, n : m = Trading!Managed(f, q, i) /\ n = Trading!LegacyManaged(g, q, i, e, Trading!None)
  OBVIOUS
<1>5. BookOK(f) /\ BookOK(g)
  BY <1>1, <1>3, FilledBook, OldFilledBook
<1>6. BookOK(m) /\ BookOK(n)
  BY <1>4, <1>5, ManagedBook, LegacyManagedBook
<1>7. SameBooks(f, g)
  BY <1>3, FilledAlike
<1>8. SameBooks(m, n)
  BY <1>1, <1>4, <1>5, <1>7, ManagedAlike
<1>9. e = 0 <=> Trading!Day(i) \notin Trading!Sessions
  BY <1>1, OneTaxRate
<1>10. n = Trading!LegacyManaged(OldFilled(l, q, i), q, i, e, Trading!None)
  BY <1>3, <1>4
<1>11. CASE e = 0
  <2>1. x = b
    BY <1>9, <1>11 DEF Trading!RobustBar
  <2>2. y = l
    BY <1>1, <1>11 DEF Trading!UpgradedBar, Trading!None
  <2> QED BY <2>1, <2>2
<1>12. CASE e # 0
  <2>1. x = Trading!Signalled(m, q, i, passing)
    BY <1>3, <1>4, <1>9, <1>12 DEF Trading!RobustBar
  <2>2. ~Trading!MustSquareOff(Trading!Day(i), calendar.signal[Trading!Day(i)])
    BY DEF Trading!MustSquareOff
  <2>3. /\ x.equity = m.equity /\ x.trades = m.trades
        /\ IF m.active = <<>> /\ m.pending = <<>> /\ passing # {} /\ i < Trading!Bars
           THEN x.active = m.active /\ x.pending = <<s>> ELSE x = m
    BY <1>2, <1>6, <2>1, <2>2, SignalledBook
  <2>4. IF n.active = <<>> /\ n.pending = <<>> /\ passing # {} /\ i < Trading!Bars
        THEN y.pending = <<s>> /\ y.active = n.active /\ y.equity = n.equity /\ y.trades = n.trades
        ELSE y = n
    BY <1>1, <1>2, <1>10, <1>12, UpgradedBook
  <2>5. m.pending = n.pending /\ (m.active = <<>> <=> n.active = <<>>)
    BY <1>8 DEF SameBooks, SameActive
  <2> QED BY <1>8, <2>3, <2>4, <2>5 DEF SameBooks, SameResults
<1> QED BY <1>11, <1>12

LEMMA MispricingInStep ==
  ASSUME StudyFixed, setup.legacy = TRUE, setup.lock = FALSE, setup.masked = FALSE,
         setup.kind # "RETAIL", setup.lag = 0,
         NEW i \in 1 .. Trading!Bars, NEW q \in Trading!Markets(Trading!Day(i)),
         NEW b, BookOK(b), NEW l, BookOK(l), SameBooks(b, l), b.pending = <<>>,
         NEW passing, passing \subseteq Dear(q, i),
         NEW x, x = Trading!RobustBar(b, q, i, passing), NEW y, y = Trading!MispricingBar(l, q, i, passing),
         NEW e, e = calendar.signal[Trading!Day(i)],
         \A o \in passing : x.active = <<>> => Trading!Affordable(x, q[<<e, o>>].close)
  PROVE  SameResults(x, y) /\ (i < Trading!Bars => SameBooks(x, y) /\ x.pending = <<>>)
<1>1. e = 0 <=> Trading!Day(i) \notin Trading!Sessions
  BY OneTaxRate
<1>2. PICK m, n : m = Trading!Managed(b, q, i) /\ n = Trading!LegacyManaged(l, q, i, e, Trading!None)
  OBVIOUS
<1>3. b = Trading!Filled(b, q, i)
  BY FilledBook
<1>4. SameBooks(m, n)
  BY <1>2, ManagedAlike
<1>5. BookOK(m) /\ BookOK(n)
  BY <1>2, ManagedBook, LegacyManagedBook
<1>6. m.pending = <<>>
  BY <1>2, <1>3, FilledLeavesNone
<1>7. BookOK(y) /\ MispricingBuys(y, l, n, q, i, e, passing)
  BY <1>2, MispricingBook
<1>8. CASE e = 0
  <2>1. x = b
    BY <1>1, <1>8 DEF Trading!RobustBar
  <2>2. y = l
    BY <1>7, <1>8 DEF MispricingBuys
  <2> QED BY <2>1, <2>2 DEF SameBooks
<1>9. CASE e # 0
  <2>1. x = Trading!Signalled(m, q, i, passing)
    BY <1>1, <1>2, <1>3, <1>9 DEF Trading!RobustBar
  <2>2. ~Trading!MustSquareOff(Trading!Day(i), calendar.signal[Trading!Day(i)])
    BY DEF Trading!MustSquareOff
  <2>3. PICK s : s = Trading!Signal(i, Trading!Min(passing))
    OBVIOUS
  <2>4. passing \subseteq Trading!Options
    BY DEF Dear
  <2>5. /\ x.equity = m.equity /\ x.trades = m.trades
        /\ IF m.active = <<>> /\ passing # {} /\ i < Trading!Bars
           THEN x.active = Trading!TryFill(m, q, i, s) /\ x.pending = <<>> ELSE x = m
    BY <1>5, <1>6, <2>1, <2>2, <2>3, <2>4, SignalledBook
  <2>6. PICK W : W = Within(n, q, i, passing)
    OBVIOUS
  <2>7. y.equity = n.equity /\ y.trades = n.trades
    BY <1>7, <1>9 DEF MispricingBuys
  <2>8. SameResults(x, y)
    BY <1>4, <2>5, <2>7 DEF SameBooks, SameResults
  <2>9. CASE m.active # <<>>
    <3>1. x = m
      BY <2>5, <2>9
    <3>2. n.active # <<>>
      BY <1>4, <2>9 DEF SameBooks, SameActive
    <3>3. y = n
      BY <1>7, <1>9, <3>2 DEF MispricingBuys
    <3> QED BY <1>4, <1>6, <2>8, <3>1, <3>3
  <2>10. CASE m.active = <<>> /\ passing = {}
    <3>1. x = m
      BY <2>5, <2>10
    <3>2. Within(n, q, i, passing) = {}
      BY <2>10 DEF Within
    <3>3. y = n
      BY <1>7, <1>9, <3>2 DEF MispricingBuys
    <3> QED BY <1>4, <1>6, <2>8, <3>1, <3>3
  <2>11. CASE m.active = <<>> /\ passing # {} /\ i < Trading!Bars
    <3>1. n.active = <<>> /\ n.pending = <<>> /\ m.equity = n.equity
      BY <1>4, <1>6, <2>11 DEF SameBooks, SameActive, SameResults
    <3>2. PICK o : o = Trading!Min(passing)
      OBVIOUS
    <3>3. o \in passing /\ (\A z \in passing : o <= z) /\ s \in Trading!Signals /\ s.option = o /\ s.expiry = e
      BY <2>3, <2>4, <2>11, <3>2, SignalOfFirst
    <3>4. PICK p : p = Trading!Mark(q, e, o)
      OBVIOUS
    <3>5. p = q[<<e, o>>].close /\ p > 1000 /\ p \in Nat
      <4>1. <<e, o>> \in DOMAIN q /\ q[<<e, o>>].close > 1000
        BY <3>3 DEF Dear
      <4>2. p \in Nat
        BY <3>4, MarksArePrices
      <4>3. p = q[<<e, o>>].close
        BY <3>4, <4>1 DEF Trading!Mark
      <4> QED BY <4>1, <4>2, <4>3
    <3>6. e = Trading!PricedOn(Trading!Day(i), s.expiry) /\ p = Trading!Mark(q, e, s.option) /\ e \in Int
      BY <3>3, <3>4, StudyFacts DEF Trading!PricedOn
    <3>7. ~Trading!MustSquareOff(Trading!Day(i), s.expiry)
      BY DEF Trading!MustSquareOff
    <3>8. x.active = Trading!TryFill(m, q, i, s) /\ x.pending = <<>>
      BY <2>5, <2>11
    <3>9. Trading!Affordable(m, p)
      <4> SUFFICES ASSUME ~Trading!Affordable(m, p) PROVE FALSE
        OBVIOUS
      <4>1. x.active = <<>>
        BY <3>3, <3>6, <3>8, TryFillOpens
      <4>2. Trading!Affordable(x, p)
        BY <3>3, <3>5, <4>1
      <4> QED BY <2>5, <4>2 DEF Trading!Affordable
    <3>10. PICK a : x.active = <<a>> /\ Opens(a, q, i, s.expiry, s.option, e)
      <4>1. p > 500
        BY <3>5
      <4> QED BY <3>3, <3>6, <3>7, <3>8, <3>9, <4>1, TryFillOpens
    <3>11. o \in Within(n, q, i, passing)
      <4>1. Trading!Affordable(n, p)
        BY <3>1, <3>9 DEF Trading!Affordable
      <4> QED BY <3>3, <3>4, <4>1 DEF Within
    <3>12. PICK w : w = Trading!Min(Within(n, q, i, passing))
      OBVIOUS
    <3>13. /\ w \in Within(n, q, i, passing) /\ \A z \in Within(n, q, i, passing) : w <= z
           /\ y.active = Trading!Bought(q, i, e, w) /\ y.pending = n.pending
      BY <1>7, <1>9, <3>1, <3>11, <3>12 DEF MispricingBuys
    <3>14. w = o
      <4>1. w \in passing /\ w <= o /\ o <= w
        BY <3>3, <3>11, <3>13 DEF Within
      <4>2. w \in Nat /\ o \in Nat
        BY <2>4, <3>3, <4>1, StudyFacts
      <4> QED BY <4>1, <4>2
    <3>15. PICK c : y.active = <<c>> /\ Opens(c, q, i, e, o, e)
      <4>1. Trading!Mark(q, e, o) # 0
        BY <3>4, <3>5
      <4> QED BY <3>6, <3>13, <3>14, <4>1, BoughtOpens
    <3>16. SameActive(x.active, y.active)
      BY <3>3, <3>10, <3>15 DEF SameActive, Alike, Opens
    <3> QED BY <2>8, <3>1, <3>8, <3>13, <3>16 DEF SameBooks
  <2>12. CASE ~(i < Trading!Bars)
    BY <2>8, <2>12
  <2> QED BY <2>9, <2>10, <2>11, <2>12
<1> QED BY <1>8, <1>9

LEMMA BarInStep ==
  ASSUME TradingInv, BridgeInv, NEW q, NEW atm, NEW passing, BarOf(q, atm, passing) PROVE BridgeInv'
<1> SUFFICES ASSUME Bridged' PROVE InStep(robust, legacy, bar)'
  BY DEF BridgeInv
<1>1. PICK i : i = bar' /\ i \in 1 .. Trading!Bars /\ i = bar + 1 /\ i - 1 = bar
  BY StudyFacts DEF TradingInv, TradingTypes, BarOf
<1>2. StudyFixed /\ UNCHANGED <<setup, calendar>> /\ BookOK(robust) /\ BookOK(legacy) /\ bar < Trading!Bars
  BY DEF TradingInv, TradingTypes, BarOf
<1>3. q \in Trading!Markets(Trading!Day(i))
  BY <1>1, <1>2 DEF BarOf
<1>4. passing \subseteq Dear(q, i) /\ passing \subseteq Trading!Options
  <2>1. passing \in Trading!Passing(q, i, atm)
    BY <1>1 DEF BarOf
  <2>2. passing \subseteq Dear(q, i)
    BY <1>2, <2>1, PassingIsDear
  <2> QED BY <2>2 DEF Dear
<1>5. /\ setup.legacy = TRUE /\ setup.lock = FALSE /\ setup.masked = FALSE /\ setup.kind # "RETAIL"
      /\ setup.kind \in {"PURE_PDE", "HYBRID"} /\ (setup.lag = 0 => tight' = FALSE)
  BY <1>2 DEF Bridged
<1>6. setup.lag \in {0, 1} /\ tight \in BOOLEAN
  BY <1>2, StudyFacts DEF TradingInv, TradingTypes
<1>7. PICK x, y : x = robust' /\ y = legacy'
  OBVIOUS
<1>8. x = Trading!RobustBar(robust, q, i, passing)
  BY <1>1, <1>7 DEF BarOf
<1>9. PICK e : e = calendar.signal[Trading!Day(i)]
  OBVIOUS
<1>10. setup.lag = 0 => /\ tight = FALSE
                        /\ \A o \in passing : x.active = <<>> => Trading!Affordable(x, q[<<e, o>>].close)
  <2> SUFFICES ASSUME setup.lag = 0
               PROVE  /\ tight = FALSE
                      /\ \A o \in passing : x.active = <<>> => Trading!Affordable(x, q[<<e, o>>].close)
    OBVIOUS
  <2>1. ~(tight \/ \E o \in passing, b \in {x, y} :
             Trading!Flat(b) /\ ~Trading!Affordable(b, q[<<e, o>>].close))
    <3>1. tight' = (tight \/ \E o \in passing, b \in {robust', legacy'} :
              Trading!Flat(b) /\ ~Trading!Affordable(b, q[<<calendar.signal[Trading!Day(bar')], o>>].close))
      BY DEF BarOf
    <3>2. tight' = FALSE
      BY <1>5
    <3>3. ~(tight \/ \E o \in passing, b \in {robust', legacy'} :
              Trading!Flat(b) /\ ~Trading!Affordable(b, q[<<calendar.signal[Trading!Day(bar')], o>>].close))
      BY <3>1, <3>2
    <3>4. calendar.signal[Trading!Day(bar')] = e /\ {robust', legacy'} = {x, y}
      BY <1>1, <1>7, <1>9
    <3> QED BY <3>3, <3>4
  <2> QED BY <1>6, <2>1 DEF Trading!Flat
<1>11. SameBooks(robust, legacy) /\ (setup.lag = 0 => robust.pending = <<>>)
  <2>1. Bridged
    BY <1>5, <1>10 DEF Bridged
  <2> QED BY <1>2, <2>1 DEF BridgeInv, InStep
<1>12. SameResults(x, y) /\ (i < Trading!Bars => SameBooks(x, y) /\ (setup.lag = 0 => x.pending = <<>>))
  <2>1. CASE setup.lag = 1
    <3>1. y = Trading!UpgradedBar(legacy, q, i, passing)
      BY <1>1, <1>5, <1>7, <2>1 DEF BarOf
    <3>2. SameBooks(x, y)
      BY <1>1, <1>2, <1>3, <1>4, <1>5, <1>8, <1>11, <2>1, <3>1, UpgradedInStep
    <3> QED BY <2>1, <3>2 DEF SameBooks
  <2>2. CASE setup.lag = 0
    <3>1. y = Trading!MispricingBar(legacy, q, i, passing)
      BY <1>1, <1>5, <1>7, <2>2 DEF BarOf
    <3> QED BY <1>1, <1>2, <1>3, <1>4, <1>5, <1>8, <1>9, <1>10, <1>11, <2>2, <3>1, MispricingInStep
  <2> QED BY <1>6, <2>1, <2>2
<1>13. Trading!Bars' = Trading!Bars
  BY <1>2 DEF Trading!Bars
<1>14. SameResults(robust, legacy)' <=> SameResults(x, y)
  BY <1>7 DEF SameResults, SameTrades, Twins
<1>15. SameBooks(robust, legacy)' <=> SameBooks(x, y)
  BY <1>7, <1>14 DEF SameBooks, SameActive, Alike
<1> QED BY <1>1, <1>2, <1>7, <1>12, <1>13, <1>14, <1>15 DEF InStep

LEMMA BridgeAlone == ASSUME BridgeInv, UNCHANGED <<setup, calendar, bar, robust, legacy, tight>> PROVE BridgeInv'
BY DEF BridgeInv, Bridged, InStep, SameBooks, SameResults, SameTrades, SameActive, Twins, Alike, Trading!Bars

LEMMA BridgeStep == ASSUME TradingInv, BridgeInv, [Trading!Next]_tradingVars PROVE BridgeInv'
<1>1. CASE Trading!Bar
  <2>1. PICK q, atm, passing : BarOf(q, atm, passing)
    BY <1>1, BarIsOf DEF TradingInv, TradingTypes
  <2> QED BY <2>1, BarInStep
<1>2. CASE Trading!Account
  <2>1. UNCHANGED <<setup, calendar, bar, robust, legacy, tight>>
    BY <1>2 DEF Trading!Account
  <2> QED BY <2>1, BridgeAlone
<1>3. CASE UNCHANGED tradingVars
  <2>1. UNCHANGED <<setup, calendar, bar, robust, legacy, tight>>
    BY <1>3 DEF tradingVars
  <2> QED BY <2>1, BridgeAlone
<1> QED BY <1>1, <1>2, <1>3 DEF Trading!Next

LEMMA BridgeStarts == ASSUME Trading!Init PROVE BridgeInv
<1>1. robust = legacy /\ robust.pending = <<>> /\ robust.active = <<>>
  BY DEF Trading!Init, Trading!Book
<1> QED BY <1>1 DEF BridgeInv, InStep, SameBooks, SameResults, SameTrades, SameActive, Twins, Alike

LEMMA BridgeAlways == PathsSpec => []BridgeInv
<1>1. PathsInit => BridgeInv
  BY BridgeStarts DEF PathsInit
<1>2. TradingInv /\ BridgeInv /\ [PathsNext]_allVars => BridgeInv'
  <2> SUFFICES ASSUME TradingInv, BridgeInv, [PathsNext]_allVars PROVE BridgeInv'
    OBVIOUS
  <2>1. [Trading!Next]_tradingVars
    BY DEF PathsNext, allVars, moreVars, tradingVars
  <2> QED BY <2>1, BridgeStep
<1> QED BY <1>1, <1>2, TradingAlways, PTL DEF PathsSpec

LEMMA BridgeImplies == ASSUME TradingInv, BridgeInv PROVE BridgeAgrees
<1> SUFFICES ASSUME setup.legacy, ~setup.lock, ~setup.masked, setup.kind \in {"PURE_PDE", "HYBRID"},
                    setup.lag = 0 => ~tight
             PROVE  Trading!Blotter(robust) = Trading!Blotter(legacy)
  BY DEF BridgeAgrees, Trading!BridgeAgrees
<1>1. StudyFixed /\ BookOK(robust) /\ BookOK(legacy) /\ tight \in BOOLEAN
  BY DEF TradingInv, TradingTypes
<1>2. setup.legacy = TRUE /\ setup.lock = FALSE /\ setup.masked = FALSE /\ (setup.lag = 0 => tight = FALSE)
  BY <1>1, StudyFacts
<1>3. SameTrades(robust.trades, legacy.trades)
  BY <1>2 DEF BridgeInv, Bridged, InStep, SameResults
<1>4. \A k \in DOMAIN robust.trades :
        robust.trades[k] \in Trading!Trades /\ legacy.trades[k] \in Trading!Trades
  BY <1>1, <1>3 DEF BookOK, Books, SameTrades
<1>5. ASSUME NEW t \in Trading!Trades, NEW u \in Trading!Trades, Twins(t, u), NEW none
      PROVE  [t EXCEPT !.expiry = none] = [u EXCEPT !.expiry = none]
  BY <1>5 DEF Trading!Trades, Twins
<1>6. \A k \in DOMAIN robust.trades :
        [robust.trades[k] EXCEPT !.expiry = Trading!None] = [legacy.trades[k] EXCEPT !.expiry = Trading!None]
  <2> SUFFICES ASSUME NEW k \in DOMAIN robust.trades
               PROVE  [robust.trades[k] EXCEPT !.expiry = Trading!None]
                        = [legacy.trades[k] EXCEPT !.expiry = Trading!None]
    OBVIOUS
  <2>1. PICK t, u \in Trading!Trades : t = robust.trades[k] /\ u = legacy.trades[k]
    BY <1>4
  <2>2. Twins(t, u)
    BY <1>3, <2>1 DEF SameTrades
  <2>3. PICK none : none = Trading!None
    OBVIOUS
  <2>4. [t EXCEPT !.expiry = none] = [u EXCEPT !.expiry = none]
    BY <1>5, <2>2
  <2> QED BY <2>1, <2>3, <2>4
<1> QED BY <1>3, <1>6 DEF Trading!Blotter, SameTrades

(* The original classes and the corrected executor in legacy mode make the *)
(* same trades, as long as no signal was beyond the capital.               *)
THEOREM BridgeHolds == PathsSpec => []BridgeAgrees
<1>1. TradingInv /\ BridgeInv => BridgeAgrees
  BY BridgeImplies
<1> QED BY <1>1, TradingAlways, BridgeAlways, PTL
=============================================================================
