--------------------------- MODULE ResearchExport ---------------------------
(***************************************************************************)
(* A download of the research workbook (domains/analytics/api/             *)
(* export_research_api.py, application/historical_research_exporter.py):   *)
(* the period asked for is checked on one day and fetched perhaps on the   *)
(* next, then every trading day gets its sheets.                           *)
(*                                                                         *)
(* Days are numbers, prices tenths of a rupee.  Of a sheet the model keeps *)
(* what its numbers are computed from and what is highlighted; the prices  *)
(* of the contracts and the technicals are functions of that.              *)
(***************************************************************************)
EXTENDS Integers, FiniteSets, Sequences

CONSTANTS Periods,    \* what is asked for: [start, end, tabs]
          Histories,  \* what Yahoo may have: day -> close, NaN where a bar has none
          NaN,
          FirstDay, MaxDay,   \* bounds of today
          Widest,     \* 90 days
          Lookback,   \* 90 days before the first one are fetched too
          Kept,       \* 60 closes
          Enough,     \* 5 closes are enough for a volatility
          Wings       \* 10 strikes on either side

ConstantsAssumption ==
  /\ FirstDay \in Nat /\ MaxDay \in Nat /\ FirstDay <= MaxDay
  /\ Widest \in Nat /\ Lookback \in Nat /\ Kept \in Nat \ {0} /\ Enough \in Nat /\ Wings \in Nat \ {0}
  /\ \A p \in Periods : p.start \in Nat /\ p.end \in Nat /\ p.tabs \in BOOLEAN
  /\ \A h \in Histories : \A d \in DOMAIN h : d \in Nat /\ (h[d] = NaN \/ h[d] \in Nat \ {0})

VARIABLES
  today,
  yahoo,    \* the bars there are
  asked,    \* the request: {} or {a period}
  stage,    \* where it is
  days,     \* daily_market_map: the days still to be written, with their closes
  sheets,   \* the workbook
  status,   \* 200, 400, 500 or 503, 0 before the answer
  fetchedOn \* history: the day of the download

vars == <<today, yahoo, asked, stage, days, sheets, status, fetchedOn>>

Least(a, b) == IF a < b THEN a ELSE b
Most(a, b)  == IF a < b THEN b ELSE a

-----------------------------------------------------------------------------
(* export_research_eod. *)

Reply(code) == status' = code /\ stage' = "done"

\* Mutant of Ask: no order of the dates is asked for.
AskAnyOrder(p) ==
  /\ stage = "new" /\ asked' = {p}
  /\ IF p.end - p.start > Widest THEN Reply(400)
                                 ELSE stage' = "fetch" /\ UNCHANGED status
  /\ UNCHANGED <<today, yahoo, days, sheets, fetchedOn>>

Ask(p) ==
  /\ stage = "new" /\ asked' = {p}
  /\ IF p.start > p.end \/ p.end - p.start > Widest THEN Reply(400)
                                                    ELSE stage' = "fetch" /\ UNCHANGED status
  /\ UNCHANGED <<today, yahoo, days, sheets, fetchedOn>>

(* fetch_historical_daily_prices: nothing after today; a period that has   *)
(* not begun becomes the week up to today.                                 *)
End(p)   == Least(p.end, today)
Begin(p) == IF p.start > End(p) THEN Most(End(p) - 7, 0) ELSE p.start

Bars(p) == {d \in DOMAIN yahoo : Begin(p) - Lookback <= d /\ d < End(p) + 2 /\ d <= today}

Sorted(S) == CHOOSE s \in [1 .. Cardinality(S) -> S] : \A i, j \in DOMAIN s : i < j => s[i] < s[j]

\* Mutant of Window: the bars are cut after the loop over them, not in it.
WindowOfAll(bars, d) ==
  LET n == Cardinality(bars) IN SubSeq(Sorted(bars), Most(n - Kept, 0) + 1, n)

\* The closes that day d is judged by, as their days.
Window(bars, d) ==
  LET past == {b \in bars : b <= d}
      n    == Cardinality(past)
  IN  SubSeq(Sorted(past), Most(n - Kept, 0) + 1, n)

Fetch ==
  /\ stage = "fetch" /\ fetchedOn' = today
  /\ \E p \in asked :
       LET bars  == Bars(p)
           wanted == {d \in bars : Begin(p) <= d /\ d <= End(p)}
       IN  IF wanted = {} THEN Reply(503) /\ UNCHANGED days
           ELSE /\ days' = [i \in 1 .. Cardinality(wanted) |->
                              LET d == Sorted(wanted)[i]
                              IN  [day |-> d, spot |-> yahoo[d], window |-> Window(bars, d)]]
                /\ stage' = "write" /\ UNCHANGED status
  /\ UNCHANGED <<today, yahoo, asked, sheets>>

\* Yahoo does not answer, or with nothing.
FetchFails ==
  /\ stage = "fetch" /\ fetchedOn' = today
  /\ Reply(503)
  /\ UNCHANGED <<today, yahoo, asked, days, sheets>>

-----------------------------------------------------------------------------
(* generate_strike_grid: the strikes around the spot, in its interval.     *)

Interval(spot) ==
  CASE spot < 500   -> 10
    [] spot < 2000  -> 25
    [] spot < 5000  -> 50
    [] spot < 15000 -> 100
    [] spot < 50000 -> 500
    [] OTHER        -> 1000

\* round() of Python: a half goes to the even neighbour.
Rounded(a, b) ==
  LET q == a \div b
      r == a % b
  IN  IF 2 * r < b \/ (2 * r = b /\ q % 2 = 0) THEN q ELSE q + 1

Strikes(spot) ==
  LET centre == Rounded(spot, Interval(spot))
  IN  {k \in {(centre + i) * Interval(spot) : i \in -Wings .. Wings} : k > 0}

Distance(k, spot) == IF k > spot THEN k - spot ELSE spot - k

\* Mutant of AtTheMoney: the centre of the grid.
AtTheCentre(spot) == Rounded(spot, Interval(spot)) * Interval(spot)

\* min(): the first of the nearest ones.
AtTheMoney(spot) ==
  CHOOSE k \in Strikes(spot) :
    \A j \in Strikes(spot) : \/ Distance(k, spot) < Distance(j, spot)
                             \/ Distance(k, spot) = Distance(j, spot) /\ k <= j

(* The volatility is of the window, or 0.25 when that is short.            *)
Volatility(window) == IF Len(window) >= Enough THEN window ELSE <<>>

Chain(m) ==
  LET atm == AtTheMoney(m.spot)
  IN  [spot |-> m.spot, vol |-> Volatility(m.window), strikes |-> Strikes(m.spot), atm |-> atm,
       calls |-> {k \in Strikes(m.spot) : k <= atm}, puts |-> {k \in Strikes(m.spot) : k >= atm}]

\* separate_tabs: two sheets a day; otherwise one.
SeparateTabs(m) == <<[tab |-> "Option Chain", day |-> m.day, chain |-> Chain(m)],
                     [tab |-> "Technicals", day |-> m.day, window |-> m.window]>>
Combined(m)     == <<[tab |-> "Combined", day |-> m.day, chain |-> Chain(m)]>>

(* The next day's sheets.  A bar without a close cannot be rounded to a    *)
(* strike: the whole export fails.                                         *)
Write ==
  /\ stage = "write" /\ days # <<>>
  /\ LET m == Head(days)
     IN  IF m.spot = NaN THEN Reply(500) /\ UNCHANGED <<days, sheets>>
         ELSE /\ \E p \in asked :
                   sheets' = sheets \o (IF p.tabs THEN SeparateTabs(m) ELSE Combined(m))
              /\ days' = Tail(days)
              /\ UNCHANGED <<stage, status>>
  /\ UNCHANGED <<today, yahoo, asked, fetchedOn>>

Save ==
  /\ stage = "write" /\ days = <<>>
  /\ Reply(200)
  /\ UNCHANGED <<today, yahoo, asked, days, sheets, fetchedOn>>

Midnight ==
  /\ today < MaxDay /\ today' = today + 1
  /\ UNCHANGED <<yahoo, asked, stage, days, sheets, status, fetchedOn>>

Init ==
  /\ today = FirstDay /\ yahoo \in Histories
  /\ asked = {} /\ stage = "new" /\ days = <<>> /\ sheets = <<>> /\ status = 0 /\ fetchedOn = 0

Next ==
  \/ \E p \in Periods : Ask(p)
  \/ Fetch \/ FetchFails \/ Write \/ Save \/ Midnight

Spec == Init /\ [][Next]_vars

-----------------------------------------------------------------------------
TypeOK ==
  /\ today \in FirstDay .. MaxDay /\ asked \subseteq Periods /\ Cardinality(asked) <= 1
  /\ stage \in {"new", "fetch", "write", "done"}
  /\ status \in {0, 200, 400, 500, 503}
  /\ \A i \in DOMAIN days : days[i].day \in DOMAIN yahoo

Written == {sheets[i].day : i \in DOMAIN sheets}

(* A workbook that is delivered is of the period asked for: every trading  *)
(* day of it up to the day of the download, once and in order; only for a  *)
(* period that had not begun it is the last week before.                   *)
CoversThePeriod ==
  status = 200 =>
    \A p \in asked :
      /\ Written = IF p.start <= fetchedOn
                      THEN {d \in DOMAIN yahoo : p.start <= d /\ d <= p.end /\ d <= fetchedOn}
                      ELSE {d \in DOMAIN yahoo : fetchedOn - 7 <= d /\ d <= fetchedOn}
      /\ Len(sheets) = Cardinality(Written) * (IF p.tabs THEN 2 ELSE 1)
      /\ \A i, j \in DOMAIN sheets : i < j => sheets[i].day <= sheets[j].day

(* No sheet knows the future: what a day's numbers are computed from ends  *)
(* with that day's own close.                                              *)
NoLookahead ==
  \A i \in DOMAIN sheets :
    LET w == IF sheets[i].tab = "Technicals" THEN sheets[i].window ELSE sheets[i].chain.vol
    IN  w # <<>> => w[Len(w)] = sheets[i].day /\ \A j \in DOMAIN w : w[j] <= sheets[i].day

(* The strike marked at the money is listed and no multiple of the interval*)
(* is nearer; besides it only strikes in the money are coloured.           *)
MarksAreRight ==
  \A i \in DOMAIN sheets :
    sheets[i].tab # "Technicals" =>
      LET c    == sheets[i].chain
          step == Interval(c.spot)
      IN  /\ c.atm \in c.strikes
          /\ \A k \in {Most(c.atm - step, step), c.atm + step} : Distance(c.atm, c.spot) <= Distance(k, c.spot)
          /\ c.calls \cap c.puts = {c.atm} /\ c.calls \cup c.puts = c.strikes
          /\ \A k \in c.calls \ {c.atm} : k < c.spot
          /\ \A k \in c.puts \ {c.atm}  : k > c.spot

(* An export that fails for want of prices, or with an error, met a day    *)
(* without them; nothing invented takes their place.                       *)
RefusalsAreMeant ==
  /\ status = 500 => \E d \in DOMAIN yahoo : yahoo[d] = NaN
  /\ status = 400 => \A p \in asked : p.start > p.end \/ p.end - p.start > Widest
  /\ status = 503 => sheets = <<>>

ExportIsHonest == CoversThePeriod /\ NoLookahead /\ MarksAreRight /\ RefusalsAreMeant
=============================================================================
