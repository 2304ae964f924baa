------------------------------ MODULE Dashboard ------------------------------
(***************************************************************************)
(* What one browser tab shows (frontend/app.js): the loads of a symbol,    *)
(* the background refreshes, the messages of the WebSocket and the         *)
(* technicals panel.  JavaScript runs to the next await, so an action is   *)
(* what happens between two of them, and what the server answers and sends *)
(* comes in any order.                                                     *)
(*                                                                         *)
(* The socket itself is TabSocket: whenever there is one it is of the      *)
(* symbol shown, and nothing of a closed one is delivered.                 *)
(*                                                                         *)
(* A price is what it belongs to and the time the server gave it; a chain  *)
(* is a symbol and the list of its expiries.  The simulation controls, the *)
(* layout and what is computed from the chain are left out.                *)
(***************************************************************************)
EXTENDS Naturals, FiniteSetsExt

CONSTANTS Symbols,
          NoSymbol,      \* nothing loaded yet: appState still has its default, without a price
          MaxTime,       \* bound on the times of prices, chains and expiries
          MaxLoads,      \* bound on the loads the user asks for
          MaxInFlight    \* bound on the refreshes and on the technicals requests of a symbol

ConstantsAssumption ==
  /\ NoSymbol \notin Symbols
  /\ MaxTime \in Nat /\ MaxLoads \in Nat /\ MaxInFlight \in Nat

VARIABLES
  symbol,      \* appState.symbol
  spot,        \* marketSpot
  clock,       \* lastPriceUpdated, 0 for null
  chain,       \* optionChains and expiryDates
  expiry,      \* selectedExpiry, 0 for none
  seq,         \* tickerRequestSeq
  loads,       \* the requests of fetchTickerData without an answer yet
  refreshes,   \* how many of fetchTickerDataBackground, by symbol
  lookups,     \* how many of fetchAndRenderTechnicals, by symbol
  panel,       \* the technicals panel: its label and whose data it shows
  connected,   \* is there an open socket?
  wanted,      \* history: the symbol of the last load
  failed       \* history: did it fail?

screen  == <<symbol, spot, clock, chain, expiry>>
network == <<loads, refreshes, lookups>>
choice  == <<seq, wanted, failed>>
vars    == <<screen, network, panel, connected, choice>>

Times    == 1 .. MaxTime
\* The expiries a chain of time t may list: none, or those that have not rolled off.
Listed(t) == {{}, {t, t + 1}}
AnySymbol == Symbols \cup {NoSymbol}

TypeOK ==
  /\ symbol \in AnySymbol
  /\ spot \in [symbol: AnySymbol, time: 0 .. MaxTime] /\ clock \in 0 .. MaxTime
  /\ chain \in [symbol: AnySymbol, expiries: UNION {Listed(t) : t \in 0 .. MaxTime}] /\ expiry \in 0 .. MaxTime + 1
  /\ seq \in 0 .. MaxLoads
  /\ loads \subseteq [id: 1 .. seq, symbol: Symbols, body: BOOLEAN]
  /\ refreshes \in [Symbols -> 0 .. MaxInFlight]
  /\ lookups \in [Symbols -> 0 .. MaxInFlight]
  /\ panel \in [label: AnySymbol, data: AnySymbol]
  /\ connected \in BOOLEAN
  /\ wanted \in AnySymbol /\ failed \in BOOLEAN

Init ==
  /\ symbol = NoSymbol /\ spot = [symbol |-> NoSymbol, time |-> 0] /\ clock = 0
  /\ chain = [symbol |-> NoSymbol, expiries |-> {}] /\ expiry = 0
  /\ seq = 0 /\ wanted = NoSymbol /\ failed = FALSE /\ loads = {}
  /\ refreshes = [s \in Symbols |-> 0] /\ lookups = [s \in Symbols |-> 0]
  /\ panel = [label |-> NoSymbol, data |-> NoSymbol]
  /\ connected = FALSE

-----------------------------------------------------------------------------
(* Helpers                                                                 *)

\* fetchAndRenderTechnicals up to its await.
LookUp(s) ==
  /\ lookups[s] < MaxInFlight
  /\ lookups' = [lookups EXCEPT ![s] = @ + 1]
  /\ panel' = [panel EXCEPT !.label = s]

\* Price and options updates look them up while the tab is open.
LookUpIfOpen(s) == LookUp(s) \/ UNCHANGED <<lookups, panel>>

\* updateUnderlyingTime accepts times that increase.
Newer(t) == t > clock

Nearest(list) == IF list = {} THEN 0 ELSE Min(list)

-----------------------------------------------------------------------------
(* Loads                                                                   *)

\* A search, a suggestion or the reload button; onload asks for NIFTY.
Load(s) ==
  /\ seq < MaxLoads
  /\ seq' = seq + 1 /\ wanted' = s /\ failed' = FALSE
  /\ loads' = loads \cup {[id |-> seq', symbol |-> s, body |-> FALSE]}
  /\ UNCHANGED <<screen, refreshes, lookups, panel, connected>>

\* An answer to an older load is dropped, before and after its body.
Outdated(r) == r.id # seq

LoadOutdated(r) ==
  /\ Outdated(r)
  /\ loads' = loads \ {r}
  /\ UNCHANGED <<screen, refreshes, lookups, panel, connected, choice>>

LoadAnswered(r) ==
  /\ ~Outdated(r) /\ ~r.body
  /\ loads' = (loads \ {r}) \cup {[r EXCEPT !.body = TRUE]}
  /\ UNCHANGED <<screen, refreshes, lookups, panel, connected, choice>>

\* A network error, an error status or a body that is no JSON.
LoadFails(r) ==
  /\ ~Outdated(r)
  /\ loads' = loads \ {r} /\ failed' = TRUE
  /\ UNCHANGED <<screen, refreshes, lookups, panel, connected, seq, wanted>>

\* The rest of fetchTickerData: a new symbol starts a fresh price timeline, the
\* nearest expiry is selected, and the socket follows the symbol.
Show(s, t, list) ==
  /\ symbol' = s
  /\ clock' = IF s = symbol THEN clock ELSE 0
  /\ spot' = [symbol |-> s, time |-> t]
  /\ chain' = [symbol |-> s, expiries |-> list]
  /\ expiry' = Nearest(list)
  /\ LookUp(s)
  /\ connected' = (connected /\ s = symbol)

\* Mutant of LoadShown: the number is checked before the body only.
LoadShownUnchecked(r) ==
  /\ r.body
  /\ \E t \in Times : \E list \in Listed(t) : Show(r.symbol, t, list)
  /\ loads' = loads \ {r}
  /\ UNCHANGED <<refreshes, choice>>

LoadShown(r) ==
  /\ ~Outdated(r) /\ r.body
  /\ \E t \in Times : \E list \in Listed(t) : Show(r.symbol, t, list)
  /\ loads' = loads \ {r}
  /\ UNCHANGED <<refreshes, choice>>

\* The user picks one of the expiries listed.
SelectExpiry(e) ==
  /\ e \in chain.expiries /\ expiry' = e
  /\ UNCHANGED <<symbol, spot, clock, chain, network, panel, connected, choice>>

-----------------------------------------------------------------------------
(* Background refreshes                                                    *)

\* The refresh fails, or is of a symbol no longer shown.
RefreshDropped(s) ==
  /\ refreshes[s] > 0
  /\ refreshes' = [refreshes EXCEPT ![s] = @ - 1]
  /\ UNCHANGED <<screen, loads, lookups, panel, connected, choice>>

\* Mutant of Accept: the spot of the snapshot is taken whatever its age.
AcceptAlways(s, t) ==
  clock' = (IF Newer(t) THEN t ELSE clock) /\ spot' = [symbol |-> s, time |-> t]

\* The spot of the snapshot is taken if it is newer.
Accept(s, t) ==
  IF Newer(t) THEN clock' = t /\ spot' = [symbol |-> s, time |-> t]
  ELSE UNCHANGED <<clock, spot>>

\* Mutant of Shown: the symbol of the answer is not compared.
ShownAny(s) == symbol # NoSymbol
Shown(s)    == s = symbol

RefreshShown(s) ==
  /\ refreshes[s] > 0 /\ Shown(s)
  /\ refreshes' = [refreshes EXCEPT ![s] = @ - 1]
  /\ \E t \in Times : \E list \in Listed(t) :
       /\ Accept(s, t)
       /\ chain' = [symbol |-> s, expiries |-> list]
       /\ expiry' = IF expiry \in list THEN expiry ELSE Nearest(list)
  /\ LookUpIfOpen(s)
  /\ UNCHANGED <<symbol, loads, connected, choice>>

-----------------------------------------------------------------------------
(* Technicals                                                              *)

\* The tab is opened; before the first load it has nothing to look up.
ShowTechnicals ==
  /\ symbol # NoSymbol /\ LookUp(symbol)
  /\ UNCHANGED <<screen, loads, refreshes, connected, choice>>

\* renderTechnicalsData leaves the label alone ...
LookUpShown(s) ==
  /\ lookups[s] > 0
  /\ lookups' = [lookups EXCEPT ![s] = @ - 1]
  /\ panel' = [panel EXCEPT !.data = s]
  /\ UNCHANGED <<screen, loads, refreshes, connected, choice>>

\* ... and renderTechnicalsUnavailable does not.
LookUpFails(s) ==
  /\ lookups[s] > 0
  /\ lookups' = [lookups EXCEPT ![s] = @ - 1]
  /\ panel' = [label |-> s, data |-> NoSymbol]
  /\ UNCHANGED <<screen, loads, refreshes, connected, choice>>

-----------------------------------------------------------------------------
(* The WebSocket                                                           *)

\* The socket of the symbol shown opens or closes.
Connect ==
  /\ symbol # NoSymbol /\ connected' = ~connected
  /\ UNCHANGED <<screen, network, panel, choice>>

PriceMessage(t) ==
  /\ connected /\ Newer(t)
  /\ clock' = t /\ spot' = [symbol |-> symbol, time |-> t]
  /\ LookUpIfOpen(symbol)
  /\ UNCHANGED <<symbol, chain, expiry, loads, refreshes, connected, choice>>

OptionsMessage ==
  /\ connected /\ refreshes[symbol] < MaxInFlight
  /\ refreshes' = [refreshes EXCEPT ![symbol] = @ + 1]
  /\ UNCHANGED <<screen, loads, lookups, panel, connected, choice>>

Next ==
  \/ \E s \in Symbols : \/ Load(s) \/ RefreshDropped(s) \/ RefreshShown(s)
                        \/ LookUpShown(s) \/ LookUpFails(s)
  \/ \E r \in loads : LoadOutdated(r) \/ LoadAnswered(r) \/ LoadFails(r) \/ LoadShown(r)
  \/ \E e \in chain.expiries : SelectExpiry(e)
  \/ \E t \in Times : PriceMessage(t)
  \/ ShowTechnicals \/ Connect \/ OptionsMessage

Spec == Init /\ [][Next]_vars

-----------------------------------------------------------------------------
(* What is on the screen is of one symbol, and the expiry whose chain is   *)
(* shown is one that symbol lists, whichever answers came late.            *)
ScreenIsConsistent ==
  /\ spot.symbol = symbol /\ chain.symbol = symbol
  /\ IF chain.expiries = {} THEN expiry = 0 ELSE expiry \in chain.expiries

(* Once no load is under way, the tab shows the symbol that was asked for  *)
(* last, unless its load failed (app.js:527).                              *)
SettledOnLastChoice ==
  loads = {} /\ ~failed => symbol = wanted

(* The tab shows one symbol at a time, and in the end the one asked for.   *)
OneSymbolOnScreen == ScreenIsConsistent /\ SettledOnLastChoice

(* A price that came by the socket or by a refresh gives way to an older   *)
(* one only when the user loads a symbol: what arrives out of order is     *)
(* skipped (app.js:507).                                                   *)
PriceMovesForward ==
  [][spot.time = clock /\ spot'.time < spot.time => \E r \in loads : loads' = loads \ {r}]_vars
=============================================================================
