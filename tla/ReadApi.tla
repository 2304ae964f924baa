------------------------------ MODULE ReadApi ------------------------------
(***************************************************************************)
(* What the API answers from Redis while others write there: the pricer's  *)
(* ticker (pricer_router_api.py), the derivatives and the technicals       *)
(* (derivatives_router_api.py), all in domains/analytics/api.  SingleFlight*)
(* has the lock of the live fetch; here it is what the answer says.        *)
(*                                                                         *)
(* Time is in minutes of the clock; a contract is its expiry, the time at  *)
(* which it settles.  A request ends within Patience.                      *)
(***************************************************************************)
EXTENDS Naturals, FiniteSets

CONSTANTS Shapes,      \* chains the sources give: [spot, calls, puts]
          ChainTtl, PriceTtl, PricedTtl, HistoryTtl, HvTtl,
          Patience,    \* of a request
          Lag,         \* between the stamp of a priced chain and its SET
          MaxClock     \* bound on time

ConstantsAssumption ==
  /\ {ChainTtl, PriceTtl, PricedTtl, HistoryTtl, HvTtl} \subseteq Nat \ {0}
  /\ Patience \in Nat /\ Lag \in Nat /\ MaxClock \in Nat
  /\ \A s \in Shapes : /\ s.spot \in BOOLEAN /\ s.calls \cup s.puts # {}
                       /\ s.calls \cup s.puts \subseteq Nat

VARIABLES
  clock,
  chainKey, priceKey, pricedKey, historyKey,  \* the keys of Redis: {} or {a value}
  hvCache,    \* _HV_CACHE of the process
  ask,        \* the request under way
  reply,      \* the answer that the last step gave
  trouble     \* history: the last times at which a source did not give a spot

vars == <<clock, chainKey, priceKey, pricedKey, historyKey, hvCache, ask, reply, trouble>>

Keys == <<chainKey, priceKey, pricedKey, historyKey>>

NoRequest == [kind |-> "none", pc |-> "idle", began |-> 0, chain |-> {}, price |-> {}, priced |-> {},
              hv |-> {}, spot |-> FALSE]
NoReply   == [kind |-> "none", code |-> 0, began |-> 0, at |-> 0, chain |-> {}, priced |-> {},
              hv |-> {}, contract |-> {}, stale |-> FALSE, closes |-> {}]

Keyed(value, ttl) == {[value EXCEPT !.until = clock + ttl]}
Chain(shape)     == [at |-> clock, until |-> 0, spot |-> shape.spot, calls |-> shape.calls,
                     puts |-> shape.puts]
QuoteOnly(spot)  == [at |-> clock, until |-> 0, spot |-> spot, calls |-> {}, puts |-> {}]
Price(last)      == [at |-> clock, until |-> 0, last |-> last]
Stamp            == [at |-> clock, until |-> 0]

ExpiriesOf(c) == c.calls \cup c.puts

(* nearest_expiry, or the first one when all have settled.                 *)
PricingExpiry(list) ==
  LET live == {e \in list : e > clock}
      from == IF live # {} THEN live ELSE list
  IN  {e \in from : \A f \in from : e <= f}

-----------------------------------------------------------------------------
(* The writers: poll_options and poll_prices, the pricing subscriber.      *)

Trouble(is) == trouble' = IF is THEN clock + 1 ELSE trouble

PollChain(shape) ==
  /\ chainKey' = Keyed(Chain(shape), ChainTtl) /\ Trouble(~shape.spot)
  /\ reply' = NoReply
  /\ UNCHANGED <<clock, priceKey, pricedKey, historyKey, hvCache, ask>>

PollPrice ==
  /\ priceKey' = Keyed(Price(TRUE), PriceTtl)
  /\ reply' = NoReply
  /\ UNCHANGED <<clock, chainKey, pricedKey, historyKey, hvCache, ask, trouble>>

\* The stamp is taken before the SET.
StorePriced ==
  /\ \E late \in 0 .. Lag : /\ late <= clock
                            /\ pricedKey' = Keyed([Stamp EXCEPT !.at = clock - late], PricedTtl)
  /\ reply' = NoReply
  /\ UNCHANGED <<clock, chainKey, priceKey, historyKey, hvCache, ask, trouble>>

(* Time; Redis drops what has expired.                                     *)
Alive(key) == {v \in key : clock' < v.until}

Tick ==
  /\ clock < MaxClock /\ clock' = clock + 1
  /\ ask.pc # "idle" => clock < ask.began + Patience
  /\ chainKey' = Alive(chainKey) /\ priceKey' = Alive(priceKey)
  /\ pricedKey' = Alive(pricedKey) /\ historyKey' = Alive(historyKey)
  /\ reply' = NoReply
  /\ UNCHANGED <<hvCache, ask, trouble>>

-----------------------------------------------------------------------------
Begin(kind, spot) ==
  /\ ask.pc = "idle"
  /\ ask' = [NoRequest EXCEPT !.kind = kind, !.pc = "chain", !.began = clock, !.spot = spot]
  /\ reply' = NoReply
  /\ UNCHANGED <<clock, Keys, hvCache, trouble>>

Answer(r) ==
  /\ reply' = [r EXCEPT !.kind = ask.kind, !.began = ask.began, !.at = clock, !.chain = ask.chain]
  /\ ask' = NoRequest
Refuse(code) == Answer([NoReply EXCEPT !.code = code])

Go(r) == ask' = r /\ reply' = NoReply

(* The first read of each of the three; an error of Redis is caught but in *)
(* get_derivatives.                                                        *)
ReadChain ==
  /\ ask.pc = "chain"
  /\ \/ /\ ask.kind = "ticker"
        /\ Go([ask EXCEPT !.pc = "price", !.chain = chainKey]) \/ Go([ask EXCEPT !.pc = "wait"])
     \/ /\ ask.kind = "derivatives"
        /\ Go([ask EXCEPT !.pc = "priced", !.chain = chainKey]) \/ Refuse(500)
     \/ /\ ask.kind = "technicals"
        /\ \E spot \in {ask.spot, ask.spot \/ \E c \in chainKey : c.spot} :
             IF spot THEN Go([ask EXCEPT !.pc = "history"]) ELSE Refuse(422)
  /\ UNCHANGED <<clock, Keys, hvCache, trouble>>

(* get_ticker_parameters. *)
ReadPrice ==
  /\ ask.pc = "price"
  /\ \E p \in {priceKey, {}} :
       Go([ask EXCEPT !.pc = IF ask.chain = {} THEN "wait" ELSE "hv", !.price = p])
  /\ UNCHANGED <<clock, Keys, hvCache, trouble>>

\* Another request's fetch was waited for, or there is none, or in vain.
Wait ==
  /\ ask.pc = "wait"
  /\ \/ chainKey # {} /\ Go([ask EXCEPT !.pc = "hv", !.chain = chainKey])
     \/ Go([ask EXCEPT !.pc = "fetch"])
  /\ UNCHANGED <<clock, Keys, hvCache, trouble>>

\* The two writes of _live_fetch, of which either may fail.
StoreFetched(c, p) ==
  \/ UNCHANGED Keys
  \/ chainKey' = Keyed(c, ChainTtl) /\ UNCHANGED <<priceKey, pricedKey, historyKey>>
  \/ /\ chainKey' = Keyed(c, ChainTtl) /\ UNCHANGED <<pricedKey, historyKey>>
     /\ \E v \in p : priceKey' = Keyed(v, PriceTtl)

(* _live_fetch: the chain and then the quote.  Without a chain there is    *)
(* the quote's spot; an error or the deadline in the second call loses the *)
(* first one's chain too.                                                  *)
Fetch ==
  /\ ask.pc = "fetch"
  /\ \/ Refuse(503) /\ UNCHANGED Keys /\ Trouble(TRUE)
     \/ \E p \in {{}, {Price(TRUE)}} :
          \E c \in {[Chain(s) EXCEPT !.spot = @ \/ p # {}] : s \in Shapes}
                   \cup {QuoteOnly(TRUE) : v \in p} :
            /\ Go([ask EXCEPT !.pc = "hv", !.chain = {c}, !.price = IF p = {} THEN @ ELSE p])
            /\ StoreFetched(c, p)
            /\ Trouble(~c.spot)
  /\ UNCHANGED <<clock, hvCache>>

\* Mutant of Volatility: a failure is cached like a value.
VolatilityPinned ==
  /\ ask.pc = "hv"
  /\ \/ \E h \in hvCache : /\ clock - h.at < HvTtl
                           /\ Go([ask EXCEPT !.pc = "answer", !.hv = hvCache]) /\ UNCHANGED hvCache
     \/ /\ \A h \in hvCache : clock - h.at >= HvTtl
        /\ \E known \in BOOLEAN : /\ hvCache' = {[at |-> clock, known |-> known]}
                                  /\ Go([ask EXCEPT !.pc = "answer", !.hv = hvCache'])
  /\ UNCHANGED <<clock, Keys, trouble>>

(* _get_historical_volatility: within ten seconds, or 0 this time.         *)
Volatility ==
  /\ ask.pc = "hv"
  /\ \/ \E h \in hvCache : /\ clock - h.at < HvTtl
                           /\ Go([ask EXCEPT !.pc = "answer", !.hv = hvCache]) /\ UNCHANGED hvCache
     \/ /\ \A h \in hvCache : clock - h.at >= HvTtl
        /\ \E known \in BOOLEAN :
             LET v == {[at |-> clock, known |-> known]}
             IN  /\ Go([ask EXCEPT !.pc = "answer", !.hv = v])
                 /\ hvCache' = IF known THEN v ELSE hvCache
  /\ UNCHANGED <<clock, Keys, trouble>>

\* Mutant of Contract: the first expiry of the list.
ContractOfFirst(c) == {e \in ExpiriesOf(c) : \A f \in ExpiriesOf(c) : e <= f} \cap c.calls

\* _atm_call among the rows of the pricing expiry.
Contract(c) == PricingExpiry(ExpiriesOf(c)) \cap c.calls

AnswerTicker ==
  /\ ask.pc = "answer"
  /\ \E c \in ask.chain :
       LET spot == c.spot \/ \E p \in ask.price : p.last
       IN  IF ~spot THEN Refuse(503)
           ELSE Answer([NoReply EXCEPT !.code = 200, !.hv = ask.hv, !.contract = Contract(c)])
  /\ UNCHANGED <<clock, Keys, hvCache, trouble>>

(* get_derivatives: the second key; the state of the first is what it was. *)
AnswerDerivatives ==
  /\ ask.pc = "priced"
  /\ \/ Refuse(500)
     \/ LET shown == IF pricedKey # {} THEN pricedKey ELSE ask.chain
        IN  Answer([NoReply EXCEPT !.code = IF ask.chain # {} /\ pricedKey # {} THEN 200 ELSE 202,
                                   !.priced = pricedKey,
                                   !.stale = \A v \in shown : clock - v.at > PricedTtl])
  /\ UNCHANGED <<clock, Keys, hvCache, trouble>>

(* _daily_history: cached for an hour, but not when there are no closes.   *)
ReadHistory ==
  /\ ask.pc = "history"
  /\ \/ \E v \in historyKey :
          Answer([NoReply EXCEPT !.code = 200, !.closes = {[at |-> v.at, known |-> v.known]}])
     \/ Go([ask EXCEPT !.pc = "download"])
  /\ UNCHANGED <<clock, Keys, hvCache, trouble>>

Download ==
  /\ ask.pc = "download"
  /\ \E known \in BOOLEAN :
       /\ Answer([NoReply EXCEPT !.code = 200, !.closes = {[at |-> clock, known |-> known]}])
       /\ \/ UNCHANGED historyKey
          \/ known /\ historyKey' = {[at |-> clock, until |-> clock + HistoryTtl, known |-> TRUE]}
  /\ UNCHANGED <<clock, chainKey, priceKey, pricedKey, hvCache, trouble>>

Init ==
  /\ clock = 0 /\ chainKey = {} /\ priceKey = {} /\ pricedKey = {} /\ historyKey = {}
  /\ hvCache = {} /\ ask = NoRequest /\ reply = NoReply /\ trouble = 0

Endpoints == {"ticker", "derivatives", "technicals"}

\* An endpoint with the writers of what it reads.
Serve(kind) ==
  \/ \E s \in Shapes : PollChain(s)
  \/ kind = "ticker" /\ PollPrice
  \/ kind = "derivatives" /\ StorePriced
  \/ Tick
  \/ \E spot \in BOOLEAN : Begin(kind, spot)
  \/ ReadChain \/ ReadPrice \/ Wait \/ Fetch \/ Volatility \/ AnswerTicker
  \/ AnswerDerivatives \/ ReadHistory \/ Download

Next == \E kind \in Endpoints : Serve(kind)

Spec == Init /\ [][Next]_vars

-----------------------------------------------------------------------------
TypeOK ==
  /\ clock \in 0 .. MaxClock /\ trouble \in 0 .. MaxClock + 1
  /\ \A key \in {chainKey, priceKey, pricedKey, historyKey} :
       Cardinality(key) <= 1 /\ \A v \in key : v.at <= clock /\ clock < v.until
  /\ \A h \in hvCache : h.at <= clock /\ h.known
  /\ ask.pc \in {"idle", "chain", "price", "wait", "fetch", "hv", "answer", "priced", "history",
                 "download"}
  /\ reply.code \in {0, 200, 202, 422, 500, 503}

(* What an answer rests on is of its time: the chain, the priced chain, the*)
(* closes and the volatility no older than their keys live and the request *)
(* lasts.  A priced chain is served under the stale flag only if its SET   *)
(* was late: otherwise its key dies before the age that raises the flag.   *)
Within(value, ttl) == reply.at <= value.at + ttl + Patience

AnswersAreRecent ==
  /\ \A c \in reply.chain  : Within(c, ChainTtl)
  /\ \A v \in reply.priced : Within(v, PricedTtl + Lag) /\ (reply.stale => v.until > v.at + PricedTtl)
  /\ \A h \in reply.hv     : Within(h, HvTtl)
  /\ \A v \in reply.closes : Within(v, HistoryTtl)

(* The contract whose volatility the ticker shows has not settled when an  *)
(* expiry of the chain has not, and none that settles earlier is left.     *)
ContractIsNearest ==
  \A e \in reply.contract, c \in reply.chain :
    \A f \in ExpiriesOf(c) : f > reply.at => reply.at < e /\ e <= f

(* A failure is not served on when it is over: a missing volatility or     *)
(* history failed in this very request, and a 503 has a source that failed *)
(* within the life of a chain.                                             *)
FailuresAreNotKept ==
  /\ \A h \in reply.hv     : ~h.known => h.at >= reply.began
  /\ \A v \in reply.closes : ~v.known => v.at >= reply.began
  /\ reply.code = 503 => trouble > 0 /\ reply.at < trouble + ChainTtl + Patience

AnswersAreOfNow == AnswersAreRecent /\ ContractIsNearest /\ FailuresAreNotKept
=============================================================================
