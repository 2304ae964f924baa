---------------------------- MODULE MarketSource ----------------------------
(***************************************************************************)
(* One polling process asks for prices and option chains: Groww first, the *)
(* exchange's web site next, Yahoo last (groww_api_adapter.py,             *)
(* nse_api_adapter.py), and stores what it gets (ingestion_service.py).    *)
(* Three caches stand in between: the expiries of the day and the dividend *)
(* yield in Redis, Yahoo's `info' in the process.                          *)
(*                                                                         *)
(* Time is in parts of an IST day.  A chain is the set of its expiries and *)
(* whether it has a spot price; a yield is the time at which it was asked  *)
(* for and whether Yahoo told it, otherwise the code writes 0.0.  Any      *)
(* request may fail.                                                       *)
(***************************************************************************)
EXTENDS Naturals, FiniteSets

CONSTANTS Expiries,     \* the days on which options expire
          DayLength,    \* parts of a day: the life of a cached list or yield
          MaxRefused,   \* retries after a 401 of the web site
          MaxTime       \* bound

ConstantsAssumption ==
  /\ Expiries \subseteq Nat /\ DayLength \in Nat \ {0} /\ MaxRefused \in Nat /\ MaxTime \in Nat

VARIABLES
  now,
  expiryCache,   \* groww:expiries:{symbol}:{day}, by day: none, or [list, at]
  yieldCache,    \* market:dividend_yield:v2:{symbol}: none, or [seen, told, at]
  infoCache,     \* _INFO_CACHE of the process: none, or [seen, told]
  req,           \* the call under way
  stored         \* what the last call stored under market:options or market:price

vars == <<now, expiryCache, yieldCache, infoCache, req, stored>>

Day == now \div DayLength
Listed == {e \in Expiries : e >= Day}
NearestTwo(list) == {e \in list : Cardinality({f \in list : f < e}) < 2}

NoYield == [seen |-> now, told |-> FALSE]

Idle == [pc |-> "idle", kind |-> "chain", day |-> 0, listing |-> FALSE, refused |-> 0,
         list |-> {}, rows |-> {}, spot |-> FALSE, bare |-> FALSE, yield |-> {}, failed |-> {}]

(* The call moves on with r; `who' did not answer as it should.            *)
Go(r, who) == req' = [r EXCEPT !.failed = @ \cup who]

Caches == <<expiryCache, yieldCache, infoCache>>

-----------------------------------------------------------------------------
(* poll_prices and poll_options, a symbol at a time.                       *)
Start(kind) ==
  /\ req.pc = "idle"
  /\ req' = [Idle EXCEPT !.pc = "token", !.kind = kind, !.day = Day]
  /\ stored' = {}
  /\ UNCHANGED <<now, Caches>>

Fallback(r) == [r EXCEPT !.pc = IF r.kind = "chain" THEN "nse" ELSE "yahoo price",
                         !.listing = FALSE, !.refused = 0, !.rows = {}]

GetToken ==
  /\ req.pc = "token"
  /\ \/ Go([req EXCEPT !.pc = IF req.kind = "chain" THEN "expiries" ELSE "quote"], {})
     \/ Go(Fallback(req), {"groww"})
  /\ UNCHANGED <<now, Caches, stored>>

\* Mutant of ReadExpiries: one key for every day.
ReadExpiriesOfAnyDay ==
  /\ req.pc = "expiries"
  /\ \/ \E d \in DOMAIN expiryCache : \E c \in expiryCache[d] :
          Go([req EXCEPT !.pc = "quote", !.list = c.list], {})
     \/ Go([req EXCEPT !.pc = "nse", !.listing = TRUE], {})
  /\ UNCHANGED <<now, Caches, stored>>

(* _expiry_dates: the key names the day on which the call began; an error  *)
(* of Redis is a miss.                                                     *)
ReadExpiries ==
  /\ req.pc = "expiries"
  /\ \/ \E c \in expiryCache[req.day] : Go([req EXCEPT !.pc = "quote", !.list = c.list], {})
     \/ Go([req EXCEPT !.pc = "nse", !.listing = TRUE], {})
  /\ UNCHANGED <<now, Caches, stored>>

(* _fetch_option_chain_raw returns a list of expiries and the rows of some *)
(* of them, or nothing; it was called for the list or for the rows.  A     *)
(* chain may be bare: expiries, and not one row.                           *)
Return(r, list, rows, spot, who) ==
  IF ~r.listing
  THEN /\ Go([r EXCEPT !.pc = "store", !.rows = rows, !.spot = spot,
                       !.bare = list # {} /\ rows = {}], who)
       /\ UNCHANGED Caches
  ELSE IF list = {}
  THEN Go([r EXCEPT !.pc = "endpoint"], who) /\ UNCHANGED Caches
  ELSE /\ UNCHANGED <<yieldCache, infoCache>>
       /\ expiryCache' \in {expiryCache,
                            [expiryCache EXCEPT ![r.day] = {[list |-> list, at |-> now]}]}
       /\ Go([r EXCEPT !.pc = "quote", !.list = list], who)

(* _fetch_nse_webscraper_options: the contract info, asked again with fresh*)
(* cookies after a 401, then a request for each of the first two expiries; *)
(* what fails is left out.                                                 *)
NseInfo ==
  /\ req.pc = "nse"
  /\ \/ req.refused < MaxRefused /\ Go([req EXCEPT !.refused = @ + 1], {})
     \/ Go([req EXCEPT !.pc = "yahoo"], {"nse"})
     \/ Listed # {} /\ Go([req EXCEPT !.pc = "nse chain", !.list = Listed], {})
  /\ UNCHANGED <<now, Caches, stored>>

\* Mutant of NseChain: an empty answer of the web site is the answer.
NseChainOnly ==
  /\ req.pc = "nse chain"
  /\ \E rows \in SUBSET NearestTwo(req.list), spot \in BOOLEAN :
       Return(req, IF rows = {} THEN {} ELSE req.list, rows, spot,
              IF rows = NearestTwo(req.list) /\ spot THEN {} ELSE {"nse"})
  /\ UNCHANGED <<now, stored>>

(* The expiries that were answered for are `named', those of them with a   *)
(* leg that was traded or is open have rows.  The chain is used as soon as *)
(* an expiry is named in it, rows or not; Yahoo is asked when none is.     *)
NseChain ==
  /\ req.pc = "nse chain"
  /\ \E named \in SUBSET NearestTwo(req.list) :
       IF named = {} THEN Go([req EXCEPT !.pc = "yahoo"], {"nse"}) /\ UNCHANGED Caches
       ELSE \E rows \in SUBSET named, spot \in BOOLEAN :
              Return(req, req.list, rows, spot,
                     IF rows = NearestTwo(req.list) /\ spot THEN {} ELSE {"nse"})
  /\ UNCHANGED <<now, stored>>

(* _fetch_yfinance_options_sync: the first two expiries, each with the rows*)
(* it has, or nothing.                                                     *)
YahooChain ==
  /\ req.pc = "yahoo"
  /\ \/ Return(req, {}, {}, FALSE, {"yahoo"})
     \/ \E rows \in SUBSET NearestTwo(Listed), spot \in BOOLEAN :
          /\ Listed # {}
          /\ Return(req, Listed, rows, spot,
                    IF rows = NearestTwo(Listed) /\ spot THEN {} ELSE {"yahoo"})
  /\ UNCHANGED <<now, stored>>

(* The expiries of Groww itself, asked for when nobody else has any.       *)
ExpiriesEndpoint ==
  /\ req.pc = "endpoint"
  /\ \/ Listed # {} /\ Go([req EXCEPT !.pc = "quote", !.list = Listed], {})
     \/ Go(Fallback(req), {"groww"})
  /\ UNCHANGED <<now, Caches, stored>>

Quote ==
  /\ req.pc = "quote"
  /\ \/ Go([req EXCEPT !.pc = "dividend", !.spot = TRUE], {})
     \/ Go([req EXCEPT !.pc = "yahoo price"], {"groww"})
  /\ UNCHANGED <<now, Caches, stored>>

Priced(r, y) == [r EXCEPT !.pc = IF r.kind = "chain" THEN "groww chain" ELSE "store",
                          !.yield = IF r.kind = "chain" THEN {} ELSE {y}]

(* The `info' of Yahoo, which may be empty, is kept for a day either way.  *)
YahooInfo(y) ==
  \/ infoCache = {y} /\ UNCHANGED infoCache
  \/ /\ infoCache = {} /\ y \in {NoYield, [NoYield EXCEPT !.told = TRUE]}
     /\ infoCache' = {y}

Yields == [seen : 0 .. now, told : BOOLEAN]

(* _fetch_price_sync: without a history there is no price.                 *)
YahooPrice ==
  /\ req.pc = "yahoo price"
  /\ \/ Go([Priced(req, NoYield) EXCEPT !.spot = FALSE], {"yahoo"}) /\ UNCHANGED infoCache
     \/ \E y \in Yields : YahooInfo(y) /\ Go([Priced(req, y) EXCEPT !.spot = TRUE], {})
  /\ UNCHANGED <<now, expiryCache, yieldCache, stored>>

\* Mutant of Dividend: a hit renews the entry.
DividendRenewed ==
  /\ req.pc = "dividend"
  /\ \/ \E c \in yieldCache : /\ yieldCache' = {[c EXCEPT !.at = now]} /\ UNCHANGED infoCache
                               /\ Go(Priced(req, [seen |-> c.seen, told |-> c.told]), {})
     \/ /\ yieldCache = {}
        /\ \E y \in Yields :
             /\ YahooInfo(y)
             /\ yieldCache' = {[seen |-> y.seen, told |-> y.told, at |-> now]}
             /\ Go(Priced(req, y), {})
  /\ UNCHANGED <<now, expiryCache, stored>>

(* The yield that goes with a quote: a miss asks Yahoo and caches whatever *)
(* came back, 0.0 included; an error of Redis leaves it at 0.0, or as told *)
(* when it only could not be cached.                                       *)
Dividend ==
  /\ req.pc = "dividend"
  /\ \/ /\ \E c \in yieldCache : Go(Priced(req, [seen |-> c.seen, told |-> c.told]), {})
        /\ UNCHANGED <<yieldCache, infoCache>>
     \/ /\ yieldCache = {}
        /\ \E y \in Yields :
             /\ YahooInfo(y) \/ (y = NoYield /\ UNCHANGED infoCache)
             /\ yieldCache' \in {{}, {[seen |-> y.seen, told |-> y.told, at |-> now]}}
             /\ Go(Priced(req, y), {})
     \/ Go(Priced(req, NoYield), {}) /\ UNCHANGED <<yieldCache, infoCache>>
  /\ UNCHANGED <<now, expiryCache, stored>>

\* Mutant of GrowwChain: an answer without rows is an answer.
GrowwChainAsIs ==
  /\ req.pc = "groww chain"
  /\ \E rows \in SUBSET NearestTwo(req.list), own \in BOOLEAN :
       Go([req EXCEPT !.pc = "store", !.rows = rows, !.spot = @ \/ own, !.list = {}],
          IF rows = NearestTwo(req.list) THEN {} ELSE {"groww"})
  /\ UNCHANGED <<now, Caches, stored>>

(* Groww's own chain of the two nearest expiries: a refused one is left    *)
(* out, an exception or no row at all goes to the fallback.  The rows have *)
(* the spot of the quote unless the answer brings its own.                 *)
GrowwChain ==
  /\ req.pc = "groww chain"
  /\ \/ Go(Fallback(req), {"groww"})
     \/ \E rows \in (SUBSET NearestTwo(req.list)) \ {{}}, own \in BOOLEAN :
          Go([req EXCEPT !.pc = "store", !.rows = rows, !.spot = @ \/ own, !.list = {}],
             IF rows = NearestTwo(req.list) THEN {} ELSE {"groww"})
  /\ UNCHANGED <<now, Caches, stored>>

(* ingest_options and ingest_market_data store what there is and publish   *)
(* it; the batch goes on without it after an error of Redis.               *)
Store ==
  /\ req.pc = "store"
  /\ stored' \in {{}, IF (req.kind = "price" /\ req.spot) \/ req.rows # {} THEN {req} ELSE {}}
  /\ req' = Idle
  /\ UNCHANGED <<now, Caches>>

(* Time passes.  What a cache held for a day goes.                         *)
Tick ==
  /\ now < MaxTime
  /\ now' = now + 1 /\ stored' = {}
  /\ expiryCache' = [d \in DOMAIN expiryCache |->
                       {c \in expiryCache[d] : now' - c.at < DayLength}]
  /\ yieldCache' = {c \in yieldCache : now' - c.at < DayLength}
  /\ infoCache'  = {c \in infoCache : now' - c.seen < DayLength}
  /\ UNCHANGED req

Init ==
  /\ now = 0 /\ expiryCache = [d \in 0 .. MaxTime \div DayLength |-> {}]
  /\ yieldCache = {} /\ infoCache = {} /\ req = Idle /\ stored = {}

Next ==
  \/ \E kind \in {"chain", "price"} : Start(kind)
  \/ GetToken \/ ReadExpiries \/ NseInfo \/ NseChain \/ YahooChain \/ ExpiriesEndpoint
  \/ Quote \/ YahooPrice \/ Dividend \/ GrowwChain \/ Store \/ Tick

Spec == Init /\ [][Next]_vars

-----------------------------------------------------------------------------
TypeOK ==
  /\ now \in 0 .. MaxTime
  /\ \A d \in DOMAIN expiryCache : \A c \in expiryCache[d] :
       c.list \subseteq Expiries /\ c.list # {} /\ c.at \in 0 .. now
  /\ infoCache \subseteq Yields /\ Cardinality(infoCache) <= 1
  /\ yieldCache \subseteq [seen : 0 .. now, told : BOOLEAN, at : 0 .. now]
  /\ Cardinality(yieldCache) <= 1
  /\ req.list \cup req.rows \subseteq Expiries /\ req.refused \in 0 .. MaxRefused
  /\ req.failed \subseteq {"groww", "nse", "yahoo"} /\ req.yield \subseteq Yields
  /\ req.bare \in BOOLEAN

(* A call ends with nothing only after every source it may use refused, or *)
(* after one of the two fallbacks answered with a chain that has expiries  *)
(* and no row: whichever of the requests inside it fails, an exception     *)
(* after half of a chain included, the next source is asked.               *)
AnswersUnlessAllFail ==
  req.pc = "store" =>
    /\ req.kind = "chain" /\ req.rows = {} =>
         "groww" \in req.failed /\ (req.bare \/ {"nse", "yahoo"} \subseteq req.failed)
    /\ req.kind = "price" /\ ~req.spot => {"groww", "yahoo"} \subseteq req.failed

(* A chain has no expiry before the day of its call, although the list may *)
(* come from a cache and midnight may pass meanwhile; and when no source   *)
(* refused anything it has the two nearest expiries and a spot price.      *)
ChainIsCurrent ==
  req.pc = "store" /\ req.kind = "chain" =>
    /\ \A e \in req.rows : e >= req.day
    /\ req.failed = {} =>
         req.spot /\ \E d \in req.day .. Day : req.rows = NearestTwo({e \in Expiries : e >= d})

(* The two caches of a dividend yield stack: what is cached was asked for  *)
(* less than two days ago, and so a yield Yahoo did not tell, which is     *)
(* quoted as zero, is given up within two days of the failure.             *)
YieldIsRecent == \A c \in yieldCache : now - c.seen < 2 * DayLength

(* Every call gets the most that the sources and the caches allow.         *)
MarketIsTold == AnswersUnlessAllFail /\ ChainIsCurrent /\ YieldIsRecent
=============================================================================
