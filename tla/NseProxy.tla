------------------------------ MODULE NseProxy ------------------------------
(***************************************************************************)
(* GET /options/{symbol}: an option chain through one HTTP client shared by*)
(* all requests, whose session cookies are renewed when the exchange       *)
(* refuses a request (domains/ingestion/api/nse_options_router_api.py).    *)
(*                                                                         *)
(* The exchange serves a request that carries fresh cookies.  It may also  *)
(* refuse for reasons of its own, or the connection fails: these are the   *)
(* faults.                                                                 *)
(***************************************************************************)
EXTENDS Naturals, FiniteSets

CONSTANTS Clients,      \* requests
          Nobody,
          MaxProxyFaults

ConstantsAssumption == Nobody \notin Clients /\ MaxProxyFaults \in Nat

VARIABLES
  cookies,   \* of the shared client: none, half (of the home page only), fresh
  locked,    \* who holds _cookie_lock
  recent,    \* less than 5 seconds since the end of the last refresh
  lapsed,    \* history: that refresh failed, its error was swallowed
  at,        \* where each request is
  attempt,   \* its attempt, 0 or 1
  back,      \* where it goes on after refresh_nse_cookies
  sent,      \* the cookies its HTTP request left with
  excused,   \* history: requests to which something happened that may refuse them
  troubles   \* faults so far

vars == <<cookies, locked, recent, lapsed, at, attempt, back, sent, excused, troubles>>

Served == {"ok", "failed"}
Begun(c) == at[c] \notin {"new"} \cup Served

TypeOK ==
  /\ cookies \in {"none", "half", "fresh"} /\ locked \in Clients \cup {Nobody}
  /\ recent \in BOOLEAN /\ lapsed \in BOOLEAN
  /\ at \in [Clients -> {"new", "top", "get", "again", "want", "home", "page", "sleep"} \cup Served]
  /\ attempt \in [Clients -> 0 .. 1]
  /\ back \in [Clients -> {"get", "again", "top"}]
  /\ sent \in [Clients -> {"nothing", "none", "half", "fresh"}]
  /\ excused \subseteq Clients
  /\ troubles \in 0 .. MaxProxyFaults
  /\ \A c \in Clients : locked = c <=> at[c] \in {"home", "page"}

Init ==
  /\ locked = Nobody
  /\ \/ cookies = "none" /\ recent = FALSE /\ lapsed = FALSE    \* no refresh at startup, or long ago
     \/ cookies = "fresh" /\ recent = TRUE /\ lapsed = FALSE    \* startup_nse_client has just refreshed
     \/ cookies = "none" /\ recent = TRUE /\ lapsed = TRUE      \* ... or failed to
  /\ at = [c \in Clients |-> "new"] /\ attempt = [c \in Clients |-> 0]
  /\ back = [c \in Clients |-> "get"] /\ sent = [c \in Clients |-> "nothing"]
  /\ excused = {} /\ troubles = 0

Goto(c, stage) == at' = [at EXCEPT ![c] = stage]
Call(c, target) == Goto(c, "want") /\ back' = [back EXCEPT ![c] = target]

(* What happens is the excuse of those who are under way.                  *)
Excuse(who) == excused' = excused \cup {c \in who : Begun(c)}
Fault ==
  /\ troubles < MaxProxyFaults /\ troubles' = troubles + 1
  /\ Excuse(Clients)
Quiet == UNCHANGED <<troubles, excused>>
Shared == <<cookies, locked, recent, lapsed>>

-----------------------------------------------------------------------------
(* The top of the loop: without any cookie it asks for a refresh first.    *)
Top(c) ==
  /\ at[c] \in {"new", "top"}
  /\ IF cookies = "none" THEN Call(c, "get") ELSE Goto(c, "get") /\ UNCHANGED back
  /\ UNCHANGED <<Shared, attempt, sent, excused, troubles>>

Send(c) ==
  /\ at[c] \in {"get", "again"} /\ sent[c] = "nothing"
  /\ sent' = [sent EXCEPT ![c] = cookies]
  /\ UNCHANGED <<Shared, at, attempt, back, excused, troubles>>

(* An exception: the next attempt after a refresh, or the end.             *)
GiveUp(c) ==
  IF attempt[c] = 0
  THEN Call(c, "top") /\ attempt' = [attempt EXCEPT ![c] = 1]
  ELSE Goto(c, "failed") /\ UNCHANGED <<attempt, back>>

Answer(c) ==
  /\ sent[c] # "nothing" /\ sent' = [sent EXCEPT ![c] = "nothing"]
  /\ \/ /\ sent[c] = "fresh" /\ Goto(c, "ok")
        /\ UNCHANGED <<attempt, back>> /\ Quiet
     \/ /\ IF at[c] = "get" THEN Call(c, "again") /\ UNCHANGED attempt ELSE GiveUp(c)
        /\ IF sent[c] = "fresh" THEN Fault ELSE Quiet
     \/ GiveUp(c) /\ Fault
     \/ /\ at[c] = "again" /\ Fault     \* 200 without records: no refresh this time
        /\ IF attempt[c] = 0 THEN Goto(c, "top") /\ attempt' = [attempt EXCEPT ![c] = 1]
                             ELSE Goto(c, "failed") /\ UNCHANGED attempt
        /\ UNCHANGED back
  /\ UNCHANGED Shared

\* Mutant of Enter: the refresh of somebody else is not waited for.
EnterBusy(c) ==
  /\ at[c] = "want"
  /\ IF recent \/ locked # Nobody
     THEN /\ Goto(c, "sleep") /\ UNCHANGED <<cookies, locked>>
          /\ IF lapsed THEN Excuse({c}) ELSE UNCHANGED excused
     ELSE /\ Goto(c, "home") /\ locked' = c /\ cookies' = "none"
          /\ Excuse(Clients \ {c})
  /\ UNCHANGED <<recent, lapsed, attempt, back, sent, troubles>>

(* refresh_nse_cookies: whoever gets the lock clears the cookies and visits*)
(* the home page and the chain's page, unless somebody just did.           *)
Enter(c) ==
  /\ at[c] = "want" /\ locked = Nobody
  /\ IF recent
     THEN /\ Goto(c, "sleep") /\ UNCHANGED <<cookies, locked>>
          /\ IF lapsed THEN Excuse({c}) ELSE UNCHANGED excused
     ELSE /\ Goto(c, "home") /\ locked' = c /\ cookies' = "none"
          /\ Excuse(Clients \ {c})
  /\ UNCHANGED <<recent, lapsed, attempt, back, sent, troubles>>

Visit(c) ==
  /\ at[c] = "home" /\ Goto(c, "page") /\ cookies' = "half"
  /\ UNCHANGED <<locked, recent, lapsed, attempt, back, sent, excused, troubles>>

Unlock(c) ==
  /\ Goto(c, "sleep") /\ locked' = Nobody /\ recent' = TRUE
  /\ UNCHANGED <<attempt, back, sent>>

Refreshed(c) ==
  /\ at[c] = "page" /\ cookies' = "fresh" /\ lapsed' = FALSE
  /\ Unlock(c) /\ Quiet

\* Mutant of RefreshFails: the error leaves with the lock held.
RefreshRaises(c) ==
  /\ at[c] \in {"home", "page"} /\ lapsed' = TRUE /\ Fault
  /\ Goto(c, "failed")
  /\ UNCHANGED <<cookies, locked, recent, attempt, back, sent>>

(* A visit fails; the error is logged and the refresh counts as done.      *)
RefreshFails(c) ==
  /\ at[c] \in {"home", "page"} /\ lapsed' = TRUE /\ Fault
  /\ Unlock(c) /\ UNCHANGED cookies

Resume(c) ==
  /\ at[c] = "sleep" /\ Goto(c, back[c])
  /\ UNCHANGED <<Shared, attempt, back, sent, excused, troubles>>

FiveSeconds ==
  /\ recent /\ recent' = FALSE
  /\ UNCHANGED <<cookies, locked, lapsed, at, attempt, back, sent, excused, troubles>>

Step(c) ==
  \/ Top(c) \/ Send(c) \/ Answer(c) \/ Enter(c) \/ Visit(c) \/ Refreshed(c)
  \/ RefreshFails(c) \/ Resume(c)

Next == (\E c \in Clients : Step(c)) \/ FiveSeconds

Spec == Init /\ [][Next]_vars

(***************************************************************************)
(* Fairness: the event loop runs every request that is ready, the HTTP     *)
(* client has a timeout, and asyncio.Lock wakes its waiters in turn.       *)
(***************************************************************************)
Fairness ==
  \A c \in Clients :
    WF_vars(Top(c) \/ Send(c) \/ Answer(c) \/ Enter(c) \/ Visit(c) \/ Refreshed(c) \/ Resume(c))

-----------------------------------------------------------------------------
(* Nobody gets a 500 without a reason: a fault while the request was under *)
(* way, a refresh that failed less than five seconds before it looked, or  *)
(* a refresh that cleared the cookies under it.                            *)
FailuresHaveReasons == \A c \in Clients : at[c] = "failed" => c \in excused

(* Every request is answered: the refreshes it waits for end, release the  *)
(* lock on every path, and are not asked for over and over.                *)
EveryClientServed == \A c \in Clients : at[c] = "new" ~> at[c] \in Served
=============================================================================
