------------------------------ MODULE GrowwToken ------------------------------
(***************************************************************************)
(* The login token of GrowwApiAdapter                                      *)
(* (domains/ingestion/infrastructure/outbound/groww_api_adapter.py).  Each *)
(* event loop has one adapter (adapter_factory.py) with a copy of its own, *)
(* and all share groww:access_token in Redis; nothing keeps two calls from *)
(* logging in at once.                                                     *)
(*                                                                         *)
(* A token is the time at which it expires, 0 for none.  Tokens without an *)
(* exp claim (configured by hand) and an adapter without Redis are not     *)
(* modelled.                                                               *)
(***************************************************************************)
EXTENDS Naturals

CONSTANTS Adapters,
          Calls,        \* what calls _get_token: one call at a time each
          AdapterOf,    \* the adapter of each
          TokenLife,    \* from login to expiry
          Margin,       \* _TOKEN_EXPIRY_MARGIN_SECONDS
          Delay,        \* longest login or Redis command
          MaxTime,      \* bound on the clock
          MaxFailures   \* bound on the failures

ConstantsAssumption ==
  /\ AdapterOf \in [Calls -> Adapters]
  /\ TokenLife \in Nat \ {0} /\ Margin \in Nat \ {0} /\ Delay \in Nat
  /\ MaxTime \in Nat \ {0} /\ MaxFailures \in Nat

VARIABLES
  now,       \* the time
  own,       \* _access_token of each adapter
  cached,    \* groww:access_token
  end,       \* when Redis drops it
  stage,     \* where each call is in _get_token
  since,     \* when it began to wait for an answer
  token,     \* the token its login returned
  ttl,       \* the ex of its SET
  last,      \* history: the time of its last login, 0 for none
  failures   \* history: Redis errors, answers lost and calls cut off so far

vars == <<now, own, cached, end, stage, since, token, ttl, last, failures>>

Expired(t) == now > t
Present    == cached # 0 /\ now < end
HorizonOf(n) == n + TokenLife

TypeOK ==
  /\ now \in 1 .. MaxTime
  /\ own \in [Adapters -> 0 .. HorizonOf(now)]
  /\ cached \in 0 .. HorizonOf(now) /\ end \in 0 .. HorizonOf(now)
  /\ stage \in [Calls -> {"idle", "read", "reply", "login", "answer", "store"}]
  /\ since \in [Calls -> 0 .. now]
  /\ token \in [Calls -> 0 .. HorizonOf(now)]
  /\ ttl \in [Calls -> 0 .. TokenLife]
  /\ \A c \in Calls : stage[c] = "store" => ttl[c] > 0
  /\ last \in [Calls -> 0 .. now]
  /\ failures \in 0 .. MaxFailures

Init ==
  /\ now = 1 /\ cached = 0 /\ end = 0 /\ failures = 0
  /\ own = [a \in Adapters |-> 0]
  /\ stage = [c \in Calls |-> "idle"]
  /\ since = [c \in Calls |-> 0]
  /\ token = [c \in Calls |-> 0]
  /\ ttl = [c \in Calls |-> 0]
  /\ last = [c \in Calls |-> 0]

Go(c, s) ==
  /\ stage' = [stage EXCEPT ![c] = s]
  /\ since' = [since EXCEPT ![c] = IF s = "idle" THEN 0 ELSE now]

Keep(c, t) == own' = [own EXCEPT ![AdapterOf[c]] = t]

Spend == failures < MaxFailures /\ failures' = failures + 1

\* An expired copy is dropped and Redis is asked; a good one ends the call here.
Begin(c) ==
  /\ stage[c] = "idle" /\ Expired(own[AdapterOf[c]])
  /\ Keep(c, 0)
  /\ Go(c, "read")
  /\ UNCHANGED <<now, cached, end, token, ttl, last, failures>>

\* _cached_token: GET ...
Read(c) ==
  /\ stage[c] = "read"
  /\ \/ token' = [token EXCEPT ![c] = IF Present THEN cached ELSE 0] /\ UNCHANGED failures
     \/ token' = [token EXCEPT ![c] = 0] /\ Spend
  /\ stage' = [stage EXCEPT ![c] = "reply"]
  /\ UNCHANGED <<now, own, cached, end, since, ttl, last>>

\* ... and its reply; a token that expired meanwhile is no hit.
Hit(c) ==
  /\ stage[c] = "reply" /\ ~Expired(token[c])
  /\ Keep(c, token[c])
  /\ Go(c, "idle")
  /\ UNCHANGED <<now, cached, end, token, ttl, last, failures>>

Miss(c) ==
  /\ stage[c] = "reply" /\ Expired(token[c])
  /\ Go(c, "login")
  /\ UNCHANGED <<now, own, cached, end, token, ttl, last, failures>>

\* _fetch_token_sync in a thread reaches Groww ...
Login(c) ==
  /\ stage[c] = "login"
  /\ token' = [token EXCEPT ![c] = HorizonOf(now)]
  /\ last' = [last EXCEPT ![c] = now]
  /\ stage' = [stage EXCEPT ![c] = "answer"]
  /\ UNCHANGED <<now, own, cached, end, since, ttl, failures>>

\* ... or not, or its answer is lost; the next call tries again.
LoginFails(c) ==
  /\ \/ stage[c] = "login" /\ UNCHANGED failures
     \/ stage[c] = "answer" /\ Spend
  /\ Go(c, "idle")
  /\ UNCHANGED <<now, own, cached, end, token, ttl, last>>

\* Mutants of StoreTtl: the margin is forgotten; it is taken for the ttl.
StoreTtlFull(left)   == left
StoreTtlMargin(left) == Margin
StoreTtl(left)       == IF left > Margin THEN left - Margin ELSE 0

\* The answer arrives; the ex of the SET is computed from what is left.
Answer(c) ==
  /\ stage[c] = "answer"
  /\ Keep(c, token[c])
  /\ ttl' = [ttl EXCEPT ![c] = StoreTtl(token[c] - now)]
  /\ Go(c, IF ttl'[c] = 0 THEN "idle" ELSE "store")
  /\ UNCHANGED <<now, cached, end, token, last, failures>>

\* _store_token.
Store(c) ==
  /\ stage[c] = "store"
  /\ \/ cached' = token[c] /\ end' = now + ttl[c] /\ UNCHANGED failures
     \/ UNCHANGED <<cached, end>> /\ Spend
  /\ Go(c, "idle")
  /\ UNCHANGED <<now, own, token, ttl, last>>

\* The process of an adapter is replaced: a failure if it was in a call.
Restart(a) ==
  /\ own[a] # 0 /\ own' = [own EXCEPT ![a] = 0]
  /\ LET served == {c \in Calls : AdapterOf[c] = a}
     IN  /\ stage' = [c \in Calls |-> IF c \in served THEN "idle" ELSE stage[c]]
         /\ since' = [c \in Calls |-> IF c \in served THEN 0 ELSE since[c]]
         /\ IF \A c \in served : stage[c] = "idle" THEN UNCHANGED failures ELSE Spend
  /\ UNCHANGED <<now, cached, end, token, ttl, last>>

\* Whoever waits is answered within Delay.
Tick ==
  /\ now < MaxTime
  /\ \A c \in Calls : stage[c] # "idle" => now < since[c] + Delay
  /\ now' = now + 1
  /\ UNCHANGED <<own, cached, end, stage, since, token, ttl, last, failures>>

Step(c) ==
  \/ Begin(c) \/ Read(c) \/ Hit(c) \/ Miss(c) \/ Login(c) \/ LoginFails(c) \/ Answer(c) \/ Store(c)

Next == (\E c \in Calls : Step(c)) \/ (\E a \in Adapters : Restart(a)) \/ Tick

Spec == Init /\ [][Next]_vars

-----------------------------------------------------------------------------
(* The token in Redis is good for Margin less one Delay at least, although *)
(* its expiry was computed before the SET and several calls may store      *)
(* theirs at once.                                                         *)
CachedTokenIsLive == Present => now + Margin <= cached + Delay

(* While nothing fails, a caller logs in again only when the token of its  *)
(* last login is about to expire, however many adapters log in at the same *)
(* time, overwrite each other's token or are restarted: polls do not       *)
(* generate a token each.  One Delay is lost when an older token           *)
(* overwrites a newer one.                                                 *)
LoginsAreSpaced ==
  [][\A c \in Calls : failures = 0 /\ last[c] # 0 /\ last'[c] # last[c]
       => last'[c] >= last[c] + TokenLife - Margin - Delay]_vars
=============================================================================
