---------------------------- MODULE SingleFlight ----------------------------
(***************************************************************************)
(* Requests for GET /pricer/ticker/{symbol} of one symbol: the cached      *)
(* chain, the wait for another request's fetch, the Redis lock and the     *)
(* live fetch (domains/analytics/api/pricer_router_api.py).  The requests  *)
(* may be served by different workers; they share Redis only.              *)
(***************************************************************************)
EXTENDS Naturals, FiniteSets

CONSTANTS Requests,
          NoRequest,   \* nobody holds the lock
          MaxFaults    \* bound on the faults of one behaviour

FaultKinds == {"death", "overrun", "redis", "source"}

ASSUME ConstantsAssumption ==
  NoRequest \notin Requests /\ MaxFaults \in Nat

VARIABLES
  cached,  \* is there a chain under market:options:{symbol}?
  lock,    \* who set pricer:fetching:{symbol}: its value does not say
  pc,      \* where each request is
  late,    \* has its wait passed the deadline?
  holds,   \* its `acquired'
  found,   \* does it have a chain to answer with?
  faults   \* history: faults of each kind so far, at most MaxFaults in all

vars == <<cached, lock, pc, late, holds, found, faults>>

Answered == {"ok", "unavailable", "dead"}

TypeOK ==
  /\ cached \in BOOLEAN
  /\ lock \in Requests \cup {NoRequest}
  /\ pc \in [Requests -> {"read", "check", "poll", "claim", "fetch", "store", "release"}
                           \cup Answered]
  /\ late \in [Requests -> BOOLEAN]
  /\ holds \in [Requests -> BOOLEAN]
  /\ found \in [Requests -> BOOLEAN]
  /\ faults \in [FaultKinds -> Nat]
  /\ \A r \in Requests : holds[r] \/ found[r]
                            => pc[r] \in {"fetch", "store", "release"} \cup Answered

Init ==
  /\ cached = FALSE /\ lock = NoRequest
  /\ pc = [r \in Requests |-> "read"]
  /\ late = [r \in Requests |-> FALSE]
  /\ holds = [r \in Requests |-> FALSE]
  /\ found = [r \in Requests |-> FALSE]
  /\ faults = [k \in FaultKinds |-> 0]

Faults == faults["death"] + faults["overrun"] + faults["redis"] + faults["source"]

Spend(k) ==
  /\ Faults < MaxFaults
  /\ faults' = [faults EXCEPT ![k] = @ + 1]

Goto(r, stage) == pc' = [pc EXCEPT ![r] = stage]

-----------------------------------------------------------------------------
(* get_ticker_parameters reads the cache.  Without a Redis client it       *)
(* fetches; a client whose GET fails is used for the lock all the same.    *)
ReadCache(r) ==
  /\ pc[r] = "read"
  /\ \/ Goto(r, IF cached THEN "ok" ELSE "check") /\ UNCHANGED faults
     \/ (Goto(r, "fetch") \/ Goto(r, "check")) /\ Spend("redis")
  /\ UNCHANGED <<cached, lock, late, holds, found>>

\* Mutant of CheckLock: a wait without a deadline.
CheckLockForever(r) ==
  /\ pc[r] = "check"
  /\ Goto(r, IF lock # NoRequest THEN "poll" ELSE "claim")
  /\ UNCHANGED <<cached, lock, late, holds, found, faults>>

(* _wait_for_concurrent_fetch: its loop condition and its deadline, ... *)
CheckLock(r) ==
  /\ pc[r] = "check"
  /\ \/ Goto(r, IF lock # NoRequest /\ ~late[r] THEN "poll" ELSE "claim") /\ UNCHANGED faults
     \/ Goto(r, "claim") /\ Spend("redis")
  /\ UNCHANGED <<cached, lock, late, holds, found>>

(* ... its sleep and look at the cache. *)
PollCache(r) ==
  /\ pc[r] = "poll"
  /\ \/ Goto(r, IF cached THEN "ok" ELSE "check") /\ UNCHANGED faults
     \/ Goto(r, "claim") /\ Spend("redis")
  /\ UNCHANGED <<cached, lock, late, holds, found>>

(* _LIVE_FETCH_DEADLINE_SECONDS pass while it waits. *)
Deadline(r) ==
  /\ pc[r] \in {"check", "poll"} /\ ~late[r]
  /\ late' = [late EXCEPT ![r] = TRUE]
  /\ UNCHANGED <<cached, lock, pc, holds, found, faults>>

\* Mutant of Claim: SET without NX.
ClaimUnconditionally(r) ==
  /\ pc[r] = "claim"
  /\ lock' = r /\ holds' = [holds EXCEPT ![r] = TRUE]
  /\ Goto(r, "fetch")
  /\ UNCHANGED <<cached, late, found, faults>>

(* _single_flight_live_fetch: SET NX EX; whoever does not get the lock     *)
(* fetches all the same.                                                   *)
Claim(r) ==
  /\ pc[r] = "claim"
  /\ \/ /\ lock' = IF lock = NoRequest THEN r ELSE lock
        /\ holds' = [holds EXCEPT ![r] = lock = NoRequest]
        /\ UNCHANGED faults
     \/ /\ Spend("redis")
        /\ lock' \in {lock, IF lock = NoRequest THEN r ELSE lock}
        /\ UNCHANGED holds
  /\ Goto(r, "fetch")
  /\ UNCHANGED <<cached, late, found>>

(* _live_fetch: the adapters answer, or every source fails. *)
Fetch(r) ==
  /\ pc[r] = "fetch"
  /\ \/ Goto(r, "store") /\ found' = [found EXCEPT ![r] = TRUE] /\ UNCHANGED faults
     \/ Goto(r, "release") /\ Spend("source") /\ UNCHANGED found
  /\ UNCHANGED <<cached, lock, late, holds>>

(* It caches what it got; a Redis error there is only logged. *)
Store(r) ==
  /\ pc[r] = "store"
  /\ \/ cached' = TRUE /\ UNCHANGED faults
     \/ UNCHANGED cached /\ Spend("redis")
  /\ Goto(r, "release")
  /\ UNCHANGED <<lock, late, holds, found>>

\* Mutants of Release: the lock is deleted without having been acquired; a
\* failed fetch starts over as if the request were new.
ReleaseAlways(r) ==
  /\ pc[r] = "release"
  /\ lock' = NoRequest
  /\ Goto(r, IF found[r] THEN "ok" ELSE "unavailable")
  /\ UNCHANGED <<cached, late, holds, found, faults>>
ReleaseAndRetry(r) ==
  /\ pc[r] = "release"
  /\ lock' = IF holds[r] THEN NoRequest ELSE lock
  /\ Goto(r, IF found[r] THEN "ok" ELSE "read")
  /\ UNCHANGED <<cached, late, holds, found, faults>>

(* The lock is deleted by whoever acquired it, no matter who has it now. *)
Release(r) ==
  /\ pc[r] = "release"
  /\ \/ lock' = (IF holds[r] THEN NoRequest ELSE lock) /\ UNCHANGED faults
     \/ holds[r] /\ UNCHANGED lock /\ Spend("redis")
  /\ Goto(r, IF found[r] THEN "ok" ELSE "unavailable")
  /\ UNCHANGED <<cached, late, holds, found>>

-----------------------------------------------------------------------------
(* The worker dies, or the client goes away and the request is cancelled. *)
Die(r) ==
  /\ pc[r] \notin Answered /\ Spend("death")
  /\ Goto(r, "dead")
  /\ UNCHANGED <<cached, lock, late, holds, found>>

(* The chain's TTL ends. *)
CacheExpires ==
  /\ cached
  /\ cached' = FALSE
  /\ UNCHANGED <<lock, pc, late, holds, found, faults>>

(* The lock's TTL ends; a holder still at work then has overrun it. *)
LockExpires ==
  /\ lock # NoRequest
  /\ IF pc[lock] \in Answered THEN UNCHANGED faults ELSE Spend("overrun")
  /\ lock' = NoRequest
  /\ UNCHANGED <<cached, pc, late, holds, found>>

Step(r) ==
  \/ ReadCache(r) \/ CheckLock(r) \/ PollCache(r) \/ Deadline(r) \/ Claim(r)
  \/ Fetch(r) \/ Store(r) \/ Release(r) \/ Die(r)

Next == (\E r \in Requests : Step(r)) \/ CacheExpires \/ LockExpires

Spec == Init /\ [][Next]_vars

(***************************************************************************)
(* Fairness: a worker goes on with every request it serves, every await of *)
(* a request has a timeout, and time passes.                               *)
(***************************************************************************)
Fairness ==
  \A r \in Requests :
    /\ WF_vars(ReadCache(r) \/ CheckLock(r) \/ PollCache(r)
                  \/ Claim(r) \/ Fetch(r) \/ Store(r) \/ Release(r))
    /\ WF_vars(Deadline(r))

FairSpec == Spec /\ Fairness

-----------------------------------------------------------------------------
Busy == {"fetch", "store", "release"}

Working == {r \in Requests : holds[r] /\ pc[r] \in Busy}

(* Only a holder that overran the lock's TTL lets a second request believe *)
(* it holds the lock; neither deaths nor lost replies of Redis do.         *)
OneHolder == Cardinality(Working) <= 1 + faults["overrun"]

(* The lock of a request at work stays its own: nobody deletes it but that *)
(* request, unless some holder overran the TTL or a Redis error came in.   *)
NoForeignRelease ==
  [][\A r \in Requests :
       lock = r /\ pc[r] \in Busy /\ lock' # r
         => pc[r] = "release" \/ faults'["overrun"] + faults'["redis"] > 0]_vars

(* Every request is answered: no wait for a lock that is never released,   *)
(* whoever dies with it.                                                   *)
EveryRequestAnswered == \A r \in Requests : pc[r] = "read" ~> pc[r] \in Answered
=============================================================================
