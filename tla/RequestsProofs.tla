--------------------------- MODULE RequestsProofs ---------------------------
(***************************************************************************)
(* Proofs about the two endpoints of MCRequests, for every number of       *)
(* requests, clients and faults: the single-flight fetch never deletes a   *)
(* working request's lock without a fault, and the proxy of the option     *)
(* chain never refuses a request without a reason.                         *)
(***************************************************************************)
EXTENDS MCRequests, FiniteSetTheorems, TLAPS

-----------------------------------------------------------------------------
(* The single-flight fetch. *)

\* Without an overrun and without a Redis error the lock is that of the one
\* request that works under it.
LockIsMine == faults["overrun"] + faults["redis"] = 0 => \A r \in Working : lock = r

\* A lock that is not that of a working request is as good as free: the next
\* request may take it when it expires.
HoldersCounted ==
  /\ IsFiniteSet(Working)
  /\ Cardinality(Working) + (IF lock \in Working THEN 0 ELSE 1) <= 1 + faults["overrun"]

FlightInv == TypeOK /\ LockIsMine /\ HoldersCounted

LEMMA FlightFaults ==
  ASSUME TypeOK
  PROVE  /\ \A k \in FaultKinds : faults[k] \in Nat
         /\ FaultKinds = {"death", "overrun", "redis", "source"}
         /\ \A k \in FaultKinds : Spend(k) =>
              /\ faults' \in [FaultKinds -> Nat]
              /\ \A j \in FaultKinds : faults'[j] = IF j = k THEN faults[j] + 1 ELSE faults[j]
  BY DEF TypeOK, Spend, FaultKinds

LEMMA FlightTypeStep == TypeOK /\ [Next]_vars => TypeOK'
<1> SUFFICES ASSUME TypeOK, [Next]_vars PROVE TypeOK'
  OBVIOUS
<1> USE FlightFaults DEF Goto, Answered
<1>1. ASSUME NEW r \in Requests, ReadCache(r) PROVE TypeOK'
  BY <1>1 DEF TypeOK, ReadCache
<1>2. ASSUME NEW r \in Requests, CheckLock(r) PROVE TypeOK'
  BY <1>2 DEF TypeOK, CheckLock
<1>3. ASSUME NEW r \in Requests, PollCache(r) PROVE TypeOK'
  BY <1>3 DEF TypeOK, PollCache
<1>4. ASSUME NEW r \in Requests, Deadline(r) PROVE TypeOK'
  BY <1>4 DEF TypeOK, Deadline
<1>5. ASSUME NEW r \in Requests, Claim(r) PROVE TypeOK'
  BY <1>5 DEF TypeOK, Claim
<1>6. ASSUME NEW r \in Requests, Fetch(r) PROVE TypeOK'
  BY <1>6 DEF TypeOK, Fetch
<1>7. ASSUME NEW r \in Requests, Store(r) PROVE TypeOK'
  BY <1>7 DEF TypeOK, Store
<1>8. ASSUME NEW r \in Requests, Release(r) PROVE TypeOK'
  BY <1>8 DEF TypeOK, Release
<1>9. ASSUME NEW r \in Requests, Die(r) PROVE TypeOK'
  BY <1>9 DEF TypeOK, Die
<1>10. ASSUME CacheExpires PROVE TypeOK'
  BY <1>10 DEF TypeOK, CacheExpires
<1>11. ASSUME LockExpires PROVE TypeOK'
  BY <1>11 DEF TypeOK, LockExpires
<1>12. ASSUME UNCHANGED vars PROVE TypeOK'
  BY <1>12 DEF TypeOK, vars
<1> QED
  BY <1>1, <1>2, <1>3, <1>4, <1>5, <1>6, <1>7, <1>8, <1>9, <1>10, <1>11, <1>12 DEF Next, Step

(* What a step may do to the lock and to the requests that work under it.  *)
Keeps       == Working' = Working /\ lock' = lock
Leaves(r)   == Working' = Working \ {r} /\ (lock' = lock \/ (lock' = NoRequest /\ r \in Working))
Takes(r)    == lock = NoRequest /\ lock' = r /\ Working' = Working \cup {r}
LosesReply(r) ==
  /\ lock = NoRequest /\ lock' = r /\ r \notin Working /\ Working' = Working
  /\ faults'["redis"] = faults["redis"] + 1
Overruns ==
  /\ Working' = Working /\ lock' = NoRequest
  /\ lock \in Working => faults'["overrun"] = faults["overrun"] + 1

LEMMA LockMoves ==
  ASSUME TypeOK, [Next]_vars
  PROVE  /\ \/ Keeps \/ Overruns
            \/ \E r \in Requests : Leaves(r) \/ Takes(r) \/ LosesReply(r)
         /\ \A k \in FaultKinds : faults[k] \in Nat /\ faults'[k] \in Nat /\ faults[k] <= faults'[k]
         /\ NoRequest \notin Working
<1> USE FlightFaults DEF Goto, Busy, Working
<1>0. /\ pc \in [Requests -> {"read", "check", "poll", "claim", "fetch", "store", "release"}
                               \cup Answered]
      /\ holds \in [Requests -> BOOLEAN]
      /\ \A r \in Requests : holds[r] => pc[r] \in {"fetch", "store", "release"} \cup Answered
      /\ NoRequest \notin Requests
  BY ConstantsAssumption DEF TypeOK
<1>1. ASSUME NEW r \in Requests,
             ReadCache(r) \/ CheckLock(r) \/ PollCache(r) \/ Deadline(r)
      PROVE  Keeps
  <2>1. holds' = holds /\ lock' = lock
    BY <1>1 DEF ReadCache, CheckLock, PollCache, Deadline
  <2>2. \/ pc' = pc
        \/ ~holds[r] /\ \A q \in Requests \ {r} : pc'[q] = pc[q]
    BY <1>0, <1>1 DEF ReadCache, CheckLock, PollCache, Deadline, Answered
  <2> QED BY <2>1, <2>2 DEF Keeps
<1>2. ASSUME NEW r \in Requests, Claim(r)
      PROVE  Keeps \/ Takes(r) \/ LosesReply(r)
  <2>1. /\ pc[r] = "claim" /\ pc' = [pc EXCEPT ![r] = "fetch"] /\ ~holds[r]
        /\ r \notin Working
    BY <1>0, <1>2 DEF Claim, Answered
  <2>2. CASE /\ lock' = IF lock = NoRequest THEN r ELSE lock
             /\ holds' = [holds EXCEPT ![r] = lock = NoRequest]
    <3>1. CASE lock = NoRequest
      <4>1. holds'[r] /\ pc'[r] = "fetch" /\ lock' = r
        BY <1>0, <2>1, <2>2, <3>1
      <4>2. \A q \in Requests \ {r} : holds'[q] = holds[q] /\ pc'[q] = pc[q]
        BY <1>0, <2>1, <2>2
      <4> QED BY <3>1, <4>1, <4>2 DEF Takes
    <3>2. CASE lock # NoRequest
      <4>1. ~holds'[r] /\ lock' = lock
        BY <1>0, <2>2, <3>2
      <4>2. \A q \in Requests \ {r} : holds'[q] = holds[q] /\ pc'[q] = pc[q]
        BY <1>0, <2>1, <2>2
      <4> QED BY <2>1, <4>1, <4>2 DEF Keeps
    <3> QED BY <3>1, <3>2
  <2>3. CASE /\ Spend("redis") /\ UNCHANGED holds
             /\ lock' \in {lock, IF lock = NoRequest THEN r ELSE lock}
    <3>1. Working' = Working
      BY <1>0, <2>1, <2>3
    <3>2. faults'["redis"] = faults["redis"] + 1
      BY <2>3
    <3> QED BY <2>1, <2>3, <3>1, <3>2 DEF Keeps, LosesReply
  <2> QED BY <1>2, <2>2, <2>3 DEF Claim
<1>3. ASSUME NEW r \in Requests, Fetch(r) \/ Store(r)
      PROVE  Keeps
  BY <1>0, <1>3 DEF Fetch, Store, Keeps
<1>4. ASSUME NEW r \in Requests, Release(r) \/ Die(r)
      PROVE  Leaves(r)
  <2>1. /\ holds' = holds /\ pc'[r] \in {"ok", "unavailable", "dead"}
        /\ \A q \in Requests \ {r} : pc'[q] = pc[q]
    BY <1>0, <1>4 DEF Release, Die
  <2>2. Working' = Working \ {r}
    BY <2>1
  <2>3. lock' = lock \/ (lock' = NoRequest /\ r \in Working)
    BY <1>0, <1>4 DEF Release, Die
  <2> QED BY <2>2, <2>3 DEF Leaves
<1>5. ASSUME CacheExpires \/ UNCHANGED vars
      PROVE  Keeps
  BY <1>5 DEF CacheExpires, vars, Keeps
<1>6. ASSUME LockExpires
      PROVE  Overruns
  <2>1. Working' = Working /\ lock' = NoRequest
    BY <1>6 DEF LockExpires
  <2>2. lock \in Working => faults'["overrun"] = faults["overrun"] + 1
    BY <1>6 DEF LockExpires, Answered
  <2> QED BY <2>1, <2>2 DEF Overruns
<1>7. faults' = faults \/ \E k \in FaultKinds : Spend(k)
  <2>1. ASSUME NEW r \in Requests, Step(r)
        PROVE  faults' = faults \/ Spend("death") \/ Spend("overrun") \/ Spend("redis")
                 \/ Spend("source")
    BY <2>1 DEF Step, ReadCache, CheckLock, PollCache, Deadline, Claim, Fetch, Store, Release, Die
  <2>2. ASSUME CacheExpires \/ LockExpires \/ UNCHANGED vars
        PROVE  faults' = faults \/ Spend("overrun")
    BY <2>2 DEF CacheExpires, LockExpires, vars
  <2> QED BY <2>1, <2>2 DEF Next
<1>8. \A k \in FaultKinds : faults[k] \in Nat /\ faults'[k] \in Nat /\ faults[k] <= faults'[k]
  BY <1>7
<1> QED BY <1>0, <1>1, <1>2, <1>3, <1>4, <1>5, <1>6, <1>8 DEF Next, Step

(* A finite set grows or shrinks by one.                                   *)
LEMMA CountOne ==
  ASSUME NEW S, IsFiniteSet(S), NEW x
  PROVE  /\ IsFiniteSet(S \cup {x}) /\ IsFiniteSet(S \ {x})
         /\ Cardinality(S) \in Nat
         /\ Cardinality(S \cup {x}) <= Cardinality(S) + 1 /\ Cardinality(S \cup {x}) \in Nat
         /\ Cardinality(S \ {x}) = IF x \in S THEN Cardinality(S) - 1 ELSE Cardinality(S)
<1>1. Cardinality(S) \in Nat /\ IsFiniteSet(S \cup {x}) /\ IsFiniteSet(S \ {x})
  BY FS_CardinalityType, FS_AddElement, FS_RemoveElement
<1>2. Cardinality(S \cup {x}) \in Nat
  BY <1>1, FS_CardinalityType
<1>3. Cardinality(S \cup {x}) = Cardinality(S) \/ Cardinality(S \cup {x}) = Cardinality(S) + 1
  BY FS_AddElement
<1>4. Cardinality(S \ {x}) = IF x \in S THEN Cardinality(S) - 1 ELSE Cardinality(S)
  BY FS_RemoveElement
<1> QED BY <1>1, <1>2, <1>3, <1>4

LEMMA FlightStep == FlightInv /\ [Next]_vars => FlightInv'
<1> SUFFICES ASSUME FlightInv, [Next]_vars PROVE LockIsMine' /\ HoldersCounted'
  BY FlightTypeStep DEF FlightInv
<1>0. /\ TypeOK /\ LockIsMine /\ IsFiniteSet(Working) /\ Cardinality(Working) \in Nat
      /\ Cardinality(Working) + (IF lock \in Working THEN 0 ELSE 1) <= 1 + faults["overrun"]
      /\ "overrun" \in FaultKinds /\ "redis" \in FaultKinds
  BY FS_CardinalityType DEF FlightInv, HoldersCounted, FaultKinds
<1>1. /\ faults["overrun"] \in Nat /\ faults'["overrun"] \in Nat
      /\ faults["redis"] \in Nat /\ faults'["redis"] \in Nat
      /\ faults["overrun"] <= faults'["overrun"] /\ faults["redis"] <= faults'["redis"]
      /\ NoRequest \notin Working
  BY <1>0, LockMoves
<1>2. CASE Keeps
  BY <1>0, <1>1, <1>2 DEF Keeps, LockIsMine, HoldersCounted
<1>3. ASSUME NEW r \in Requests, Leaves(r) PROVE LockIsMine' /\ HoldersCounted'
  <2>1. LockIsMine'
    <3> SUFFICES ASSUME faults'["overrun"] + faults'["redis"] = 0, NEW q \in Working'
                 PROVE  lock' = q
      BY DEF LockIsMine
    <3>1. \A p \in Working : lock = p
      BY <1>0, <1>1 DEF LockIsMine
    <3> QED BY <1>3, <3>1 DEF Leaves
  <2>2. /\ IsFiniteSet(Working')
        /\ Cardinality(Working') = IF r \in Working THEN Cardinality(Working) - 1
                                                    ELSE Cardinality(Working)
    BY <1>0, <1>3, CountOne DEF Leaves
  <2>3. CASE r \in Working
    <3>1. Cardinality(Working') = Cardinality(Working) - 1
      BY <2>2, <2>3
    <3>2. Cardinality(Working) <= 1 + faults["overrun"]
      BY <1>0, <1>1
    <3>3. Cardinality(Working') + 0 <= 1 + faults'["overrun"]
          /\ Cardinality(Working') + 1 <= 1 + faults'["overrun"]
      BY <1>0, <1>1, <3>1, <3>2
    <3> QED BY <2>1, <2>2, <3>3 DEF HoldersCounted
  <2>4. CASE r \notin Working
    <3>1. Working' = Working /\ lock' = lock
      BY <1>3, <2>4 DEF Leaves
    <3> QED BY <1>0, <1>1, <2>1, <3>1 DEF HoldersCounted
  <2> QED BY <2>1, <2>3, <2>4
<1>4. ASSUME NEW r \in Requests, Takes(r) PROVE LockIsMine' /\ HoldersCounted'
  <2>1. LockIsMine'
    <3> SUFFICES ASSUME faults'["overrun"] + faults'["redis"] = 0, NEW q \in Working'
                 PROVE  lock' = q
      BY DEF LockIsMine
    <3>1. \A p \in Working : lock = p
      BY <1>0, <1>1 DEF LockIsMine
    <3> QED BY <1>1, <1>4, <3>1 DEF Takes
  <2>2. /\ IsFiniteSet(Working') /\ Cardinality(Working') <= Cardinality(Working) + 1
        /\ Cardinality(Working') \in Nat
    BY <1>0, <1>4, CountOne DEF Takes
  <2>3. lock \notin Working /\ lock' \in Working'
    BY <1>1, <1>4 DEF Takes
  <2> QED BY <1>0, <1>1, <2>1, <2>2, <2>3 DEF HoldersCounted
<1>5. ASSUME NEW r \in Requests, LosesReply(r) PROVE LockIsMine' /\ HoldersCounted'
  BY <1>0, <1>1, <1>5 DEF LosesReply, LockIsMine, HoldersCounted
<1>6. CASE Overruns
  <2>1. CASE lock \in Working
    BY <1>0, <1>1, <1>6, <2>1 DEF Overruns, LockIsMine, HoldersCounted
  <2>2. CASE lock \notin Working
    BY <1>0, <1>1, <1>6, <2>2 DEF Overruns, LockIsMine, HoldersCounted
  <2> QED BY <2>1, <2>2
<1> QED BY <1>0, <1>2, <1>3, <1>4, <1>5, <1>6, LockMoves

(* The requests of a run that starts all wait, or have all been answered:  *)
(* nobody works.                                                           *)
LEMMA FlightStarts == Init \/ FlightOver => FlightInv
<1> SUFFICES ASSUME Init \/ FlightOver PROVE FlightInv
  OBVIOUS
<1>1. TypeOK
  <2>1. /\ cached = FALSE /\ lock = NoRequest /\ late = [r \in Requests |-> FALSE]
        /\ holds = [r \in Requests |-> FALSE] /\ faults = [k \in FaultKinds |-> 0]
        /\ \E b \in BOOLEAN : found = [r \in Requests |-> b]
    BY DEF Init, FlightOver
  <2>2. pc \in [Requests -> {"read", "ok"}]
    BY DEF Init, FlightOver
  <2>3. \A r \in Requests : ~holds[r] /\ (found[r] => pc[r] = "ok")
    <3>1. CASE Init
      BY <3>1 DEF Init
    <3>2. CASE FlightOver
      BY <3>2 DEF FlightOver
    <3> QED BY <3>1, <3>2
  <2> QED BY <2>1, <2>2, <2>3 DEF TypeOK, Answered
<1>2. Working = {}
  BY DEF Init, FlightOver, Working
<1>3. IsFiniteSet(Working) /\ Cardinality(Working) = 0
  BY <1>2, FS_EmptySet
<1>4. faults["overrun"] = 0
  BY DEF Init, FlightOver, FaultKinds
<1> QED BY <1>1, <1>2, <1>3, <1>4 DEF FlightInv, LockIsMine, HoldersCounted

(* Whoever takes a working request's lock from it is that request itself,  *)
(* or a fault is behind it.                                                *)
LEMMA NoForeignReleaseStep ==
  ASSUME FlightInv, [Next]_vars, NEW r \in Requests, lock = r, pc[r] \in Busy, lock' # r
  PROVE  pc[r] = "release" \/ faults'["overrun"] + faults'["redis"] > 0
<1>0. /\ TypeOK /\ LockIsMine /\ NoRequest # r
      /\ "overrun" \in FaultKinds /\ "redis" \in FaultKinds
  BY ConstantsAssumption DEF FlightInv, FaultKinds
<1>1. /\ faults["overrun"] \in Nat /\ faults'["overrun"] \in Nat
      /\ faults["redis"] \in Nat /\ faults'["redis"] \in Nat
      /\ faults["overrun"] <= faults'["overrun"] /\ faults["redis"] <= faults'["redis"]
  BY <1>0, LockMoves
<1>2. ASSUME NEW q \in Requests, Release(q)
      PROVE  pc[r] = "release" \/ faults'["overrun"] + faults'["redis"] > 0
  <2>1. holds[q] /\ pc[q] = "release"
    BY <1>2 DEF Release
  <2>2. q \in Working
    BY <2>1 DEF Working, Busy
  <2>3. CASE faults["overrun"] + faults["redis"] = 0
    BY <1>0, <2>1, <2>2, <2>3 DEF LockIsMine
  <2> QED BY <1>1, <2>3
<1>3. CASE LockExpires
  <2>1. faults'["overrun"] = faults["overrun"] + 1
    BY <1>0, <1>3, FlightFaults DEF LockExpires, Answered, Busy
  <2> QED BY <1>1, <2>1
<1>4. ASSUME NEW q \in Requests, Claim(q)
      PROVE  FALSE
  BY <1>0, <1>4 DEF Claim
<1>5. ASSUME NEW q \in Requests,
             \/ ReadCache(q) \/ CheckLock(q) \/ PollCache(q) \/ Deadline(q)
             \/ Fetch(q) \/ Store(q) \/ Die(q)
      PROVE  FALSE
  BY <1>5 DEF ReadCache, CheckLock, PollCache, Deadline, Fetch, Store, Die
<1>6. CASE CacheExpires \/ UNCHANGED vars
  BY <1>6 DEF CacheExpires, vars
<1> QED BY <1>2, <1>3, <1>4, <1>5, <1>6 DEF Next, Step

-----------------------------------------------------------------------------
(* The option chain's proxy. *)

\* Cookies are renewed by whoever holds the lock; with the lock free and a
\* refresh less than five seconds old they are fresh, unless it failed.
RecentIsFresh == recent => locked = Nobody /\ (~lapsed => cookies = "fresh")

\* Whoever renews them has cleared them; a request that is out was sent from
\* one of the two places that send one.
PlacesOK ==
  \A c \in Clients :
    /\ at[c] = "home" => cookies = "none"
    /\ at[c] = "page" => cookies = "half"
    /\ sent[c] # "nothing" => at[c] \in {"get", "again"}

\* A request on its second attempt has its reason; so has one that is sent
\* again after a refresh, unless it leaves, or left, with fresh cookies.
ReasonsOK ==
  \A c \in Clients :
    /\ attempt[c] = 1 => c \in excused
    /\ at[c] = "sleep" \/ at[c] = "again" =>
         \/ c \in excused
         \/ sent[c] = "nothing" /\ cookies = "fresh"
         \/ sent[c] = "fresh"

ProxyInv ==
  Proxy!TypeOK /\ RecentIsFresh /\ PlacesOK /\ ReasonsOK /\ Proxy!FailuresHaveReasons

LEMMA ProxyConstants == Nobody \notin Clients /\ MaxProxyFaults \in Nat
BY ProxyAssumption DEF Proxy!ConstantsAssumption

LEMMA ProxyStarts == Proxy!Init \/ ProxyOver => ProxyInv
<1> SUFFICES ASSUME Proxy!Init \/ ProxyOver PROVE ProxyInv
  OBVIOUS
<1>1. /\ locked = Nobody /\ cookies \in {"none", "half", "fresh"}
      /\ recent \in BOOLEAN /\ lapsed \in BOOLEAN /\ RecentIsFresh
      /\ attempt = [c \in Clients |-> 0] /\ back = [c \in Clients |-> "get"]
      /\ sent = [c \in Clients |-> "nothing"] /\ excused = {} /\ troubles = 0
  BY DEF Proxy!Init, ProxyOver, RecentIsFresh
<1>2. at \in [Clients -> {"new", "ok"}]
  BY DEF Proxy!Init, ProxyOver
<1>3. Proxy!TypeOK
  BY <1>1, <1>2, ProxyConstants DEF Proxy!TypeOK, Proxy!Served
<1>4. PlacesOK /\ ReasonsOK /\ Proxy!FailuresHaveReasons
  BY <1>1, <1>2 DEF PlacesOK, ReasonsOK, Proxy!FailuresHaveReasons
<1> QED BY <1>1, <1>3, <1>4 DEF ProxyInv

LEMMA ProxyTypeStep ==
  ASSUME Proxy!TypeOK, PlacesOK, [Proxy!Next]_proxyVars
  PROVE  Proxy!TypeOK' /\ PlacesOK'
<1> USE ProxyConstants
    DEF Proxy!TypeOK, Proxy!Served, Proxy!Goto, Proxy!Call, Proxy!Excuse, Proxy!Fault,
        Proxy!Quiet, Proxy!Shared, PlacesOK
<1>1. ASSUME NEW c \in Clients, Proxy!Top(c) PROVE Proxy!TypeOK' /\ PlacesOK'
  BY <1>1 DEF Proxy!Top
<1>2. ASSUME NEW c \in Clients, Proxy!Send(c) PROVE Proxy!TypeOK' /\ PlacesOK'
  BY <1>2 DEF Proxy!Send
<1>3. ASSUME NEW c \in Clients, Proxy!Answer(c) PROVE Proxy!TypeOK' /\ PlacesOK'
  <2> USE DEF Proxy!GiveUp
  <2>1. /\ at[c] \in {"get", "again"} /\ sent' = [sent EXCEPT ![c] = "nothing"]
        /\ cookies' = cookies /\ locked' = locked /\ recent' = recent /\ lapsed' = lapsed
    BY <1>3 DEF Proxy!Answer
  <2>2. troubles' \in 0 .. MaxProxyFaults /\ excused' \subseteq Clients
    BY <1>3 DEF Proxy!Answer
  <2>3. /\ attempt' \in [Clients -> 0 .. 1] /\ back' \in [Clients -> {"get", "again", "top"}]
    BY <1>3, <2>1 DEF Proxy!Answer
  <2>4. \E stage \in {"ok", "failed", "want", "top"} : at' = [at EXCEPT ![c] = stage]
    BY <1>3, <2>1 DEF Proxy!Answer
  <2> QED BY <2>1, <2>2, <2>3, <2>4
<1>4. ASSUME NEW c \in Clients, Proxy!Enter(c) PROVE Proxy!TypeOK' /\ PlacesOK'
  BY <1>4 DEF Proxy!Enter
<1>5. ASSUME NEW c \in Clients, Proxy!Visit(c) PROVE Proxy!TypeOK' /\ PlacesOK'
  BY <1>5 DEF Proxy!Visit
<1>6. ASSUME NEW c \in Clients, Proxy!Refreshed(c) \/ Proxy!RefreshFails(c)
      PROVE  Proxy!TypeOK' /\ PlacesOK'
  <2>1. /\ at[c] \in {"home", "page"} /\ at' = [at EXCEPT ![c] = "sleep"]
        /\ locked' = Nobody /\ recent' = TRUE
        /\ attempt' = attempt /\ back' = back /\ sent' = sent
        /\ cookies' \in {cookies, "fresh"} /\ lapsed' \in BOOLEAN
    BY <1>6 DEF Proxy!Refreshed, Proxy!RefreshFails, Proxy!Unlock
  <2>2. troubles' \in 0 .. MaxProxyFaults /\ excused' \subseteq Clients
    BY <1>6 DEF Proxy!Refreshed, Proxy!RefreshFails
  <2>3. locked = c
    BY <2>1
  <2>4. Proxy!TypeOK'
    BY <2>1, <2>2, <2>3
  <2>5. PlacesOK'
    BY <2>1, <2>3
  <2> QED BY <2>4, <2>5
<1>7. ASSUME NEW c \in Clients, Proxy!Resume(c) PROVE Proxy!TypeOK' /\ PlacesOK'
  BY <1>7 DEF Proxy!Resume
<1>8. ASSUME Proxy!FiveSeconds \/ UNCHANGED proxyVars PROVE Proxy!TypeOK' /\ PlacesOK'
  BY <1>8 DEF Proxy!FiveSeconds, proxyVars
<1> QED BY <1>1, <1>2, <1>3, <1>4, <1>5, <1>6, <1>7, <1>8 DEF Proxy!Next, Proxy!Step

(* Reasons are never withdrawn, and a fault is the reason of every request *)
(* that is under way.                                                      *)
LEMMA ReasonsStay ==
  ASSUME Proxy!TypeOK, PlacesOK, [Proxy!Next]_proxyVars
  PROVE  excused \subseteq excused'
<1> USE DEF Proxy!Excuse, Proxy!Fault, Proxy!Quiet, Proxy!Shared
<1>1. ASSUME NEW c \in Clients, Proxy!Step(c) PROVE excused \subseteq excused'
  BY <1>1 DEF Proxy!Step, Proxy!Top, Proxy!Send, Proxy!Answer, Proxy!Enter, Proxy!Visit,
              Proxy!Refreshed, Proxy!RefreshFails, Proxy!Resume
<1>2. ASSUME Proxy!FiveSeconds \/ UNCHANGED proxyVars PROVE excused \subseteq excused'
  BY <1>2 DEF Proxy!FiveSeconds, proxyVars
<1> QED BY <1>1, <1>2 DEF Proxy!Next

LEMMA RecentStep ==
  ASSUME Proxy!TypeOK, PlacesOK, RecentIsFresh, [Proxy!Next]_proxyVars
  PROVE  RecentIsFresh'
<1> USE ProxyConstants DEF RecentIsFresh, Proxy!TypeOK, Proxy!Shared
<1>1. ASSUME NEW c \in Clients, Proxy!Top(c) \/ Proxy!Send(c) \/ Proxy!Answer(c) \/ Proxy!Resume(c)
      PROVE  RecentIsFresh'
  <2>1. UNCHANGED <<cookies, locked, recent, lapsed>>
    BY <1>1 DEF Proxy!Top, Proxy!Send, Proxy!Answer, Proxy!Resume
  <2> QED BY <2>1
<1>2. ASSUME NEW c \in Clients, Proxy!Enter(c) PROVE RecentIsFresh'
  BY <1>2 DEF Proxy!Enter
<1>3. ASSUME NEW c \in Clients, Proxy!Visit(c) PROVE RecentIsFresh'
  BY <1>3 DEF Proxy!Visit
<1>4. ASSUME NEW c \in Clients, Proxy!Refreshed(c) \/ Proxy!RefreshFails(c) PROVE RecentIsFresh'
  BY <1>4 DEF Proxy!Refreshed, Proxy!RefreshFails, Proxy!Unlock
<1>5. ASSUME Proxy!FiveSeconds \/ UNCHANGED proxyVars PROVE RecentIsFresh'
  BY <1>5 DEF Proxy!FiveSeconds, proxyVars
<1> QED BY <1>1, <1>2, <1>3, <1>4, <1>5 DEF Proxy!Next, Proxy!Step

LEMMA ReasonsStep == ProxyInv /\ [Proxy!Next]_proxyVars => ProxyInv'
<1> SUFFICES ASSUME ProxyInv, [Proxy!Next]_proxyVars
             PROVE  ReasonsOK' /\ Proxy!FailuresHaveReasons'
  BY ProxyTypeStep, RecentStep DEF ProxyInv
<1> DEFINE Ready(c) == \/ c \in excused
                       \/ sent[c] = "nothing" /\ cookies = "fresh"
                       \/ sent[c] = "fresh"
           Fine(c) == /\ attempt[c] = 1 => c \in excused
                      /\ at[c] = "sleep" \/ at[c] = "again" => Ready(c)
                      /\ at[c] = "failed" => c \in excused
<1>1. /\ RecentIsFresh /\ \A c \in Clients : Fine(c)
      /\ (\A c \in Clients : Fine(c)') => ReasonsOK' /\ Proxy!FailuresHaveReasons'
  BY DEF ProxyInv, ReasonsOK, Proxy!FailuresHaveReasons
<1> SUFFICES ASSUME NEW d \in Clients PROVE Fine(d)'
  BY <1>1
<1>2. excused \subseteq excused' /\ Fine(d)
  BY <1>1, ReasonsStay DEF ProxyInv
<1>3. /\ at \in [Clients -> {"new", "top", "get", "again", "want", "home", "page", "sleep",
                             "ok", "failed"}]
      /\ attempt \in [Clients -> 0 .. 1]
      /\ sent \in [Clients -> {"nothing", "none", "half", "fresh"}]
      /\ \A c \in Clients : /\ locked = c <=> at[c] \in {"home", "page"}
                            /\ sent[c] # "nothing" => at[c] \in {"get", "again"}
                            /\ at[c] = "home" => cookies = "none"
      /\ Nobody \notin Clients
  BY ProxyConstants DEF ProxyInv, Proxy!TypeOK, Proxy!Served, PlacesOK
<1> USE DEF Proxy!Goto, Proxy!Call, Proxy!Shared
(* A fault is everybody's reason. *)
<1>4. ASSUME Proxy!Fault PROVE at[d] \notin {"new", "ok", "failed"} => d \in excused'
  BY <1>4 DEF Proxy!Fault, Proxy!Excuse, Proxy!Begun, Proxy!Served
<1>5. ASSUME NEW c \in Clients, Proxy!Top(c) PROVE Fine(d)'
  BY <1>2, <1>3, <1>5 DEF Proxy!Top
<1>6. ASSUME NEW c \in Clients, Proxy!Send(c) PROVE Fine(d)'
  BY <1>2, <1>3, <1>6 DEF Proxy!Send
<1>7. ASSUME NEW c \in Clients, Proxy!Answer(c) PROVE Fine(d)'
  <2> USE DEF Proxy!GiveUp
  <2>1. /\ at[c] \in {"get", "again"} /\ sent' = [sent EXCEPT ![c] = "nothing"] /\ cookies' = cookies
        /\ \E stage \in {"ok", "want", "top", "failed"} : at' = [at EXCEPT ![c] = stage]
        /\ attempt' = attempt \/ attempt' = [attempt EXCEPT ![c] = 1]
    BY <1>3, <1>7 DEF Proxy!Answer
  <2>2. CASE c # d
    BY <1>2, <1>3, <2>1, <2>2
  <2>3. CASE c = d
    <3>1. Proxy!Fault => d \in excused'
      BY <1>4, <2>1, <2>3
    <3>2. attempt'[d] = 1 => attempt[d] = 1 \/ d \in excused'
      BY <1>2, <1>3, <1>7, <2>1, <2>3, <3>1 DEF Proxy!Answer
    <3>3. at'[d] = "failed" => attempt[d] = 1 \/ Proxy!Fault
      BY <1>3, <1>7, <2>3 DEF Proxy!Answer
    <3> QED BY <1>2, <1>3, <2>1, <2>3, <3>1, <3>2, <3>3
  <2> QED BY <2>2, <2>3
<1>8. ASSUME NEW c \in Clients, Proxy!Enter(c) PROVE Fine(d)'
  <2>1. /\ at[c] = "want" /\ attempt' = attempt /\ sent' = sent
        /\ recent \/ (cookies' = "none" /\ at' = [at EXCEPT ![c] = "home"])
        /\ recent => cookies' = cookies /\ at' = [at EXCEPT ![c] = "sleep"]
    BY <1>8 DEF Proxy!Enter
  <2>2. CASE recent
    <3>1. c \in excused' \/ cookies = "fresh"
      BY <1>1, <1>8, <2>1, <2>2 DEF Proxy!Enter, Proxy!Excuse, Proxy!Begun, Proxy!Served,
                                   RecentIsFresh
    <3> QED BY <1>2, <1>3, <2>1, <2>2, <3>1
  <2>3. CASE ~recent
    <3>1. c # d /\ at[d] \notin {"new", "ok", "failed"} => d \in excused'
      BY <1>8, <2>3 DEF Proxy!Enter, Proxy!Excuse, Proxy!Begun, Proxy!Served
    <3> QED BY <1>2, <1>3, <2>1, <2>3, <3>1
  <2> QED BY <2>2, <2>3
<1>9. ASSUME NEW c \in Clients, Proxy!Visit(c) PROVE Fine(d)'
  BY <1>2, <1>3, <1>9 DEF Proxy!Visit
<1>10. ASSUME NEW c \in Clients, Proxy!Refreshed(c) PROVE Fine(d)'
  BY <1>2, <1>3, <1>10 DEF Proxy!Refreshed, Proxy!Unlock
<1>11. ASSUME NEW c \in Clients, Proxy!RefreshFails(c) PROVE Fine(d)'
  <2>1. /\ at[c] \in {"home", "page"} /\ at' = [at EXCEPT ![c] = "sleep"]
        /\ attempt' = attempt /\ sent' = sent
        /\ at[d] \notin {"new", "ok", "failed"} => d \in excused'
    BY <1>4, <1>11 DEF Proxy!RefreshFails, Proxy!Unlock
  <2> QED BY <1>2, <1>3, <2>1
<1>12. ASSUME NEW c \in Clients, Proxy!Resume(c) PROVE Fine(d)'
  <2>1. /\ at[c] = "sleep" /\ at' = [at EXCEPT ![c] = back[c]] /\ back[c] \in {"get", "again", "top"}
        /\ cookies' = cookies /\ attempt' = attempt /\ sent' = sent /\ excused' = excused
    BY <1>12 DEF Proxy!Resume, ProxyInv, Proxy!TypeOK
  <2> QED BY <1>2, <1>3, <2>1
<1>13. ASSUME Proxy!FiveSeconds \/ UNCHANGED proxyVars PROVE Fine(d)'
  BY <1>2, <1>13 DEF Proxy!FiveSeconds, proxyVars
<1> QED BY <1>5, <1>6, <1>7, <1>8, <1>9, <1>10, <1>11, <1>12, <1>13 DEF Proxy!Next, Proxy!Step

-----------------------------------------------------------------------------
(* The run of both. *)

RequestsInv == FlightInv /\ ProxyInv

LEMMA RequestsParts == [RequestsNext]_<<vars, proxyVars>> => [Next]_vars /\ [Proxy!Next]_proxyVars
BY DEF RequestsNext

LEMMA RequestsInvariant == RequestsSpec => []RequestsInv
<1>1. RequestsInit => RequestsInv
  BY FlightStarts, ProxyStarts DEF RequestsInit, RequestsInv
<1>2. RequestsInv /\ [RequestsNext]_<<vars, proxyVars>> => RequestsInv'
  BY RequestsParts, FlightStep, ReasonsStep DEF RequestsInv
<1> QED BY <1>1, <1>2, PTL DEF RequestsSpec

(* Type correctness of both endpoints: in particular a request holds the   *)
(* lock or a chain only once it has come to its fetch, and the proxy's     *)
(* cookie lock is held by exactly the request that visits the exchange.    *)
THEOREM TypeCorrect == RequestsSpec => []RequestsTypeOK
<1>1. RequestsInv => RequestsTypeOK
  BY DEF RequestsInv, FlightInv, ProxyInv, RequestsTypeOK
<1> QED BY <1>1, RequestsInvariant, PTL

(* However many requests fetch the same chain, whoever dies, and whatever  *)
(* replies of Redis are lost, at most one believes it holds the lock, plus *)
(* one for every holder that overran the lock's TTL.                       *)
THEOREM OneHolderTheorem == RequestsSpec => []OneHolder
<1>1. RequestsInv => OneHolder
  <2> SUFFICES ASSUME RequestsInv PROVE OneHolder
    OBVIOUS
  <2>1. /\ Cardinality(Working) \in Nat /\ faults["overrun"] \in Nat
        /\ Cardinality(Working) + (IF lock \in Working THEN 0 ELSE 1) <= 1 + faults["overrun"]
    BY FlightFaults, FS_CardinalityType DEF RequestsInv, FlightInv, HoldersCounted
  <2> QED BY <2>1 DEF OneHolder
<1> QED BY <1>1, RequestsInvariant, PTL

(* The lock of a request at work is not deleted by another request, though *)
(* the code deletes it without looking at whose it is: without an overrun  *)
(* or an error of Redis a request that believes it holds the lock does.    *)
THEOREM NoForeignReleaseTheorem == RequestsSpec => NoForeignRelease
<1> DEFINE Own == \A r \in Requests :
                    lock = r /\ pc[r] \in Busy /\ lock' # r
                      => pc[r] = "release" \/ faults'["overrun"] + faults'["redis"] > 0
<1>1. RequestsInv /\ [RequestsNext]_<<vars, proxyVars>> => [Own]_vars
  BY RequestsParts, NoForeignReleaseStep DEF RequestsInv
<1> QED BY <1>1, RequestsInvariant, PTL DEF RequestsSpec, NoForeignRelease

(* Whatever the interleaving of the requests that share the one HTTP       *)
(* client, nobody is refused without a fault, a failed refresh or a        *)
(* refresh that cleared the cookies under it.                              *)
THEOREM ReasonsTheorem == RequestsSpec => []FailuresHaveReasons
<1>1. RequestsInv => FailuresHaveReasons
  BY DEF RequestsInv, ProxyInv, FailuresHaveReasons
<1> QED BY <1>1, RequestsInvariant, PTL
=============================================================================
