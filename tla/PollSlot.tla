------------------------------ MODULE PollSlot ------------------------------
(***************************************************************************)
(* Who polls a symbol: the _polling_loop of every API worker that has a    *)
(* viewer of the symbol, and the Redis slot poll:slot:{kind}:{symbol} they *)
(* compete for (domains/analytics/api/events_router_api.py).  One kind and *)
(* one symbol: slots of different keys are independent.  The claim of the  *)
(* slot is awaited: between the SET NX, its answer and the dispatch of the *)
(* Celery task a loop may be cancelled, or its worker die.                 *)
(*                                                                         *)
(* Time is discrete and kept in timers, each counted up to the value after *)
(* which it makes no difference.                                           *)
(***************************************************************************)
EXTENDS Naturals

CONSTANTS Workers,      \* the uvicorn workers
          Interval,     \* PricePollIntervalSeconds or OptionsPollIntervalSeconds
          Ttl,          \* the px of the slot, slightly under the interval
          Period,       \* the sleep between two passes of the loop
          Delay,        \* a pass may start, and ask for the slot, this much late
          MaxFailures,  \* bound on the failures of Redis and of the Celery broker
          MaxBurnt      \* bound on the slots claimed by loops that stop before the dispatch

ConstantsAssumption ==
  /\ Interval \in Nat \ {0} /\ Ttl \in 1 .. Interval
  /\ Period \in Nat \ {0} /\ Delay \in 0 .. Ttl - 1
  /\ MaxFailures \in Nat /\ MaxBurnt \in Nat

VARIABLES
  watched,   \* has the worker a viewer of the symbol?
  loop,      \* where its polling loop is; it runs while the worker has any viewer
  since,     \* time since the start of the pass that set last_poll, at most Interval
  sleep,     \* time until the loop goes on, at most
  slot,      \* time until the slot expires, 0 when it is free
  unserved,  \* history: how long the viewers of a worker have waited for a poll
  recent,    \* history: time since the last dispatch, at most Interval
  failures,  \* history: failures so far
  burnt      \* history: slots claimed for nothing so far

vars == <<watched, loop, since, sleep, slot, unserved, recent, failures, burnt>>

\* none: no loop; asleep: between two passes; asking: the SET NX is on its way;
\* claimed, refused: Redis has executed it, the loop awaits the answer.
Stages == {"none", "asleep", "asking", "claimed", "refused"}

\* The longest wait the protocol leaves: a worker that just failed to claim the
\* slot tries again an interval later, and may again find it claimed by a
\* worker that is yet to dispatch.
LongestWait == Ttl + Interval + Period + 3 * Delay

TypeOK ==
  /\ watched \in [Workers -> BOOLEAN]
  /\ loop \in [Workers -> Stages]
  /\ since \in [Workers -> 0 .. Interval]
  /\ sleep \in [Workers -> 0 .. Period + Delay]
  /\ slot \in 0 .. Ttl
  /\ unserved \in [Workers -> Nat]
  /\ recent \in 0 .. Interval
  /\ failures \in 0 .. MaxFailures
  /\ burnt \in 0 .. MaxBurnt

Init ==
  /\ watched = [w \in Workers |-> FALSE]
  /\ loop = [w \in Workers |-> "none"]
  /\ since = [w \in Workers |-> Interval]
  /\ sleep = [w \in Workers |-> 0]
  /\ slot = 0 /\ unserved = [w \in Workers |-> 0] /\ recent = Interval
  /\ failures = 0 /\ burnt = 0

\* The first viewer of the symbol on worker w connects.  A loop that runs for
\* other symbols already keeps its last_poll, a new one has none.
Start(w) ==
  /\ ~watched[w]
  /\ watched' = [watched EXCEPT ![w] = TRUE]
  /\ loop' = [loop EXCEPT ![w] = IF @ = "none" THEN "asleep" ELSE @]
  /\ UNCHANGED <<since, sleep, slot, unserved, recent, failures, burnt>>

\* The last viewer of the symbol on worker w leaves and others stay: the loop
\* goes on, with the symbols it has read when its pass began.
Leave(w) ==
  /\ watched[w]
  /\ watched' = [watched EXCEPT ![w] = FALSE]
  /\ unserved' = [unserved EXCEPT ![w] = 0]
  /\ UNCHANGED <<loop, since, sleep, slot, recent, failures, burnt>>

Burn ==
  /\ burnt < MaxBurnt
  /\ burnt' = burnt + 1

\* The last viewer of the worker leaves, or the worker dies: the loop is
\* cancelled wherever it is.  Its request to Redis may have been executed or
\* not, and a slot it claimed stays claimed.
Stop(w) ==
  /\ loop[w] # "none"
  /\ watched' = [watched EXCEPT ![w] = FALSE]
  /\ loop' = [loop EXCEPT ![w] = "none"]
  /\ since' = [since EXCEPT ![w] = Interval]
  /\ sleep' = [sleep EXCEPT ![w] = 0]
  /\ unserved' = [unserved EXCEPT ![w] = 0]
  /\ \/ loop[w] # "claimed" /\ UNCHANGED <<slot, burnt>>
     \/ loop[w] = "claimed" /\ Burn /\ UNCHANGED slot
     \/ loop[w] = "asking" /\ slot = 0 /\ Burn /\ slot' = Ttl
  /\ UNCHANGED <<recent, failures>>

Due(w)   == since[w] >= Interval
Awake(w) == loop[w] = "asleep" /\ sleep[w] = 0

\* The pass is over.
Sleep(w) ==
  /\ loop' = [loop EXCEPT ![w] = "asleep"]
  /\ \E d \in 0 .. Delay : sleep' = [sleep EXCEPT ![w] = Period + d]

\* A pass of the loop without the symbol, or before its interval is over.
Wait(w) ==
  /\ Awake(w) /\ ~(watched[w] /\ Due(w))
  /\ Sleep(w)
  /\ UNCHANGED <<watched, since, slot, unserved, recent, failures, burnt>>

\* A pass with the symbol due.  The attempt counts as this worker's poll from
\* the start of the pass, whether or not it gets the slot.
Ask(w) ==
  /\ Awake(w) /\ watched[w] /\ Due(w)
  /\ loop' = [loop EXCEPT ![w] = "asking"]
  /\ since' = [since EXCEPT ![w] = 0]
  /\ sleep' = [sleep EXCEPT ![w] = Delay]
  /\ UNCHANGED <<watched, slot, unserved, recent, failures, burnt>>

\* Redis executes the SET NX PX.
Executed(w, stage) ==
  /\ loop[w] = "asking"
  /\ loop' = [loop EXCEPT ![w] = stage]
  /\ UNCHANGED <<watched, since, sleep, unserved, recent, failures, burnt>>

\* Mutants of Claim: SET without NX; the expiry in the wrong unit.
ClaimAnyway(w)  == Executed(w, "claimed") /\ slot' = Ttl
ClaimForLong(w) == Executed(w, "claimed") /\ slot = 0 /\ slot' = Ttl * Ttl

Claim(w)  == Executed(w, "claimed") /\ slot = 0 /\ slot' = Ttl
Refuse(w) == Executed(w, "refused") /\ slot > 0 /\ UNCHANGED slot

Dispatch == unserved' = [w \in Workers |-> 0] /\ recent' = 0

\* The slot is this worker's: the Celery task is dispatched.
Poll(w) ==
  /\ loop[w] = "claimed"
  /\ Sleep(w)
  /\ Dispatch
  /\ UNCHANGED <<watched, since, slot, failures, burnt>>

\* Another worker holds the slot.
Lose(w) ==
  /\ loop[w] = "refused"
  /\ Sleep(w)
  /\ UNCHANGED <<watched, since, slot, unserved, recent, failures, burnt>>

Fail ==
  /\ failures < MaxFailures
  /\ failures' = failures + 1

\* Redis fails, before or after it executed the request: poll anyway.
PollAnyway(w) ==
  /\ loop[w] \in {"asking", "claimed", "refused"}
  /\ Fail
  /\ Sleep(w)
  /\ Dispatch
  /\ slot' \in IF loop[w] = "asking" /\ slot = 0 THEN {0, Ttl} ELSE {slot}
  /\ UNCHANGED <<watched, since, burnt>>

\* The slot is this worker's and delay() raises.
DispatchFails(w) ==
  /\ loop[w] = "claimed"
  /\ Fail
  /\ Sleep(w)
  /\ UNCHANGED <<watched, since, slot, unserved, recent, burnt>>

Down(n)  == IF n = 0 THEN 0 ELSE n - 1
Up(n, m) == IF n < m THEN n + 1 ELSE m

\* Time passes; a loop that has to go on does so first.
Tick ==
  /\ \A w \in Workers : loop[w] # "none" => sleep[w] > 0
  /\ since' = [w \in Workers |-> Up(since[w], Interval)]
  /\ sleep' = [w \in Workers |-> Down(sleep[w])]
  /\ slot' = Down(slot)
  /\ recent' = Up(recent, Interval)
  /\ unserved' = [w \in Workers |-> IF watched[w] THEN unserved[w] + 1 ELSE 0]
  /\ UNCHANGED <<watched, loop, failures, burnt>>

Step(w) ==
  \/ Start(w) \/ Leave(w) \/ Stop(w)
  \/ Wait(w) \/ Ask(w) \/ Claim(w) \/ Refuse(w)
  \/ Poll(w) \/ Lose(w) \/ PollAnyway(w) \/ DispatchFails(w)

Next == (\E w \in Workers : Step(w)) \/ Tick

Spec == Init /\ [][Next]_vars

-----------------------------------------------------------------------------
(* While Redis answers, dispatches are the slot's life apart but for the   *)
(* time a claim takes to be dispatched, however many workers watch the     *)
(* symbol and however viewers come and go and loops are cancelled.         *)
OneDispatchPerSlot ==
  [][failures = 0 /\ (\E w \in Workers : Poll(w)) => recent >= Ttl - Delay]_vars

(* No viewer waits longer than LongestWait, and that once more for each    *)
(* failure and for each slot a cancelled loop has claimed for nothing: a   *)
(* lost slot is always taken up again.                                     *)
ViewersAreServed ==
  \A w \in Workers : unserved[w] <= LongestWait * (1 + failures + burnt)
=============================================================================
