---------------------------- MODULE DatabasePool ----------------------------
(***************************************************************************)
(* The database pool of one event loop: created by the first task that asks*)
(* (double check under a lock), closed by the shutdown, which may run while*)
(* a creation is awaited (shared/infrastructure/database.py).              *)
(***************************************************************************)
EXTENDS Naturals, FiniteSets

CONSTANTS Tasks, NoTask, MaxPools

ConstantsAssumption == NoTask \notin Tasks /\ MaxPools \in Nat

VARIABLES
  registered,  \* _pools[loop]: {} or {a pool}
  pools,       \* how many pools there have been; they are numbered
  open,        \* those whose connections are not closed
  turn,        \* who holds the lock, and thereby creates pool number `pools'
  asking,      \* tasks waiting for the lock
  uses,        \* the pool each task got, 0 if none
  closing      \* the pools that a shutdown has popped

vars == <<registered, pools, open, turn, asking, uses, closing>>

Get(t) ==
  /\ uses[t] = 0 /\ t \notin asking /\ turn # t
  /\ IF registered # {} THEN \E p \in registered : uses' = [uses EXCEPT ![t] = p] /\ UNCHANGED asking
                        ELSE asking' = asking \cup {t} /\ UNCHANGED uses
  /\ UNCHANGED <<registered, pools, open, turn, closing>>

Create(t) ==
  /\ pools < MaxPools /\ pools' = pools + 1
  /\ turn' = t /\ asking' = asking \ {t}
  /\ open' = open \cup {pools'}
  /\ UNCHANGED <<registered, uses, closing>>

\* Mutant of Lock: no second look under the lock.
LockUnchecked(t) == t \in asking /\ turn = NoTask /\ Create(t)

Lock(t) ==
  /\ t \in asking /\ turn = NoTask
  /\ \/ registered = {} /\ Create(t)
     \/ \E p \in registered :
          /\ uses' = [uses EXCEPT ![t] = p] /\ asking' = asking \ {t}
          /\ UNCHANGED <<registered, pools, open, turn, closing>>

(* create_pool returns, or raises and leaves nothing open.                 *)
Created(t) ==
  /\ turn = t /\ turn' = NoTask
  /\ \/ registered' = {pools} /\ uses' = [uses EXCEPT ![t] = pools] /\ UNCHANGED open
     \/ open' = open \ {pools} /\ UNCHANGED <<registered, uses>>
  /\ UNCHANGED <<pools, asking, closing>>

Release(t) ==
  /\ uses[t] # 0 /\ uses' = [uses EXCEPT ![t] = 0]
  /\ UNCHANGED <<registered, pools, open, turn, asking, closing>>

(* close_database_pool: popped first, closed over an await.                *)
Close ==
  /\ closing' = closing \cup registered /\ registered' = {}
  /\ UNCHANGED <<pools, open, turn, asking, uses>>

Closed(p) ==
  /\ p \in closing
  /\ closing' = closing \ {p} /\ open' = open \ {p}
  /\ UNCHANGED <<registered, pools, turn, asking, uses>>

Init ==
  /\ registered = {} /\ pools = 0 /\ open = {} /\ turn = NoTask /\ asking = {}
  /\ uses = [t \in Tasks |-> 0] /\ closing = {}

Next ==
  \/ \E t \in Tasks : Get(t) \/ Lock(t) \/ Created(t) \/ Release(t)
  \/ Close \/ \E p \in closing : Closed(p)

Spec == Init /\ [][Next]_vars

TypeOK ==
  /\ pools \in 0 .. MaxPools /\ turn \in Tasks \cup {NoTask}
  /\ registered \cup open \cup closing \subseteq 1 .. pools /\ Cardinality(registered) <= 1
  /\ asking \subseteq Tasks /\ uses \in [Tasks -> 0 .. pools]

(* No pool is forgotten with its connections open: it is the loop's own, or*)
(* a shutdown is closing it, or it is being created; and but for a pool    *)
(* being closed there is only one of them.                                 *)
NoPoolForgotten ==
  /\ open \subseteq registered \cup closing \cup (IF turn # NoTask THEN {pools} ELSE {})
  /\ Cardinality(open \ closing) <= 1
  /\ turn # NoTask => registered = {}
=============================================================================
