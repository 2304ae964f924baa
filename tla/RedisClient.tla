----------------------------- MODULE RedisClient -----------------------------
(***************************************************************************)
(* The Redis client of one event loop: made by the first task that asks,   *)
(* pinged until Redis has answered once, by one task at a time and not more*)
(* often than every five seconds, and closed by the shutdown, which tasks  *)
(* may overlap (shared/infrastructure/redis_client.py).                    *)
(***************************************************************************)
EXTENDS Naturals, Sequences, SequencesExt

CONSTANTS Callers, Backoff, MaxClients, LastSecond

ConstantsAssumption == {Backoff, MaxClients, LastSecond} \subseteq Nat

VARIABLES
  second,
  mine,       \* _clients[loop]: the number of a client, 0 if none
  clients,    \* each client so far: healthy, and when its pings began
  caller,     \* where each call of get_redis_client is, and with which client
  connected,  \* clients with connections open
  leaving,    \* those that a shutdown has popped and not closed yet
  outlived    \* those that a task had in hand when they were closed

vars == <<second, mine, clients, caller, connected, leaving, outlived>>

Away == [at |-> "away", client |-> 0]
Goto(c, stage, n) == caller' = [caller EXCEPT ![c] = [at |-> stage, client |-> n]]

(* A healthy client is returned at once; otherwise its lock is asked for.  *)
Ask(c) ==
  /\ caller[c].at = "away"
  /\ IF mine = 0
     THEN /\ Len(clients) < MaxClients
          /\ clients' = Append(clients, [healthy |-> FALSE, pings |-> <<>>])
          /\ mine' = Len(clients')
          /\ Goto(c, "lock", mine')
     ELSE /\ Goto(c, IF clients[mine].healthy THEN "has" ELSE "lock", mine)
          /\ UNCHANGED <<mine, clients>>
  /\ UNCHANGED <<second, connected, leaving, outlived>>

Due(n) ==
  LET pings == clients[n].pings
  IN  ~clients[n].healthy /\ (pings = <<>> \/ second - Last(pings) >= Backoff)

\* Mutant of Enter: the lock is not waited for, nor looked behind.
EnterUnlocked(c) ==
  /\ caller[c].at = "lock"
  /\ LET n == caller[c].client
     IN  /\ clients' = [clients EXCEPT ![n].pings = Append(@, second)]
         /\ Goto(c, "ping", n)
  /\ UNCHANGED <<second, mine, connected, leaving, outlived>>

(* Behind the lock the client may have become healthy, or been pinged by   *)
(* whoever was before.                                                     *)
Enter(c) ==
  /\ caller[c].at = "lock"
  /\ LET n == caller[c].client
     IN  /\ \A d \in Callers : caller[d] # [at |-> "ping", client |-> n]
         /\ IF Due(n) THEN /\ clients' = [clients EXCEPT ![n].pings = Append(@, second)]
                           /\ Goto(c, "ping", n)
                      ELSE Goto(c, "has", n) /\ UNCHANGED clients
  /\ UNCHANGED <<second, mine, connected, leaving, outlived>>

(* Redis answers, or not; the client is returned in either case.           *)
Pong(c) ==
  /\ caller[c].at = "ping"
  /\ LET n == caller[c].client
     IN  /\ clients' = [clients EXCEPT ![n].healthy = TRUE]
         /\ connected' = connected \cup {n}
         /\ Goto(c, "has", n)
  /\ UNCHANGED <<second, mine, leaving, outlived>>

NoPong(c) ==
  /\ caller[c].at = "ping" /\ Goto(c, "has", caller[c].client)
  /\ UNCHANGED <<second, mine, clients, connected, leaving, outlived>>

(* Who has the client sends commands; each may open a connection.          *)
Command(c) ==
  /\ caller[c].at = "has" /\ connected' = connected \cup {caller[c].client}
  /\ UNCHANGED <<second, mine, clients, caller, leaving, outlived>>

Done(c) ==
  /\ caller[c].at = "has" /\ Goto(c, "away", 0)
  /\ UNCHANGED <<second, mine, clients, connected, leaving, outlived>>

(* close_redis_client: popped first, closed over an await.                 *)
Pop ==
  /\ mine # 0 /\ mine' = 0
  /\ leaving' = leaving \cup {mine}
  /\ UNCHANGED <<second, clients, caller, connected, outlived>>

Held(n) == \E c \in Callers : caller[c].client = n

Leave(n) ==
  /\ n \in leaving /\ leaving' = leaving \ {n}
  /\ outlived' = IF Held(n) THEN outlived \cup {n} ELSE outlived

\* Mutant of Disconnect: only the dictionary forgets the client.
DisconnectNothing(n) ==
  /\ Leave(n)
  /\ UNCHANGED <<second, mine, clients, caller, connected>>

(* aclose disconnects the pool, the connections in use as well, and what it*)
(* raises is logged; the client can connect again.                         *)
Disconnect(n) ==
  /\ Leave(n)
  /\ connected' = connected \ {n}
  /\ UNCHANGED <<second, mine, clients, caller>>

Tick ==
  /\ second < LastSecond /\ second' = second + 1
  /\ UNCHANGED <<mine, clients, caller, connected, leaving, outlived>>

Init ==
  /\ second = 0 /\ mine = 0 /\ clients = <<>> /\ connected = {} /\ leaving = {}
  /\ outlived = {}
  /\ caller = [c \in Callers |-> Away]

Next ==
  \/ \E c \in Callers : Ask(c) \/ Enter(c) \/ Pong(c) \/ NoPong(c) \/ Command(c) \/ Done(c)
  \/ Pop \/ Tick \/ \E n \in leaving : Disconnect(n)

Spec == Init /\ [][Next]_vars

-----------------------------------------------------------------------------
TypeOK ==
  /\ second \in 0 .. LastSecond /\ mine \in 0 .. Len(clients)
  /\ \A n \in DOMAIN clients : clients[n].healthy \in BOOLEAN /\ clients[n].pings \in Seq(0 .. second)
  /\ caller \in [Callers -> [at : {"away", "lock", "ping", "has"}, client : 0 .. Len(clients)]]
  /\ connected \cup leaving \cup outlived \subseteq DOMAIN clients

(* However many tasks ask an unreachable Redis at once, a client is pinged *)
(* by one of them at a time, and not twice within the backoff.             *)
PingsAreSpaced ==
  \A n \in DOMAIN clients :
    /\ \A c, d \in Callers : caller[c] = [at |-> "ping", client |-> n] /\ caller[d] = caller[c] => c = d
    /\ \A i \in 2 .. Len(clients[n].pings) : clients[n].pings[i] - clients[n].pings[i - 1] >= Backoff

(* What a shutdown closes stays closed, except for a client that some task *)
(* still had in hand, in the queue for a ping or in use: it may connect    *)
(* again, and no later shutdown knows of it.                               *)
ClosedStaysClosed ==
  connected \subseteq {mine} \cup leaving \cup outlived
=============================================================================
