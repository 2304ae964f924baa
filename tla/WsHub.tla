------------------------------- MODULE WsHub -------------------------------
(***************************************************************************)
(* The WebSocket hub of one API worker                                     *)
(* (domains/analytics/api/events_router_api.py): the endpoint task and the *)
(* sender task of every client, the Redis listener that fans messages out  *)
(* to bounded queues, and the cleanup task.  They interleave wherever the  *)
(* code awaits; what runs under _Lock is one step.                         *)
(*                                                                         *)
(* A message is named by its position in `published'.  The Redis channel   *)
(* is external: a subscriber sees what is published after it subscribed.   *)
(***************************************************************************)
EXTENDS Naturals, Sequences, FiniteSets

CONSTANTS Clients,        \* the sockets that ever connect
          Symbol,         \* the symbol each of them asks for
          Symbols,
          Users,
          Nobody,         \* no user: market data, or a socket not authenticated
          Payloads,       \* what is published: [symbol, owner] records
          QueueSize,      \* _CLIENT_QUEUE_MAX_SIZE
          MaxDropped,     \* _CLIENT_MAX_DROPPED_MESSAGES
          MaxPerSymbol,   \* _MAX_CLIENTS_PER_SYMBOL
          MaxConnections, \* WsMaxConnections
          MaxSymbols,     \* WsMaxSymbols
          MaxMessages,    \* bound on the messages published
          MaxAuths,       \* bound on the auth messages of all clients
          MaxErrors       \* bound on the Redis errors of the listener

ASSUME ConstantsAssumption ==
  /\ Symbol \in [Clients -> Symbols]
  /\ Nobody \notin Users
  /\ Payloads \subseteq [symbol: Symbols, owner: Users \cup {Nobody}]
  /\ QueueSize \in Nat \ {0} /\ MaxDropped \in Nat \ {0}
  /\ MaxPerSymbol \in Nat \ {0} /\ MaxConnections \in Nat \ {0}
  /\ MaxSymbols \in Nat \ {0}
  /\ MaxMessages \in Nat /\ MaxAuths \in Nat /\ MaxErrors \in Nat

VARIABLES
  ws,         \* each socket as the server sees it
  endpoint,   \* where websocket_endpoint is
  token,      \* the user of the auth message being verified
  sender,     \* where _sender_loop is
  sending,    \* the message its send_json has in hand
  conns,      \* _Connections: the registered sockets
  queue,      \* the messages queued to each
  dropped,    \* dropped_messages
  idle,       \* has the socket been idle for _CLIENT_STALE_SECONDS?
  user,       \* user_id
  listener,   \* the manager's _GlobalSubscriberTask
  cleanup,    \* does the manager have a _CleanupTask (and a _PollingTask)?
  stale,      \* sockets each background task is about to disconnect
  closing,    \* disconnects between removal and close: socket and task
  published,  \* every message published
  heard,      \* the last message the listener has read
  received,   \* history: the messages sent to each socket
  been,       \* history: the users each socket was authenticated as
  auths,      \* history: auth messages so far, at most MaxAuths
  errors      \* history: Redis errors so far, at most MaxErrors

sockets == <<ws, endpoint, token>>
senders == <<sender, sending>>
records == <<queue, dropped, idle, user>>
tasks   == <<listener, cleanup, stale, closing>>
redis   == <<published, heard>>
history == <<received, been, auths, errors>>
vars    == <<sockets, senders, conns, records, tasks, redis, history>>

Background == {"listener", "cleanup"}
\* A background task that removed the last socket is detached; "close" stands
\* for a disconnect that finds its socket already removed and only closes it.
Tasks     == Background \cup {"detached", "endpoint", "close"}
Positions == 1 .. Len(published)

SocketsOK ==
  /\ ws \in [Clients -> {"new", "open", "closed"}]
  /\ endpoint \in [Clients -> {"admit", "accept", "receive", "auth", "leave", "done"}]
  /\ token \in [Clients -> Users \cup {Nobody}]

SendersOK ==
  /\ sender \in [Clients -> {"none", "wait", "send", "leave", "done"}]
  /\ sending \in [Clients -> 0 .. Len(published)]

RecordsOK ==
  /\ conns \subseteq Clients
  /\ queue \in [Clients -> Seq(Positions)]
  /\ \A c \in Clients : Len(queue[c]) <= QueueSize
  /\ dropped \in [Clients -> Nat]
  /\ idle \in [Clients -> BOOLEAN]
  /\ user \in [Clients -> Users \cup {Nobody}]

TasksOK ==
  /\ listener \in {"off", "starting", "on", "dead"}
  /\ cleanup \in BOOLEAN
  /\ stale \in [Background -> SUBSET Clients]
  /\ closing \subseteq Clients \X Tasks

RedisOK ==
  /\ published \in Seq(Payloads)
  /\ heard \in 0 .. Len(published)

HistoryOK ==
  /\ received \in [Clients -> Seq(Positions)]
  /\ been \in [Clients -> SUBSET Users]
  /\ auths \in 0 .. MaxAuths /\ errors \in 0 .. MaxErrors

TypeOK == SocketsOK /\ SendersOK /\ RecordsOK /\ TasksOK /\ RedisOK /\ HistoryOK

Init ==
  /\ ws = [c \in Clients |-> "new"] /\ endpoint = [c \in Clients |-> "admit"]
  /\ token = [c \in Clients |-> Nobody]
  /\ sender = [c \in Clients |-> "none"] /\ sending = [c \in Clients |-> 0]
  /\ conns = {}
  /\ queue = [c \in Clients |-> <<>>] /\ dropped = [c \in Clients |-> 0]
  /\ idle = [c \in Clients |-> FALSE] /\ user = [c \in Clients |-> Nobody]
  /\ listener = "off" /\ cleanup = FALSE
  /\ stale = [t \in Background |-> {}] /\ closing = {}
  /\ published = <<>> /\ heard = 0
  /\ received = [c \in Clients |-> <<>>] /\ been = [c \in Clients |-> {}]
  /\ auths = 0 /\ errors = 0

Watching(s)  == {c \in conns : Symbol[c] = s}
Watched      == {Symbol[c] : c \in conns}

-----------------------------------------------------------------------------
(* disconnect. *)

IsLast(c) == conns = {c}

\* The disconnects of other background tasks, which a stop cuts off after the
\* close frame and before the sender is cancelled.
CutOff(t) == {x \in closing : x[2] \in Background \ {t}}

\* Mutant of Stop: the cleanup task is left running.
StopKeepsCleanup(t, mine) ==
  /\ listener' = "off" /\ UNCHANGED <<cleanup, ws>>
  /\ stale' = [b \in Background |-> {}]
  /\ closing' = (closing \ CutOff(t)) \cup mine

\* _stop_background_tasks_if_idle_locked, run by task t: a task it runs in is no
\* longer the manager's and finishes its list; the others are cancelled.
Stop(t, mine) ==
  LET rest == IF t \in Background THEN {<<d, "close">> : d \in stale[t] \ {x[1] : x \in mine}}
              ELSE {}
  IN  /\ listener' = "off" /\ cleanup' = FALSE
      /\ stale' = [b \in Background |-> {}]
      /\ closing' = (closing \ CutOff(t)) \cup mine \cup rest
      /\ ws' = [d \in Clients |-> IF \E x \in CutOff(t) : x[1] = d THEN "closed" ELSE ws[d]]

\* The part of disconnect under the lock, by task t for a registered socket.
Remove(c, t) ==
  /\ conns' = conns \ {c}
  /\ IF IsLast(c)
     THEN Stop(t, {<<c, IF t \in Background THEN "detached" ELSE t>>})
     ELSE /\ closing' = closing \cup {<<c, t>>}
          /\ stale' = IF t \in Background THEN [stale EXCEPT ![t] = @ \ {c}] ELSE stale
          /\ UNCHANGED <<ws, listener, cleanup>>

\* After the lock: the socket is closed and its sender cancelled.
FinishDisconnect(c, t) ==
  /\ <<c, t>> \in closing
  /\ closing' = closing \ {<<c, t>>}
  /\ ws' = [ws EXCEPT ![c] = "closed"]
  /\ IF t = "close" THEN UNCHANGED senders
     ELSE /\ sender' = [sender EXCEPT ![c] = "done"]
          /\ sending' = [sending EXCEPT ![c] = 0]
  /\ endpoint' = IF t = "endpoint" THEN [endpoint EXCEPT ![c] = "done"] ELSE endpoint
  /\ UNCHANGED <<token, conns, records, listener, cleanup, stale, redis, history>>

-----------------------------------------------------------------------------
(* websocket_endpoint. *)

Refused(c) ==
  \/ Cardinality(Watching(Symbol[c])) >= MaxPerSymbol
  \/ Cardinality(conns) >= MaxConnections
  \/ Symbol[c] \notin Watched /\ Cardinality(Watched) >= MaxSymbols

Admit(c) ==
  /\ endpoint[c] = "admit"
  /\ IF Refused(c)
     THEN /\ ws' = [ws EXCEPT ![c] = "closed"]
          /\ endpoint' = [endpoint EXCEPT ![c] = "done"]
     ELSE endpoint' = [endpoint EXCEPT ![c] = "accept"] /\ UNCHANGED ws
  /\ UNCHANGED <<token, senders, conns, records, tasks, redis, history>>

\* accept, the sender task, the registration, _ensure_background_tasks_locked.
Connect(c) ==
  /\ endpoint[c] = "accept"
  /\ ws' = [ws EXCEPT ![c] = "open"]
  /\ endpoint' = [endpoint EXCEPT ![c] = "receive"]
  /\ sender' = [sender EXCEPT ![c] = "wait"]
  /\ conns' = conns \cup {c}
  /\ listener' = IF listener \in {"off", "dead"} THEN "starting" ELSE listener
  /\ cleanup' = TRUE
  /\ UNCHANGED <<token, sending, records, stale, closing, redis, history>>

\* accept raises: the client is gone.
AcceptFails(c) ==
  /\ endpoint[c] = "accept"
  /\ ws' = [ws EXCEPT ![c] = "closed"]
  /\ endpoint' = [endpoint EXCEPT ![c] = "done"]
  /\ UNCHANGED <<token, senders, conns, records, tasks, redis, history>>

\* A ping or any other message: mark_client_alive.
Receive(c) ==
  /\ endpoint[c] = "receive" /\ ws[c] = "open"
  /\ idle' = IF c \in conns THEN [idle EXCEPT ![c] = FALSE] ELSE idle
  /\ UNCHANGED <<sockets, senders, conns, queue, dropped, user, tasks, redis, history>>

\* {"action": "auth"}; the token is verified in a thread.
Authenticate(c, u) ==
  /\ endpoint[c] = "receive" /\ ws[c] = "open" /\ auths < MaxAuths
  /\ auths' = auths + 1
  /\ token' = [token EXCEPT ![c] = u]
  /\ endpoint' = [endpoint EXCEPT ![c] = "auth"]
  /\ idle' = IF c \in conns THEN [idle EXCEPT ![c] = FALSE] ELSE idle
  /\ UNCHANGED <<ws, senders, conns, queue, dropped, user, tasks, redis, received,
                 been, errors>>

SetUser(c) ==
  /\ endpoint[c] = "auth"
  /\ user' = IF c \in conns THEN [user EXCEPT ![c] = token[c]] ELSE user
  /\ been' = IF c \in conns THEN [been EXCEPT ![c] = @ \cup ({token[c]} \ {Nobody})]
             ELSE been
  /\ endpoint' = [endpoint EXCEPT ![c] = "receive"]
  /\ token' = [token EXCEPT ![c] = Nobody]
  /\ UNCHANGED <<ws, senders, conns, queue, dropped, idle, tasks, redis, received,
                 auths, errors>>

\* The client goes away, the server closed the socket, or a send raised.
Hangup(c) ==
  /\ endpoint[c] = "receive"
  /\ endpoint' = [endpoint EXCEPT ![c] = "leave"]
  /\ UNCHANGED <<ws, token, senders, conns, records, tasks, redis, history>>

Leave(c) ==
  /\ endpoint[c] = "leave" /\ <<c, "endpoint">> \notin closing
  /\ IF c \in conns
     THEN Remove(c, "endpoint") /\ UNCHANGED endpoint
     ELSE /\ ws' = [ws EXCEPT ![c] = "closed"]
          /\ endpoint' = [endpoint EXCEPT ![c] = "done"]
          /\ UNCHANGED <<conns, tasks>>
  /\ UNCHANGED <<token, senders, records, redis, history>>

-----------------------------------------------------------------------------
(* _sender_loop. *)

StartSend(c) ==
  /\ sender[c] = "wait" /\ queue[c] # <<>>
  /\ sender' = [sender EXCEPT ![c] = "send"]
  /\ sending' = [sending EXCEPT ![c] = Head(queue[c])]
  /\ queue' = [queue EXCEPT ![c] = Tail(@)]
  /\ UNCHANGED <<sockets, conns, dropped, idle, user, tasks, redis, history>>

Sent(c) ==
  /\ sender[c] = "send" /\ ws[c] = "open"
  /\ received' = [received EXCEPT ![c] = Append(@, sending[c])]
  /\ sender' = [sender EXCEPT ![c] = "wait"]
  /\ sending' = [sending EXCEPT ![c] = 0]
  /\ idle' = IF c \in conns THEN [idle EXCEPT ![c] = FALSE] ELSE idle
  /\ UNCHANGED <<sockets, conns, queue, dropped, user, tasks, redis, been, auths, errors>>

\* send_json raises or takes longer than _CLIENT_SEND_TIMEOUT_SECONDS.
SendFails(c) ==
  /\ sender[c] = "send"
  /\ sender' = [sender EXCEPT ![c] = "leave"]
  /\ sending' = [sending EXCEPT ![c] = 0]
  /\ UNCHANGED <<sockets, conns, records, tasks, redis, history>>

\* Mutant of SenderLeave: the sender ends without a disconnect.
SenderLeaveRegistered(c) ==
  /\ sender[c] = "leave"
  /\ sender' = [sender EXCEPT ![c] = "done"]
  /\ UNCHANGED <<sockets, sending, conns, records, tasks, redis, history>>

\* Its disconnect, with close_ws=False, by the sender itself.
SenderLeave(c) ==
  /\ sender[c] = "leave"
  /\ sender' = [sender EXCEPT ![c] = "done"]
  /\ conns' = conns \ {c}
  /\ IF IsLast(c) THEN Stop("sender", {}) ELSE UNCHANGED <<ws, tasks>>
  /\ UNCHANGED <<endpoint, token, sending, records, redis, history>>

-----------------------------------------------------------------------------
(* The background tasks. *)

\* Neither has a disconnect of its own under way.
Free(t) == stale[t] = {} /\ \A x \in closing : x[2] # t

\* Mutant of Subscribe: a new subscription replays what was published.
SubscribeReplay ==
  /\ listener = "starting"
  /\ listener' = "on"
  /\ heard' = 0
  /\ UNCHANGED <<sockets, senders, conns, records, cleanup, stale, closing, published,
                 history>>

Subscribe ==
  /\ listener = "starting"
  /\ listener' = "on"
  /\ heard' = Len(published)
  /\ UNCHANGED <<sockets, senders, conns, records, cleanup, stale, closing, published,
                 history>>

\* Mutants of Addressed: everyone's alerts for everyone; not to idle sockets.
AddressedAll(m) == Watching(m.symbol)
AddressedActive(m) == {c \in Watching(m.symbol) : ~idle[c]}

\* The sockets a message is for: an alert only to its owner's.
Addressed(m) == {c \in Watching(m.symbol) : m.owner # Nobody => user[c] = m.owner}

\* Mutant of Enqueued: the queue is not bounded.
EnqueuedUnbounded(q, i) == Append(q, i)

\* A full queue loses its oldest message.
Enqueued(q, i) == Append(IF Len(q) = QueueSize THEN Tail(q) ELSE q, i)

Broadcast ==
  /\ listener = "on" /\ Free("listener") /\ heard < Len(published)
  /\ heard' = heard + 1
  /\ LET to == Addressed(published[heard + 1])
     IN  /\ queue' = [c \in Clients |-> IF c \in to THEN Enqueued(queue[c], heard + 1)
                                       ELSE queue[c]]
         /\ dropped' = [c \in Clients |-> IF c \in to /\ Len(queue[c]) = QueueSize
                                         THEN dropped[c] + 1 ELSE dropped[c]]
         /\ idle' = [c \in Clients |-> idle[c] /\ c \notin to]
         /\ stale' = [stale EXCEPT !["listener"] =
                        {c \in to : dropped'[c] >= MaxDropped /\ dropped'[c] > dropped[c]}]
  /\ UNCHANGED <<sockets, senders, conns, user, listener, cleanup, closing, published,
                 history>>

\* A Redis error ends the listener; only a later connect starts another.
ListenerDies ==
  /\ listener \in {"starting", "on"} /\ Free("listener") /\ errors < MaxErrors
  /\ errors' = errors + 1
  /\ listener' = "dead"
  /\ UNCHANGED <<sockets, senders, conns, records, cleanup, stale, closing, redis,
                 received, been, auths>>

\* _cleanup_loop wakes up and lists the idle sockets.
Scan ==
  /\ cleanup /\ Free("cleanup")
  /\ \E c \in conns : idle[c]
  /\ stale' = [stale EXCEPT !["cleanup"] = {c \in conns : idle[c]}]
  /\ UNCHANGED <<sockets, senders, conns, records, listener, cleanup, closing, redis,
                 history>>

\* A background task disconnects the next socket of its list.
Evict(t, c) ==
  /\ c \in stale[t] /\ \A x \in closing : x[2] # t
  /\ IF c \in conns
     THEN Remove(c, t)
     ELSE /\ stale' = [stale EXCEPT ![t] = @ \ {c}]
          /\ ws' = [ws EXCEPT ![c] = "closed"]
          /\ UNCHANGED <<conns, listener, cleanup, closing>>
  /\ UNCHANGED <<endpoint, token, senders, records, redis, history>>

-----------------------------------------------------------------------------
(* The environment. *)

Publish(m) ==
  /\ Len(published) < MaxMessages
  /\ published' = Append(published, m)
  /\ UNCHANGED <<sockets, senders, conns, records, tasks, heard, history>>

\* _CLIENT_STALE_SECONDS pass without activity.
GoIdle(c) ==
  /\ c \in conns /\ ~idle[c]
  /\ idle' = [idle EXCEPT ![c] = TRUE]
  /\ UNCHANGED <<sockets, senders, conns, queue, dropped, user, tasks, redis, history>>

ClientStep(c) ==
  \/ Admit(c) \/ Connect(c) \/ AcceptFails(c) \/ Receive(c) \/ SetUser(c) \/ Hangup(c) \/ Leave(c)
  \/ StartSend(c) \/ Sent(c) \/ SendFails(c) \/ SenderLeave(c) \/ GoIdle(c)
  \/ \E u \in Users \cup {Nobody} : Authenticate(c, u)
  \/ \E t \in Background : Evict(t, c)
  \/ \E t \in Tasks : FinishDisconnect(c, t)

Next ==
  \/ \E c \in Clients : ClientStep(c)
  \/ \E m \in Payloads : Publish(m)
  \/ Subscribe \/ Broadcast \/ ListenerDies \/ Scan

Spec == Init /\ [][Next]_vars

(***************************************************************************)
(* Fairness: the event loop runs every task that can go on, and a send     *)
(* ends within its timeout.  Clients, producers and Redis owe nothing.     *)
(***************************************************************************)
Fairness ==
  /\ \A c \in Clients :
       /\ WF_vars(Admit(c)) /\ WF_vars(Connect(c) \/ AcceptFails(c)) /\ WF_vars(SetUser(c))
       /\ WF_vars(Leave(c)) /\ WF_vars(StartSend(c)) /\ WF_vars(Sent(c) \/ SendFails(c))
       /\ WF_vars(SenderLeave(c))
       /\ WF_vars(\E t \in Background : Evict(t, c))
       /\ WF_vars(\E t \in Tasks : FinishDisconnect(c, t))
       /\ WF_vars(ws[c] = "closed" /\ Hangup(c))
  /\ WF_vars(Subscribe) /\ WF_vars(Broadcast) /\ WF_vars(Scan)

FairSpec == Spec /\ Fairness

-----------------------------------------------------------------------------
Ascending(q) == \A i, j \in DOMAIN q : i < j => q[i] < q[j]

(* A socket gets messages in the order they were published and none twice, *)
(* whatever its queue drops and however often the listener is restarted.   *)
InOrder ==
  \A c \in Clients :
    Ascending(received[c] \o (IF sending[c] = 0 THEN <<>> ELSE <<sending[c]>>) \o queue[c])

(* An alert is only queued for, or sent to, a socket that authenticated as *)
(* its owner at some time.                                                 *)
NoAlertToStranger ==
  \A c \in Clients : \A i \in Positions :
    /\ published[i].owner # Nobody
    /\ \E k \in DOMAIN (received[c] \o queue[c]) : (received[c] \o queue[c])[k] = i
    => published[i].owner \in been[c]

(* A registered socket has its endpoint and its sender, and while there is *)
(* one the cleanup and polling tasks run and a listener was started.       *)
RegisteredAreServed ==
  /\ \A c \in conns :
       sender[c] \notin {"none", "done"} /\ endpoint[c] \notin {"admit", "accept", "done"}
  /\ conns # {} => cleanup /\ listener # "off"

(* Without viewers nothing polls, listens or cleans up.                    *)
NoViewersNoTasks ==
  conns = {} => /\ ~cleanup /\ listener = "off"
                /\ \A t \in Background : Free(t)

(* The background tasks run for the registered sockets, and only for them. *)
TasksFollowViewers == RegisteredAreServed /\ NoViewersNoTasks

(* Without Redis errors a message published while a socket is connected    *)
(* and the listener subscribed is sent to it, unless the socket is removed *)
(* or too slow.                                                            *)
ForEveryone(i) == published[i].owner = Nobody

PushedEventually ==
  \A c \in Clients : \A i \in 1 .. MaxMessages :
    (/\ c \in conns /\ listener = "on" /\ i \in Positions /\ heard < i
     /\ ForEveryone(i) /\ published[i].symbol = Symbol[c])
    ~> \/ c \notin conns \/ dropped[c] > 0
       \/ \E k \in DOMAIN received[c] : received[c][k] = i

(* _sender_loop: "Ensure this websocket is fully cleaned up if sender loop *)
(* exits."  A socket whose sender is gone does not stay open, with its     *)
(* endpoint waiting on it, for ever.                                       *)
CleanedUpAfterSender ==
  \A c \in Clients : (sender[c] = "done") ~> (ws[c] = "closed")
=============================================================================
