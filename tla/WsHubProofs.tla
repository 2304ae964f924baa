----------------------------- MODULE WsHubProofs -----------------------------
(***************************************************************************)
(* Proofs about WsHub, for every set of sockets, symbols and users, every  *)
(* size of a queue and every bound on dropped messages and connections.    *)
(***************************************************************************)
EXTENDS WsHub, SequenceTheorems, TLAPS

-----------------------------------------------------------------------------
(***************************************************************************)
(* The inductive invariant.  Types alone are not inductive: what a sender  *)
(* has sent is a message because it holds one exactly while it sends, and  *)
(* that rests on the order of a socket's life.  A socket that has not been *)
(* accepted has no sender and is on no list of a disconnect, a registered  *)
(* one has an endpoint and a sender, one being disconnected is not         *)
(* registered any more.                                                    *)
(***************************************************************************)
Joined(c) == endpoint[c] \notin {"admit", "accept"}

SendingOK == \A c \in Clients : sending[c] # 0 <=> sender[c] = "send"

JoinOK ==
  /\ \A c \in Clients : ~Joined(c) => sender[c] = "none"
  /\ \A c \in conns : Joined(c) /\ endpoint[c] # "done" /\ sender[c] \notin {"none", "done"}
  /\ \A x \in closing : Joined(x[1]) /\ x[1] \notin conns
  /\ \A t \in Background : \A c \in stale[t] : Joined(c)

\* The background tasks belong to the registered sockets.
TasksInv == (conns # {} => cleanup /\ listener # "off") /\ NoViewersNoTasks

IInv == TypeOK /\ SendingOK /\ JoinOK /\ TasksInv

\* Message i is queued to socket c, in its sender's hands or was sent to it.
Carries(c, i) ==
  \/ \E k \in DOMAIN queue[c] : queue[c][k] = i
  \/ sending[c] = i
  \/ \E k \in DOMAIN received[c] : received[c][k] = i

\* The order of InOrder place by place: r was sent, z is in hand (0 if nothing
\* is), q is queued, and what comes after h is still to be heard.
Ordered(r, z, q, h) ==
  /\ Ascending(r) /\ Ascending(q)
  /\ \A j \in DOMAIN r, k \in DOMAIN q : r[j] < q[k]
  /\ z # 0 => (\A j \in DOMAIN r : r[j] < z) /\ (\A k \in DOMAIN q : z < q[k])
  /\ z <= h /\ (\A j \in DOMAIN r : r[j] <= h) /\ (\A k \in DOMAIN q : q[k] <= h)

OrderOK == \A c \in Clients : Ordered(received[c], sending[c], queue[c], heard)

\* Every alert on its way to a socket is for a user the socket was.
AlertsOK ==
  \A c \in Clients :
    /\ user[c] \in been[c] \cup {Nobody}
    /\ \A i \in Positions : Carries(c, i) => published[i].owner \in been[c] \cup {Nobody}

-----------------------------------------------------------------------------
(* What the operators of the model return. *)

\* The messages a full queue loses.
Lost(q) == IF Len(q) = QueueSize THEN 1 ELSE 0

\* All but the last message of e were in q before.
Shifted(e, q) ==
  \A k \in 1 .. Len(e) - 1 : k + Lost(q) \in 1 .. Len(q) /\ e[k] = q[k + Lost(q)]

(* A message joins a queue at its end; at most the first one leaves.       *)
LEMMA EnqueuedLemma ==
  ASSUME NEW S, NEW q \in Seq(S), NEW i \in S, Len(q) <= QueueSize
  PROVE  /\ Enqueued(q, i) \in Seq(S)
         /\ Len(Enqueued(q, i)) <= QueueSize
         /\ Len(Enqueued(q, i)) \in Nat \ {0}
         /\ Enqueued(q, i)[Len(Enqueued(q, i))] = i
         /\ Shifted(Enqueued(q, i), q)
<1> USE ConstantsAssumption
<1> DEFINE e == Enqueued(q, i)
<1>0. Len(q) \in Nat
  BY LenProperties
<1>1. CASE Len(q) = QueueSize
  <2> DEFINE t == Tail(q)
  <2>1. q # <<>>
    BY <1>1, EmptySeq
  <2>2. /\ t \in Seq(S) /\ Len(t) = Len(q) - 1
        /\ \A k \in 1 .. Len(t) : t[k] = q[k + 1]
    BY <2>1, HeadTailProperties
  <2>3. e = Append(t, i)
    BY <1>1 DEF Enqueued
  <2> HIDE DEF t, e
  <2>4. /\ e \in Seq(S) /\ Len(e) = Len(q)
        /\ \A k \in 1 .. Len(t) : e[k] = t[k]
        /\ e[Len(t) + 1] = i
    BY <1>0, <2>2, <2>3, AppendProperties
  <2>5. \A k \in 1 .. Len(e) - 1 : k + 1 \in 1 .. Len(q) /\ e[k] = q[k + 1]
    <3> TAKE k \in 1 .. Len(e) - 1
    <3>1. k \in 1 .. Len(t) /\ k + 1 \in 1 .. Len(q)
      BY <1>0, <2>2, <2>4
    <3> QED BY <2>2, <2>4, <3>1
  <2> QED BY <1>0, <1>1, <2>2, <2>4, <2>5 DEF e, Lost, Shifted
<1>2. CASE Len(q) # QueueSize
  <2>1. e = Append(q, i)
    BY <1>2 DEF Enqueued
  <2> HIDE DEF e
  <2>2. /\ e \in Seq(S) /\ Len(e) = Len(q) + 1
        /\ \A k \in 1 .. Len(q) : e[k] = q[k]
        /\ e[Len(q) + 1] = i
    BY <1>0, <2>1, AppendProperties
  <2>3. \A k \in 1 .. Len(e) - 1 : k + 0 \in 1 .. Len(q) /\ e[k] = q[k + 0]
    BY <1>0, <2>2
  <2> QED BY <1>0, <1>2, <2>2, <2>3 DEF e, Lost, Shifted
<1> QED BY <1>1, <1>2

(* Stopping the tasks keeps their types. *)
LEMMA StopLemma ==
  ASSUME SocketsOK, TasksOK, NEW t \in Tasks \cup {"sender"}, NEW mine,
         mine \subseteq Clients \X Tasks, Stop(t, mine)
  PROVE  TasksOK' /\ ws' \in [Clients -> {"new", "open", "closed"}]
<1> DEFINE rest == IF t \in Background
                   THEN {<<d, "close">> : d \in stale[t] \ {x[1] : x \in mine}} ELSE {}
<1>1. rest \subseteq Clients \X Tasks
  BY DEF TasksOK, Tasks
<1>2. closing' \subseteq closing \cup mine \cup rest
  BY DEF Stop, CutOff
<1>3. /\ listener' = "off" /\ cleanup' = FALSE /\ stale' = [b \in Background |-> {}]
  BY DEF Stop
<1>4. ws' \in [Clients -> {"new", "open", "closed"}]
  BY DEF Stop, SocketsOK
<1> QED BY <1>1, <1>2, <1>3, <1>4 DEF TasksOK

LEMMA RemoveLemma ==
  ASSUME SocketsOK, TasksOK, NEW c \in Clients, NEW t \in Tasks, Remove(c, t)
  PROVE  TasksOK' /\ ws' \in [Clients -> {"new", "open", "closed"}]
<1>1. CASE IsLast(c)
  BY <1>1, StopLemma DEF Remove, Tasks
<1>2. CASE ~IsLast(c)
  BY <1>2 DEF Remove, TasksOK, SocketsOK
<1> QED BY <1>1, <1>2

-----------------------------------------------------------------------------
LEMMA TypeInit == Init => TypeOK
<1> SUFFICES ASSUME Init PROVE TypeOK
  OBVIOUS
<1>0. Len(published) = 0 /\ published \in Seq(Payloads)
  BY EmptySeq DEF Init
<1>1. /\ \A S : <<>> \in Seq(S) /\ Len(<<>>) = 0
  BY EmptySeq
<1>2. SocketsOK /\ SendersOK
  BY <1>0 DEF Init, SocketsOK, SendersOK
<1>3. RecordsOK
  BY <1>1, ConstantsAssumption DEF Init, RecordsOK
<1>4. TasksOK
  BY DEF Init, TasksOK
<1>5. RedisOK /\ HistoryOK
  BY <1>0, <1>1, ConstantsAssumption DEF Init, RedisOK, HistoryOK
<1> QED BY <1>2, <1>3, <1>4, <1>5 DEF TypeOK

(* The endpoint of a socket moves. *)
LEMMA EndpointType ==
  ASSUME TypeOK, NEW c \in Clients,
         \/ Admit(c) \/ Connect(c) \/ AcceptFails(c) \/ Receive(c) \/ SetUser(c) \/ Hangup(c)
         \/ \E u \in Users \cup {Nobody} : Authenticate(c, u)
  PROVE  TypeOK'
<1> USE DEF TypeOK
<1>1. CASE Admit(c) \/ AcceptFails(c) \/ Hangup(c)
  <2>1. SocketsOK'
    BY <1>1 DEF Admit, AcceptFails, Hangup, SocketsOK
  <2>2. UNCHANGED <<senders, conns, records, tasks, redis, history>>
    BY <1>1 DEF Admit, AcceptFails, Hangup
  <2> QED BY <2>1, <2>2 DEF senders, records, tasks, redis, history, SendersOK, RecordsOK,
                            TasksOK, RedisOK, HistoryOK, Positions
<1>2. CASE Connect(c)
  <2>1. SocketsOK' /\ SendersOK'
    BY <1>2 DEF Connect, SocketsOK, SendersOK, redis
  <2>2. conns' \subseteq Clients /\ UNCHANGED <<records, redis, history>>
    BY <1>2 DEF Connect, RecordsOK
  <2>3. TasksOK'
    BY <1>2 DEF Connect, TasksOK
  <2> QED BY <2>1, <2>2, <2>3 DEF records, redis, history, RecordsOK, RedisOK, HistoryOK, Positions
<1>3. CASE Receive(c)
  <2>1. /\ idle' \in [Clients -> BOOLEAN]
        /\ UNCHANGED <<sockets, senders, conns, queue, dropped, user, tasks, redis, history>>
    BY <1>3 DEF Receive, RecordsOK
  <2> QED BY <2>1 DEF sockets, senders, tasks, redis, history, SocketsOK, SendersOK, RecordsOK,
                      TasksOK, RedisOK, HistoryOK, Positions
<1>4. CASE SetUser(c)
  <2>1. SocketsOK' /\ user' \in [Clients -> Users \cup {Nobody}]
    BY <1>4 DEF SetUser, SocketsOK, RecordsOK
  <2>2. been' \in [Clients -> SUBSET Users]
    BY <1>4 DEF SetUser, SocketsOK, HistoryOK
  <2>3. UNCHANGED <<senders, conns, queue, dropped, idle, tasks, redis, received, auths, errors>>
    BY <1>4 DEF SetUser
  <2> QED BY <2>1, <2>2, <2>3 DEF senders, tasks, redis, SendersOK, RecordsOK, TasksOK, RedisOK,
                                  HistoryOK, Positions
<1>5. CASE \E u \in Users \cup {Nobody} : Authenticate(c, u)
  <2>1. SocketsOK' /\ idle' \in [Clients -> BOOLEAN]
    BY <1>5 DEF Authenticate, SocketsOK, RecordsOK
  <2>2. auths' \in 0 .. MaxAuths
    BY <1>5, ConstantsAssumption DEF Authenticate, HistoryOK
  <2>3. UNCHANGED <<senders, conns, queue, dropped, user, tasks, redis, received, been, errors>>
    BY <1>5 DEF Authenticate
  <2> QED BY <2>1, <2>2, <2>3 DEF senders, tasks, redis, SendersOK, RecordsOK, TasksOK, RedisOK,
                                  HistoryOK, Positions
<1> QED BY <1>1, <1>2, <1>3, <1>4, <1>5

(* A disconnect, whoever runs it. *)
LEMMA DisconnectType ==
  ASSUME TypeOK, NEW c \in Clients,
         \/ Leave(c) \/ SenderLeave(c)
         \/ \E t \in Background : Evict(t, c)
         \/ \E t \in Tasks : FinishDisconnect(c, t)
  PROVE  TypeOK'
<1> USE DEF TypeOK
<1>1. CASE Leave(c)
  <2>1. conns' \subseteq Clients /\ UNCHANGED <<token, senders, records, redis, history>>
    BY <1>1 DEF Leave, Remove, RecordsOK
  <2>2. TasksOK' /\ SocketsOK'
    <3>1. CASE c \in conns
      <4>1. Remove(c, "endpoint") /\ UNCHANGED <<endpoint, token>>
        BY <1>1, <3>1 DEF Leave
      <4> QED BY <4>1, RemoveLemma DEF Tasks, SocketsOK
    <3>2. CASE c \notin conns
      BY <1>1, <3>2 DEF Leave, SocketsOK, tasks, TasksOK
    <3> QED BY <3>1, <3>2
  <2> QED BY <2>1, <2>2 DEF senders, records, redis, history, SendersOK, RecordsOK, RedisOK,
                            HistoryOK, Positions
<1>2. CASE SenderLeave(c)
  <2>1. conns' \subseteq Clients /\ UNCHANGED <<endpoint, token, sending, records, redis, history>>
    BY <1>2 DEF SenderLeave, RecordsOK
  <2>2. TasksOK' /\ SocketsOK'
    <3>1. CASE IsLast(c)
      <4>1. Stop("sender", {})
        BY <1>2, <3>1 DEF SenderLeave
      <4> QED BY <2>1, <4>1, StopLemma DEF SocketsOK
    <3>2. CASE ~IsLast(c)
      BY <1>2, <3>2 DEF SenderLeave, SocketsOK, tasks, TasksOK
    <3> QED BY <3>1, <3>2
  <2>3. SendersOK'
    BY <1>2, <2>1 DEF SenderLeave, SendersOK, redis
  <2> QED BY <2>1, <2>2, <2>3 DEF records, redis, history, RecordsOK, RedisOK, HistoryOK, Positions
<1>3. ASSUME NEW t \in Background, Evict(t, c)
      PROVE  TypeOK'
  <2>1. conns' \subseteq Clients /\ UNCHANGED <<endpoint, token, senders, records, redis, history>>
    BY <1>3 DEF Evict, Remove, RecordsOK
  <2>2. TasksOK' /\ SocketsOK'
    <3>1. CASE c \in conns
      <4>1. Remove(c, t) /\ t \in Tasks
        BY <1>3, <3>1 DEF Evict, Tasks
      <4> QED BY <2>1, <4>1, RemoveLemma DEF SocketsOK
    <3>2. CASE c \notin conns
      BY <1>3, <3>2 DEF Evict, SocketsOK, TasksOK
    <3> QED BY <3>1, <3>2
  <2> QED BY <2>1, <2>2 DEF senders, records, redis, history, SendersOK, RecordsOK, RedisOK,
                            HistoryOK, Positions
<1>4. ASSUME NEW t \in Tasks, FinishDisconnect(c, t)
      PROVE  TypeOK'
  <2>1. UNCHANGED <<token, conns, records, listener, cleanup, stale, redis, history>>
    BY <1>4 DEF FinishDisconnect
  <2>2. SocketsOK' /\ TasksOK'
    BY <1>4 DEF FinishDisconnect, SocketsOK, TasksOK
  <2>3. SendersOK'
    <3>1. 0 \in 0 .. Len(published)
      BY LenProperties DEF RedisOK
    <3> QED BY <1>4, <3>1 DEF FinishDisconnect, SendersOK, senders, redis
  <2> QED BY <2>1, <2>2, <2>3 DEF records, redis, history, RecordsOK, RedisOK, HistoryOK, Positions
<1> QED BY <1>1, <1>2, <1>3, <1>4

(* The sender of a socket moves, or the socket goes idle. *)
LEMMA SenderType ==
  ASSUME TypeOK, SendingOK, NEW c \in Clients, StartSend(c) \/ Sent(c) \/ SendFails(c) \/ GoIdle(c)
  PROVE  TypeOK'
<1> USE DEF TypeOK
<1>0. Len(published) \in Nat
  BY LenProperties DEF RedisOK
<1>1. CASE StartSend(c)
  <2>1. queue[c] \in Seq(Positions) /\ queue[c] # <<>>
    BY <1>1 DEF StartSend, RecordsOK
  <2>2. /\ Head(queue[c]) \in Positions /\ Tail(queue[c]) \in Seq(Positions)
        /\ Len(Tail(queue[c])) = Len(queue[c]) - 1
    BY <2>1, HeadTailProperties
  <2>3. Len(queue[c]) \in Nat
    BY <2>1, LenProperties
  <2>4. UNCHANGED <<sockets, conns, dropped, idle, user, tasks, redis, history>>
    BY <1>1 DEF StartSend
  <2>5. SendersOK'
    BY <1>0, <1>1, <2>2 DEF StartSend, SendersOK, Positions, redis
  <2>6. RecordsOK'
    <3>1. queue' = [queue EXCEPT ![c] = Tail(@)]
      BY <1>1 DEF StartSend
    <3>2. Len(queue[c]) <= QueueSize
      BY DEF RecordsOK
    <3>3. Len(Tail(queue[c])) <= QueueSize
      BY <2>2, <2>3, <3>2, ConstantsAssumption
    <3> QED BY <2>2, <2>4, <3>1, <3>3 DEF RecordsOK, redis, Positions
  <2> QED BY <2>4, <2>5, <2>6 DEF sockets, tasks, redis, history, SocketsOK, TasksOK, RedisOK,
                                  HistoryOK, Positions
<1>2. CASE Sent(c)
  <2>1. UNCHANGED <<sockets, conns, queue, dropped, user, tasks, redis, been, auths, errors>>
    BY <1>2 DEF Sent
  <2>2. SendersOK' /\ idle' \in [Clients -> BOOLEAN]
    BY <1>0, <1>2 DEF Sent, SendersOK, RecordsOK, redis
  <2>3. received' \in [Clients -> Seq(Positions)]
    <3>1. received[c] \in Seq(Positions) /\ received' = [received EXCEPT ![c] = Append(@, sending[c])]
      BY <1>2 DEF Sent, HistoryOK
    <3>2. sending[c] \in Positions
      BY <1>2 DEF Sent, SendersOK, SendingOK, Positions
    <3>3. Append(received[c], sending[c]) \in Seq(Positions)
      BY <3>1, <3>2, AppendProperties
    <3> QED BY <3>1, <3>3 DEF HistoryOK
  <2> QED BY <2>1, <2>2, <2>3 DEF sockets, tasks, redis, SocketsOK, RecordsOK, TasksOK, RedisOK,
                                  HistoryOK, Positions
<1>3. CASE SendFails(c)
  <2>1. UNCHANGED <<sockets, conns, records, tasks, redis, history>>
    BY <1>3 DEF SendFails
  <2>2. SendersOK'
    BY <1>0, <1>3 DEF SendFails, SendersOK, redis
  <2> QED BY <2>1, <2>2 DEF sockets, records, tasks, redis, history, SocketsOK, RecordsOK, TasksOK,
                            RedisOK, HistoryOK, Positions
<1>4. CASE GoIdle(c)
  <2>1. /\ UNCHANGED <<sockets, senders, conns, queue, dropped, user, tasks, redis, history>>
        /\ idle' \in [Clients -> BOOLEAN]
    BY <1>4 DEF GoIdle, RecordsOK
  <2> QED BY <2>1 DEF sockets, senders, tasks, redis, history, SocketsOK, SendersOK, RecordsOK,
                      TasksOK, RedisOK, HistoryOK, Positions
<1> QED BY <1>1, <1>2, <1>3, <1>4

(* The listener, the cleanup task or a producer moves. *)
LEMMA BackgroundType ==
  ASSUME TypeOK, Subscribe \/ Broadcast \/ ListenerDies \/ Scan \/ \E m \in Payloads : Publish(m)
  PROVE  TypeOK'
<1> USE DEF TypeOK
<1>0. Len(published) \in Nat
  BY LenProperties DEF RedisOK
<1>1. CASE Subscribe
  <2>1. /\ UNCHANGED <<sockets, senders, conns, records, cleanup, stale, closing, published, history>>
        /\ listener' = "on" /\ heard' = Len(published)
    BY <1>1 DEF Subscribe
  <2> QED BY <1>0, <2>1 DEF sockets, senders, records, history, SocketsOK, SendersOK, RecordsOK,
                            TasksOK, RedisOK, HistoryOK, Positions
<1>2. CASE Broadcast
  <2> DEFINE to == Addressed(published[heard + 1])
  <2>1. /\ UNCHANGED <<sockets, senders, conns, user, listener, cleanup, closing, published, history>>
        /\ heard' = heard + 1 /\ heard + 1 \in Positions
    BY <1>0, <1>2 DEF Broadcast, RedisOK, Positions
  <2>2. /\ queue' = [c \in Clients |-> IF c \in to THEN Enqueued(queue[c], heard + 1) ELSE queue[c]]
        /\ dropped' = [c \in Clients |-> IF c \in to /\ Len(queue[c]) = QueueSize
                                         THEN dropped[c] + 1 ELSE dropped[c]]
        /\ idle' = [c \in Clients |-> idle[c] /\ c \notin to]
    BY <1>2 DEF Broadcast
  <2>3. stale' \in [Background -> SUBSET Clients]
    <3>1. to \subseteq Clients
      BY DEF Addressed, Watching, RecordsOK
    <3> DEFINE slow == {c \in to : dropped'[c] >= MaxDropped /\ dropped'[c] > dropped[c]}
    <3>2. stale' = [stale EXCEPT !["listener"] = slow]
      BY <1>2 DEF Broadcast
    <3>3. slow \subseteq Clients
      BY <3>1
    <3> HIDE DEF slow
    <3> QED BY <3>2, <3>3 DEF TasksOK
  <2> HIDE DEF to
  <2>4. RecordsOK'
    <3>1. ASSUME NEW c \in Clients
          PROVE  queue'[c] \in Seq(Positions) /\ Len(queue'[c]) <= QueueSize
      <4>1. queue[c] \in Seq(Positions) /\ Len(queue[c]) <= QueueSize
        BY DEF RecordsOK
      <4> QED BY <2>1, <2>2, <4>1, EnqueuedLemma
    <3>2. Positions' = Positions
      BY <2>1 DEF Positions
    <3>3. dropped' \in [Clients -> Nat] /\ idle' \in [Clients -> BOOLEAN]
      BY <2>2 DEF RecordsOK
    <3>4. queue' \in [Clients -> Seq(Positions)]
      BY <2>2, <3>1
    <3> QED BY <2>1, <3>1, <3>2, <3>3, <3>4 DEF RecordsOK
  <2>5. TasksOK' /\ RedisOK'
    BY <1>0, <2>1, <2>3 DEF TasksOK, RedisOK, Positions
  <2> QED BY <2>1, <2>4, <2>5 DEF sockets, senders, history, SocketsOK, SendersOK, HistoryOK, Positions
<1>3. CASE ListenerDies
  <2>1. /\ UNCHANGED <<sockets, senders, conns, records, cleanup, stale, closing, redis, received,
                       been, auths>>
        /\ listener' = "dead" /\ errors' \in 0 .. MaxErrors
    BY <1>3, ConstantsAssumption DEF ListenerDies, HistoryOK
  <2> QED BY <2>1 DEF sockets, senders, records, redis, SocketsOK, SendersOK, RecordsOK, TasksOK,
                      RedisOK, HistoryOK, Positions
<1>4. CASE Scan
  <2>1. UNCHANGED <<sockets, senders, conns, records, listener, cleanup, closing, redis, history>>
    BY <1>4 DEF Scan
  <2>2. TasksOK'
    BY <1>4 DEF Scan, TasksOK, RecordsOK
  <2> QED BY <2>1, <2>2 DEF sockets, senders, records, redis, history, SocketsOK, SendersOK,
                            RecordsOK, RedisOK, HistoryOK, Positions
<1>5. ASSUME NEW m \in Payloads, Publish(m)
      PROVE  TypeOK'
  <2>1. /\ UNCHANGED <<sockets, senders, conns, records, tasks, heard, history>>
        /\ published' = Append(published, m)
    BY <1>5 DEF Publish
  <2>2. published' \in Seq(Payloads) /\ Len(published') = Len(published) + 1
    BY <2>1, AppendProperties DEF RedisOK
  <2>3. Positions \subseteq Positions' /\ 0 .. Len(published) \subseteq 0 .. Len(published')
    BY <1>0, <2>2 DEF Positions
  <2>4. \A q \in Seq(Positions) : q \in Seq(Positions')
    BY <2>3, SeqMonotonic
  <2>5. SendersOK' /\ RedisOK'
    BY <2>1, <2>2, <2>3 DEF senders, SendersOK, RedisOK
  <2>6. RecordsOK' /\ HistoryOK'
    BY <2>1, <2>4 DEF records, history, RecordsOK, HistoryOK
  <2> QED BY <2>1, <2>5, <2>6 DEF sockets, tasks, SocketsOK, TasksOK
<1> QED BY <1>1, <1>2, <1>3, <1>4, <1>5

LEMMA TypeStep == TypeOK /\ SendingOK /\ [Next]_vars => TypeOK'
<1> SUFFICES ASSUME TypeOK, SendingOK, [Next]_vars
             PROVE  TypeOK'
  OBVIOUS
<1>1. ASSUME NEW c \in Clients, ClientStep(c)
      PROVE  TypeOK'
  BY <1>1, EndpointType, DisconnectType, SenderType DEF ClientStep
<1>2. CASE UNCHANGED vars
  BY <1>2 DEF vars, sockets, senders, records, tasks, redis, history, TypeOK, SocketsOK,
              SendersOK, RecordsOK, TasksOK, RedisOK, HistoryOK, Positions
<1> QED BY <1>1, <1>2, BackgroundType DEF Next

-----------------------------------------------------------------------------
(***************************************************************************)
(* The life of a socket, and the tasks.  What a stop leaves behind is no   *)
(* background task's: the socket that task t was busy with is detached,    *)
(* the rest of its list is only closed, and the other task is cut off.     *)
(***************************************************************************)
LEMMA StopEffect ==
  ASSUME NEW t \in Tasks \cup {"sender"}, NEW mine, Stop(t, mine),
         t \in Background => \A x \in closing : x[2] # t,
         \A x \in mine : x[2] \notin Background
  PROVE  /\ listener' = "off" /\ cleanup' = FALSE
         /\ \A b \in Background : Free(b)' /\ stale'[b] = {}
         /\ \A x \in closing' : \/ x \in closing \cup mine
                                \/ (t \in Background /\ x[1] \in stale[t])
<1> DEFINE rest == IF t \in Background
                   THEN {<<d, "close">> : d \in stale[t] \ {x[1] : x \in mine}} ELSE {}
<1>1. /\ listener' = "off" /\ cleanup' = FALSE /\ stale' = [b \in Background |-> {}]
      /\ closing' = (closing \ CutOff(t)) \cup mine \cup rest
  BY DEF Stop
<1>2. \A x \in rest : t \in Background /\ x[1] \in stale[t] /\ x[2] = "close"
  OBVIOUS
<1>3. \A x \in closing \ CutOff(t) : x[2] \notin Background
  BY DEF CutOff
<1> HIDE DEF rest
<1>4. \A x \in closing' : x[2] \notin Background
  BY <1>1, <1>2, <1>3 DEF Background
<1>5. \A b \in Background : Free(b)'
  BY <1>1, <1>4 DEF Free
<1> QED BY <1>1, <1>2, <1>5

LEMMA RemoveEffect ==
  ASSUME JoinOK, TasksInv, NEW t \in Background \cup {"endpoint"}, NEW c \in conns, Remove(c, t),
         t \in Background => \A x \in closing : x[2] # t,
         stale \in [Background -> SUBSET Clients], UNCHANGED <<endpoint, sender>>
  PROVE  JoinOK' /\ TasksInv'
<1>1. conns' = conns \ {c} /\ Joined(c)
  BY DEF Remove, JoinOK
<1>2. CASE IsLast(c)
  <2> DEFINE mine == {<<c, IF t \in Background THEN "detached" ELSE t>>}
  <2>1. /\ Stop(t, mine) /\ t \in Tasks \cup {"sender"}
        /\ \A x \in mine : x[2] \notin Background
        /\ \A x \in mine : x[1] = c
    BY <1>2 DEF Remove, Background, Tasks
  <2> HIDE DEF mine
  <2>2. /\ listener' = "off" /\ cleanup' = FALSE
        /\ \A b \in Background : Free(b)' /\ stale'[b] = {}
        /\ \A x \in closing' : x \in closing \cup mine \/ (t \in Background /\ x[1] \in stale[t])
    BY <2>1, StopEffect
  <2>3. conns' = {}
    BY <1>1, <1>2 DEF IsLast
  <2>4. \A x \in closing' : Joined(x[1])
    BY <1>1, <2>1, <2>2 DEF JoinOK
  <2>5. JoinOK'
    BY <2>2, <2>3, <2>4 DEF JoinOK, Joined
  <2> QED BY <2>2, <2>3, <2>5 DEF TasksInv, NoViewersNoTasks
<1>3. CASE ~IsLast(c)
  <2>1. /\ closing' = closing \cup {<<c, t>>}
        /\ stale' = IF t \in Background THEN [stale EXCEPT ![t] = @ \ {c}] ELSE stale
        /\ UNCHANGED <<listener, cleanup>>
    BY <1>3 DEF Remove
  <2>2. conns' # {} /\ conns # {}
    BY <1>1, <1>3 DEF IsLast
  <2>3. \A b \in Background : stale'[b] \subseteq stale[b]
    BY <2>1
  <2>4. JoinOK'
    BY <1>1, <2>1, <2>3 DEF JoinOK, Joined
  <2> QED BY <2>1, <2>2, <2>4 DEF TasksInv, NoViewersNoTasks
<1> QED BY <1>2, <1>3

LEMMA EndpointLife ==
  ASSUME TypeOK, SendingOK, JoinOK, TasksInv, NEW c \in Clients,
         \/ Admit(c) \/ Connect(c) \/ AcceptFails(c) \/ Receive(c) \/ SetUser(c) \/ Hangup(c)
         \/ \E u \in Users \cup {Nobody} : Authenticate(c, u)
  PROVE  SendingOK' /\ JoinOK' /\ TasksInv'
<1>0. endpoint \in [Clients -> {"admit", "accept", "receive", "auth", "leave", "done"}]
  BY DEF TypeOK, SocketsOK
<1>1. CASE Connect(c)
  <2>1. /\ endpoint[c] = "accept" /\ endpoint' = [endpoint EXCEPT ![c] = "receive"]
        /\ sender' = [sender EXCEPT ![c] = "wait"] /\ UNCHANGED <<sending, stale, closing>>
        /\ conns' = conns \cup {c} /\ cleanup'
        /\ listener' = IF listener \in {"off", "dead"} THEN "starting" ELSE listener
    BY <1>1 DEF Connect
  <2>2. sender[c] = "none" /\ sender \in [Clients -> {"none", "wait", "send", "leave", "done"}]
    BY <2>1 DEF JoinOK, Joined, TypeOK, SendersOK
  <2>3. \A x \in closing : x[1] # c
    BY <2>1 DEF JoinOK, Joined
  <2>4. SendingOK'
    BY <2>1, <2>2 DEF SendingOK
  <2>5. JoinOK'
    <3>1. \A d \in Clients : Joined(d) => Joined(d)'
      BY <1>0, <2>1 DEF Joined
    <3>2. Joined(c)' /\ endpoint'[c] # "done" /\ sender'[c] = "wait"
      BY <1>0, <2>1, <2>2 DEF Joined
    <3>3. \A d \in Clients \ {c} : endpoint'[d] = endpoint[d] /\ sender'[d] = sender[d]
      BY <1>0, <2>1, <2>2
    <3>4. conns \subseteq Clients /\ closing \subseteq Clients \X Tasks
          /\ stale \in [Background -> SUBSET Clients]
      BY DEF TypeOK, RecordsOK, TasksOK
    <3>5. \A d \in Clients : ~Joined(d)' => sender'[d] = "none"
      BY <3>2, <3>3 DEF JoinOK, Joined
    <3>6. \A d \in conns' : Joined(d)' /\ endpoint'[d] # "done" /\ sender'[d] \notin {"none", "done"}
      BY <2>1, <3>1, <3>2, <3>3, <3>4 DEF JoinOK
    <3>7. \A x \in closing' : Joined(x[1])' /\ x[1] \notin conns'
      BY <2>1, <2>3, <3>1, <3>4 DEF JoinOK
    <3>8. \A t \in Background : \A d \in stale'[t] : Joined(d)'
      BY <2>1, <3>1, <3>4 DEF JoinOK
    <3> QED BY <3>5, <3>6, <3>7, <3>8 DEF JoinOK, Joined
  <2>6. TasksInv'
    BY <2>1 DEF TasksInv, NoViewersNoTasks
  <2> QED BY <2>4, <2>5, <2>6
<1>2. CASE ~Connect(c)
  <2>1. UNCHANGED <<sender, sending, conns, listener, cleanup, stale, closing>>
    BY <1>2 DEF Admit, AcceptFails, Receive, SetUser, Hangup, Authenticate, senders, tasks
  <2>2. /\ \A d \in Clients \ {c} : endpoint'[d] = endpoint[d]
        /\ Joined(c) => Joined(c)'
        /\ c \in conns => endpoint'[c] # "done"
    BY <1>0, <1>2 DEF Admit, AcceptFails, Receive, SetUser, Hangup, Authenticate, sockets,
                      JoinOK, Joined
  <2>3. SendingOK' /\ TasksInv'
    BY <2>1 DEF SendingOK, TasksInv, NoViewersNoTasks, Free
  <2>4. JoinOK'
    <3>1. \A d \in Clients : Joined(d) => Joined(d)'
      BY <2>2 DEF Joined
    <3>2. conns \subseteq Clients /\ closing \subseteq Clients \X Tasks
          /\ stale \in [Background -> SUBSET Clients]
      BY DEF TypeOK, RecordsOK, TasksOK
    <3> QED BY <2>1, <2>2, <3>1, <3>2 DEF JoinOK
  <2> QED BY <2>3, <2>4
<1> QED BY <1>1, <1>2

LEMMA DisconnectLife ==
  ASSUME TypeOK, SendingOK, JoinOK, TasksInv, NEW c \in Clients,
         \/ Leave(c) \/ SenderLeave(c)
         \/ \E t \in Background : Evict(t, c)
         \/ \E t \in Tasks : FinishDisconnect(c, t)
  PROVE  SendingOK' /\ JoinOK' /\ TasksInv'
<1>0. /\ endpoint \in [Clients -> {"admit", "accept", "receive", "auth", "leave", "done"}]
      /\ sender \in [Clients -> {"none", "wait", "send", "leave", "done"}]
      /\ conns \subseteq Clients /\ stale \in [Background -> SUBSET Clients]
      /\ closing \subseteq Clients \X Tasks /\ DOMAIN sending = Clients
  BY DEF TypeOK, SocketsOK, SendersOK, RecordsOK, TasksOK
<1>1. CASE Leave(c)
  <2>1. UNCHANGED <<sender, sending>>
    BY <1>1 DEF Leave, senders
  <2>2. CASE c \in conns
    <3>1. Remove(c, "endpoint") /\ UNCHANGED <<endpoint, sender>>
      BY <1>1, <2>1, <2>2 DEF Leave
    <3>2. JoinOK' /\ TasksInv'
      BY <1>0, <2>2, <3>1, RemoveEffect DEF Background
    <3> QED BY <2>1, <3>2 DEF SendingOK
  <2>3. CASE c \notin conns
    <3>1. /\ UNCHANGED <<conns, listener, cleanup, stale, closing>>
          /\ endpoint[c] = "leave" /\ endpoint' = [endpoint EXCEPT ![c] = "done"]
      BY <1>1, <2>3 DEF Leave, tasks
    <3>2. \A d \in Clients : Joined(d) <=> Joined(d)'
      BY <1>0, <3>1 DEF Joined
    <3>3. JoinOK'
      BY <1>0, <2>1, <2>3, <3>1, <3>2 DEF JoinOK
    <3> QED BY <2>1, <3>1, <3>3 DEF SendingOK, TasksInv, NoViewersNoTasks, Free
  <2> QED BY <2>2, <2>3
<1>2. CASE SenderLeave(c)
  <2>1. /\ sender[c] = "leave" /\ sender' = [sender EXCEPT ![c] = "done"]
        /\ conns' = conns \ {c} /\ UNCHANGED <<endpoint, sending>>
    BY <1>2 DEF SenderLeave
  <2>2. SendingOK'
    BY <1>0, <2>1 DEF SendingOK
  <2>3. /\ \A d \in Clients : ~Joined(d) => sender'[d] = "none"
        /\ \A d \in conns' : Joined(d) /\ endpoint[d] # "done" /\ sender'[d] \notin {"none", "done"}
    BY <1>0, <2>1 DEF JoinOK
  <2>4. CASE IsLast(c)
    <3> DEFINE mine == {}
    <3>1. /\ Stop("sender", mine) /\ "sender" \in Tasks \cup {"sender"}
          /\ "sender" \notin Background /\ conns' = {}
      BY <1>2, <2>1, <2>4 DEF SenderLeave, Background, IsLast
    <3>e. /\ \A x \in mine : x[2] \notin Background
          /\ closing \cup mine = closing
      OBVIOUS
    <3> HIDE DEF mine
    <3>2. /\ listener' = "off" /\ cleanup' = FALSE
          /\ \A b \in Background : Free(b)' /\ stale'[b] = {}
          /\ \A x \in closing' : x \in closing
      BY <3>1, <3>e, StopEffect
    <3>3. JoinOK'
      BY <2>1, <2>3, <3>1, <3>2 DEF JoinOK, Joined
    <3> QED BY <2>2, <3>1, <3>2, <3>3 DEF TasksInv, NoViewersNoTasks
  <2>5. CASE ~IsLast(c)
    <3>1. UNCHANGED <<listener, cleanup, stale, closing>>
      BY <1>2, <2>5 DEF SenderLeave, tasks
    <3>2. conns' = {} => conns = {}
      BY <2>1, <2>5 DEF IsLast
    <3>3. JoinOK'
      BY <2>1, <2>3, <3>1 DEF JoinOK, Joined
    <3> QED BY <2>1, <2>2, <3>1, <3>2, <3>3 DEF TasksInv, NoViewersNoTasks, Free
  <2> QED BY <2>4, <2>5
<1>3. ASSUME NEW t \in Background, Evict(t, c)
      PROVE  SendingOK' /\ JoinOK' /\ TasksInv'
  <2>1. /\ c \in stale[t] /\ \A x \in closing : x[2] # t
        /\ UNCHANGED <<endpoint, sender, sending>>
    BY <1>3 DEF Evict, senders
  <2>2. CASE c \in conns
    <3>1. Remove(c, t)
      BY <1>3, <2>2 DEF Evict
    <3>2. JoinOK' /\ TasksInv'
      BY <1>0, <2>1, <2>2, <3>1, RemoveEffect
    <3> QED BY <2>1, <3>2 DEF SendingOK
  <2>3. CASE c \notin conns
    <3>1. /\ stale' = [stale EXCEPT ![t] = @ \ {c}]
          /\ UNCHANGED <<conns, listener, cleanup, closing>>
      BY <1>3, <2>3 DEF Evict
    <3>2. \A b \in Background : stale'[b] \subseteq stale[b]
      BY <1>0, <3>1
    <3>3. JoinOK'
      BY <2>1, <3>1, <3>2 DEF JoinOK, Joined
    <3>4. TasksInv'
      BY <3>1, <3>2 DEF TasksInv, NoViewersNoTasks, Free
    <3> QED BY <2>1, <3>3, <3>4 DEF SendingOK
  <2> QED BY <2>2, <2>3
<1>4. ASSUME NEW t \in Tasks, FinishDisconnect(c, t)
      PROVE  SendingOK' /\ JoinOK' /\ TasksInv'
  <2>1. /\ <<c, t>> \in closing /\ closing' \subseteq closing
        /\ UNCHANGED <<conns, listener, cleanup, stale>>
    BY <1>4 DEF FinishDisconnect
  <2>2. Joined(c) /\ c \notin conns
    BY <2>1 DEF JoinOK
  <2>3. /\ \A d \in Clients \ {c} : endpoint'[d] = endpoint[d] /\ sender'[d] = sender[d]
        /\ Joined(c)'
    BY <1>0, <1>4, <2>2 DEF FinishDisconnect, Joined, senders
  <2>4. SendingOK'
    BY <1>0, <1>4 DEF FinishDisconnect, SendingOK, senders
  <2>5. \A d \in Clients : Joined(d) <=> Joined(d)'
    BY <2>2, <2>3 DEF Joined
  <2>6. JoinOK'
    BY <1>0, <2>1, <2>2, <2>3, <2>5 DEF JoinOK
  <2>7. TasksInv'
    BY <2>1 DEF TasksInv, NoViewersNoTasks, Free
  <2> QED BY <2>4, <2>6, <2>7
<1> QED BY <1>1, <1>2, <1>3, <1>4

LEMMA SenderLife ==
  ASSUME TypeOK, SendingOK, JoinOK, TasksInv, NEW c \in Clients,
         StartSend(c) \/ Sent(c) \/ SendFails(c) \/ GoIdle(c)
  PROVE  SendingOK' /\ JoinOK' /\ TasksInv'
<1>1. UNCHANGED <<endpoint, conns, listener, cleanup, stale, closing>>
  BY DEF StartSend, Sent, SendFails, GoIdle, sockets, tasks
<1>2. TasksInv'
  BY <1>1 DEF TasksInv, NoViewersNoTasks, Free
<1>3. /\ sender \in [Clients -> {"none", "wait", "send", "leave", "done"}]
      /\ conns \subseteq Clients /\ DOMAIN sending = Clients
  BY DEF TypeOK, SendersOK, RecordsOK
<1>4. /\ \A d \in Clients : sender'[d] = "none" <=> sender[d] = "none"
      /\ \A d \in Clients : sender'[d] = "done" <=> sender[d] = "done"
  BY <1>3 DEF StartSend, Sent, SendFails, GoIdle, senders
<1>5. JoinOK'
  BY <1>1, <1>3, <1>4 DEF JoinOK, Joined
<1>6. CASE StartSend(c)
  <2>1. Head(queue[c]) # 0
    <3>1. queue[c] \in Seq(Positions) /\ queue[c] # <<>>
      BY <1>6 DEF StartSend, TypeOK, RecordsOK
    <3> QED BY <3>1, HeadTailProperties DEF Positions
  <2> QED BY <1>2, <1>3, <1>5, <1>6, <2>1 DEF StartSend, SendingOK
<1>7. CASE Sent(c) \/ SendFails(c) \/ GoIdle(c)
  BY <1>2, <1>3, <1>5, <1>7 DEF Sent, SendFails, GoIdle, senders, SendingOK
<1> QED BY <1>6, <1>7

LEMMA BackgroundLife ==
  ASSUME TypeOK, SendingOK, JoinOK, TasksInv,
         Subscribe \/ Broadcast \/ ListenerDies \/ Scan \/ \E m \in Payloads : Publish(m)
  PROVE  SendingOK' /\ JoinOK' /\ TasksInv'
<1>1. UNCHANGED <<endpoint, sender, sending, conns, cleanup, closing>>
  BY DEF Subscribe, Broadcast, ListenerDies, Scan, Publish, sockets, senders, tasks
<1>2. SendingOK'
  BY <1>1 DEF SendingOK
<1>3. listener' = "off" <=> listener = "off"
  BY DEF Subscribe, Broadcast, ListenerDies, Scan, Publish, tasks
<1>4. \A b \in Background : stale'[b] \subseteq stale[b] \cup conns
  <2>0. stale \in [Background -> SUBSET Clients]
    BY DEF TypeOK, TasksOK
  <2>1. CASE Broadcast
    <3> DEFINE to == Addressed(published[heard + 1])
               slow == {c \in to : dropped'[c] >= MaxDropped /\ dropped'[c] > dropped[c]}
    <3>1. stale' = [stale EXCEPT !["listener"] = slow]
      BY <2>1 DEF Broadcast
    <3>2. slow \subseteq conns
      BY DEF Addressed, Watching
    <3> HIDE DEF slow
    <3> QED BY <2>0, <3>1, <3>2
  <2>2. CASE Scan
    BY <2>0, <2>2 DEF Scan
  <2>3. CASE Subscribe \/ ListenerDies \/ \E m \in Payloads : Publish(m)
    BY <2>3 DEF Subscribe, ListenerDies, Publish, tasks
  <2> QED BY <2>1, <2>2, <2>3
<1>5. JoinOK'
  BY <1>1, <1>4 DEF JoinOK, Joined
<1>6. conns = {} => UNCHANGED stale
  <2>1. conns = {} => ~Subscribe /\ ~Broadcast /\ ~ListenerDies /\ ~Scan
    BY DEF TasksInv, NoViewersNoTasks, Subscribe, Broadcast, ListenerDies, Scan
  <2> QED BY <2>1 DEF Publish, tasks
<1>7. TasksInv'
  BY <1>1, <1>3, <1>6 DEF TasksInv, NoViewersNoTasks, Free
<1> QED BY <1>2, <1>5, <1>7

-----------------------------------------------------------------------------
LEMMA InvInit == Init => IInv
<1> SUFFICES ASSUME Init PROVE IInv
  OBVIOUS
<1>1. SendingOK /\ JoinOK /\ TasksInv
  BY DEF Init, SendingOK, JoinOK, Joined, TasksInv, NoViewersNoTasks, Free
<1> QED BY <1>1, TypeInit DEF IInv

LEMMA InvStep == IInv /\ [Next]_vars => IInv'
<1> SUFFICES ASSUME IInv, [Next]_vars
             PROVE  SendingOK' /\ JoinOK' /\ TasksInv'
  BY TypeStep DEF IInv
<1>1. ASSUME NEW c \in Clients, ClientStep(c)
      PROVE  SendingOK' /\ JoinOK' /\ TasksInv'
  BY <1>1, EndpointLife, DisconnectLife, SenderLife DEF ClientStep, IInv
<1>2. CASE UNCHANGED vars
  BY <1>2 DEF vars, sockets, senders, tasks, IInv, SendingOK, JoinOK, Joined, TasksInv,
              NoViewersNoTasks, Free
<1> QED BY <1>1, <1>2, BackgroundLife DEF Next, IInv

(* Every variable keeps its type; in particular what a sender holds, what  *)
(* is queued and what was sent are positions of published messages, and no *)
(* queue is longer than its bound.                                         *)
THEOREM TypeCorrect == Spec => []TypeOK
<1>1. IInv => TypeOK
  BY DEF IInv
<1> QED BY <1>1, InvInit, InvStep, PTL DEF Spec

(* The background tasks run for the registered sockets and only for them.  *)
THEOREM TasksFollowViewersTheorem == Spec => []TasksFollowViewers
<1>1. IInv => TasksFollowViewers
  BY DEF IInv, JoinOK, Joined, TasksInv, TasksFollowViewers, RegisteredAreServed
<1> QED BY <1>1, InvInit, InvStep, PTL DEF Spec

-----------------------------------------------------------------------------
(***************************************************************************)
(* What a socket carries.  InOrder and NoAlertToStranger are not inductive *)
(* either: the first needs that nothing carried is beyond what the         *)
(* listener has heard, though listeners come and go; the second that a     *)
(* socket was the user it is now, and that the message in its sender's     *)
(* hands is no stranger's.                                                 *)
(***************************************************************************)
LEMMA LineTypes ==
  ASSUME TypeOK, NEW c \in Clients
  PROVE  /\ queue[c] \in Seq(Positions) /\ received[c] \in Seq(Positions)
         /\ Len(queue[c]) \in Nat /\ DOMAIN queue[c] = 1 .. Len(queue[c])
         /\ Len(received[c]) \in Nat /\ DOMAIN received[c] = 1 .. Len(received[c])
         /\ \A k \in 1 .. Len(queue[c]) : queue[c][k] \in Positions
         /\ \A k \in 1 .. Len(received[c]) : received[c][k] \in Positions
         /\ sending[c] \in 0 .. Len(published) /\ Len(published) \in Nat
         /\ heard \in 0 .. Len(published)
<1>1. /\ queue[c] \in Seq(Positions) /\ received[c] \in Seq(Positions)
      /\ sending[c] \in 0 .. Len(published) /\ published \in Seq(Payloads)
      /\ heard \in 0 .. Len(published)
  BY DEF TypeOK, SendersOK, RecordsOK, RedisOK, HistoryOK
<1> QED BY <1>1, LenProperties, ElementOfSeq

LEMMA CarriedIsPublished ==
  ASSUME TypeOK, NEW c \in Clients, NEW i, Carries(c, i), i # 0
  PROVE  i \in Positions
  BY LineTypes DEF Carries, Positions

\* The steps that take messages from a socket or leave it alone, and the others.
Fewer ==
  /\ UNCHANGED <<queue, received>> /\ heard <= heard'
  /\ \A c \in Clients : sending'[c] \in {0, sending[c]}

LEMMA Movers ==
  ASSUME TypeOK, [Next]_vars
  PROVE  Fewer \/ Broadcast \/ \E c \in Clients : StartSend(c) \/ Sent(c)
<1>0. /\ heard \in Nat /\ Len(published) \in Nat /\ heard <= Len(published)
      /\ DOMAIN sending = Clients
  BY LenProperties DEF TypeOK, RedisOK, SendersOK
<1>1. ASSUME NEW c \in Clients,
             \/ Admit(c) \/ Connect(c) \/ AcceptFails(c) \/ Receive(c) \/ SetUser(c)
             \/ Hangup(c) \/ Leave(c) \/ SenderLeave(c) \/ GoIdle(c)
             \/ \E u \in Users \cup {Nobody} : Authenticate(c, u)
             \/ \E t \in Background : Evict(t, c)
      PROVE  Fewer
  <2>1. UNCHANGED <<queue, received, sending, heard>>
    BY <1>1 DEF Admit, Connect, AcceptFails, Receive, SetUser, Hangup, Leave, SenderLeave, GoIdle,
                Authenticate, Evict, senders, records, redis, history
  <2> QED BY <1>0, <2>1 DEF Fewer
<1>2. ASSUME NEW c \in Clients, SendFails(c) \/ \E t \in Tasks : FinishDisconnect(c, t)
      PROVE  Fewer
  <2>1. UNCHANGED <<queue, received, heard>>
    BY <1>2 DEF SendFails, FinishDisconnect, records, redis, history
  <2>2. UNCHANGED sending \/ sending' = [sending EXCEPT ![c] = 0]
    BY <1>2 DEF SendFails, FinishDisconnect, senders
  <2> QED BY <1>0, <2>1, <2>2 DEF Fewer
<1>3. ASSUME Subscribe \/ ListenerDies \/ Scan \/ \E m \in Payloads : Publish(m)
      PROVE  Fewer
  <2>1. UNCHANGED <<queue, received, sending>> /\ heard' \in {heard, Len(published)}
    BY <1>3 DEF Subscribe, ListenerDies, Scan, Publish, senders, records, redis, history
  <2> QED BY <1>0, <2>1 DEF Fewer
<1>4. ASSUME UNCHANGED vars
      PROVE  Fewer
  BY <1>0, <1>4 DEF vars, senders, records, redis, history, Fewer
<1> QED BY <1>1, <1>2, <1>3, <1>4 DEF Next, ClientStep

(* What a step does to a line keeps it ordered. *)
LEMMA OrderedFewer ==
  ASSUME NEW r \in Seq(Nat), NEW q \in Seq(Nat), NEW z \in Nat, NEW h \in Nat, NEW g \in Nat,
         NEW y \in {0, z}, h <= g, Ordered(r, z, q, h)
  PROVE  Ordered(r, y, q, g)
<1>1. /\ DOMAIN r = 1 .. Len(r) /\ \A j \in DOMAIN r : r[j] \in Nat
      /\ DOMAIN q = 1 .. Len(q) /\ \A k \in DOMAIN q : q[k] \in Nat
  BY LenProperties, ElementOfSeq
<1> QED BY <1>1 DEF Ordered

LEMMA OrderedEnqueued ==
  ASSUME NEW r \in Seq(Nat), NEW q \in Seq(Nat), NEW z \in Nat, NEW h \in Nat,
         Len(q) <= QueueSize, Ordered(r, z, q, h)
  PROVE  Ordered(r, z, Enqueued(q, h + 1), h + 1)
<1> DEFINE n == h + 1
           e == Enqueued(q, n)
           d == Lost(q)
<1>0. n \in Nat /\ n > h
  OBVIOUS
<1> HIDE DEF n
<1>1. /\ DOMAIN r = 1 .. Len(r) /\ (\A j \in DOMAIN r : r[j] \in Nat)
      /\ DOMAIN q = 1 .. Len(q) /\ (\A k \in DOMAIN q : q[k] \in Nat) /\ Len(q) \in Nat
  BY LenProperties, ElementOfSeq
<1>2. /\ e \in Seq(Nat) /\ Len(e) \in Nat \ {0} /\ e[Len(e)] = n
      /\ \A k \in 1 .. Len(e) - 1 : k + d \in 1 .. Len(q) /\ e[k] = q[k + d]
  <2>1. e \in Seq(Nat) /\ Len(e) \in Nat \ {0} /\ e[Len(e)] = n /\ Shifted(e, q)
    BY <1>0, EnqueuedLemma
  <2> QED BY <2>1 DEF Shifted
<1>3. d \in {0, 1}
  BY DEF Lost
<1>4. DOMAIN e = 1 .. Len(e)
  BY <1>2, LenProperties
<1> HIDE DEF e, d
<1>5. \A k \in 1 .. Len(e) : e[k] = n \/ (k + d \in DOMAIN q /\ e[k] = q[k + d])
  BY <1>1, <1>2, <1>3
<1>6. \A k \in DOMAIN e : e[k] = n \/ \E m \in DOMAIN q : e[k] = q[m]
  BY <1>4, <1>5
<1>7. Ascending(e)
  <2> SUFFICES ASSUME NEW i \in 1 .. Len(e), NEW j \in 1 .. Len(e), i < j
               PROVE  e[i] < e[j]
    BY <1>4 DEF Ascending
  <2>1. i \in 1 .. Len(e) - 1 /\ i + d \in 1 .. Len(q) /\ e[i] = q[i + d]
    BY <1>2, <1>3
  <2>2. CASE j = Len(e)
    <3>1. e[i] <= h /\ e[i] \in Nat
      BY <1>1, <2>1 DEF Ordered
    <3> QED BY <1>0, <1>2, <2>2, <3>1
  <2>3. CASE j # Len(e)
    <3>1. j + d \in 1 .. Len(q) /\ e[j] = q[j + d] /\ i + d < j + d
      <4>1. j \in 1 .. Len(e) - 1
        BY <1>2, <2>3
      <4> QED BY <1>2, <1>3, <2>1, <4>1
    <3> QED BY <1>1, <2>1, <3>1 DEF Ordered, Ascending
  <2> QED BY <2>2, <2>3
<1>8. \A j \in DOMAIN r, k \in DOMAIN e : r[j] < e[k]
  BY <1>0, <1>1, <1>6 DEF Ordered
<1>9. z # 0 => \A k \in DOMAIN e : z < e[k]
  BY <1>0, <1>1, <1>6 DEF Ordered
<1>10. /\ z <= n
       /\ \A j \in DOMAIN r : r[j] <= n
       /\ \A k \in DOMAIN e : e[k] <= n
  <2>1. z <= n /\ \A j \in DOMAIN r : r[j] <= n
    BY <1>0, <1>1 DEF Ordered
  <2>2. \A k \in DOMAIN e : e[k] <= n
    BY <1>0, <1>1, <1>6 DEF Ordered
  <2> QED BY <2>1, <2>2
<1>11. Ordered(r, z, e, n)
  BY <1>7, <1>8, <1>9, <1>10 DEF Ordered
<1> QED BY <1>11 DEF e, n

LEMMA OrderedTaken ==
  ASSUME NEW r \in Seq(Nat), NEW q \in Seq(Nat), NEW h \in Nat, q # <<>>, Ordered(r, 0, q, h)
  PROVE  Ordered(r, Head(q), Tail(q), h)
<1> DEFINE t == Tail(q)
<1>1. /\ DOMAIN r = 1 .. Len(r) /\ (\A j \in DOMAIN r : r[j] \in Nat)
      /\ DOMAIN q = 1 .. Len(q) /\ (\A k \in DOMAIN q : q[k] \in Nat) /\ Len(q) \in Nat \ {0}
  BY LenProperties, ElementOfSeq, EmptySeq
<1>2. /\ t \in Seq(Nat) /\ Len(t) = Len(q) - 1
      /\ \A k \in 1 .. Len(t) : t[k] = q[k + 1]
  BY HeadTailProperties
<1>3. DOMAIN t = 1 .. Len(t) /\ Head(q) = q[1]
  BY <1>2, LenProperties
<1> HIDE DEF t
<1>4. \A k \in DOMAIN t : k + 1 \in DOMAIN q /\ t[k] = q[k + 1] /\ 1 < k + 1
  <2> TAKE k \in DOMAIN t
  <2>1. k \in 1 .. Len(t)
    BY <1>3
  <2>2. k + 1 \in 1 .. Len(q) /\ 1 < k + 1
    <3>1. k \in 1 .. Len(q) - 1
      BY <1>2, <2>1
    <3> QED BY <1>1, <3>1
  <2>3. t[k] = q[k + 1]
    BY <1>2, <2>1
  <2> QED BY <1>1, <2>2, <2>3
<1>5. Ascending(t)
  BY <1>1, <1>3, <1>4 DEF Ordered, Ascending
<1>6. 1 \in DOMAIN q
  BY <1>1
<1>7. Ordered(r, q[1], t, h)
  BY <1>4, <1>5, <1>6 DEF Ordered, Ascending
<1> QED BY <1>3, <1>7 DEF t

LEMMA OrderedSent ==
  ASSUME NEW r \in Seq(Nat), NEW q \in Seq(Nat), NEW z \in Nat \ {0}, NEW h \in Nat,
         Ordered(r, z, q, h)
  PROVE  Ordered(Append(r, z), 0, q, h)
<1> DEFINE a == Append(r, z)
<1>1. /\ DOMAIN r = 1 .. Len(r) /\ (\A j \in DOMAIN r : r[j] \in Nat) /\ Len(r) \in Nat
  BY LenProperties, ElementOfSeq
<1>2. /\ a \in Seq(Nat) /\ Len(a) = Len(r) + 1
      /\ (\A k \in 1 .. Len(r) : a[k] = r[k]) /\ a[Len(r) + 1] = z
  BY AppendProperties
<1>3. DOMAIN a = 1 .. Len(r) + 1
  BY <1>2, LenProperties
<1> HIDE DEF a
<1>4. \A k \in DOMAIN a : IF k \in DOMAIN r THEN a[k] = r[k] ELSE k = Len(r) + 1 /\ a[k] = z
  <2> TAKE k \in DOMAIN a
  <2>1. k \in 1 .. Len(r) \/ k = Len(r) + 1
    BY <1>1, <1>3
  <2>2. Len(r) + 1 \notin 1 .. Len(r)
    BY <1>1
  <2> QED BY <1>1, <1>2, <2>1, <2>2
<1>5. Ascending(a)
  <2> SUFFICES ASSUME NEW j \in DOMAIN a, NEW k \in DOMAIN a, j < k
               PROVE  a[j] < a[k]
    BY DEF Ascending
  <2>1. j \in DOMAIN r /\ a[j] = r[j]
    <3>1. j # Len(r) + 1
      BY <1>1, <1>3
    <3> QED BY <1>4, <3>1
  <2>2. CASE k \in DOMAIN r
    <3>1. a[k] = r[k]
      BY <1>4, <2>2
    <3> QED BY <2>1, <2>2, <3>1 DEF Ordered, Ascending
  <2>3. CASE k \notin DOMAIN r
    <3>1. a[k] = z
      BY <1>4, <2>3
    <3> QED BY <2>1, <3>1 DEF Ordered
  <2> QED BY <2>2, <2>3
<1>6. /\ \A j \in DOMAIN a, k \in DOMAIN q : a[j] < q[k]
      /\ \A j \in DOMAIN a : a[j] <= h
  BY <1>4 DEF Ordered
<1>7. Ordered(a, 0, q, h)
  BY <1>5, <1>6 DEF Ordered
<1> QED BY <1>7 DEF a

LEMMA OrderStep == IInv /\ OrderOK /\ [Next]_vars => OrderOK'
<1> SUFFICES ASSUME IInv, OrderOK, [Next]_vars, NEW c \in Clients
             PROVE  Ordered(received[c], sending[c], queue[c], heard)'
  BY DEF OrderOK
<1>0. /\ TypeOK /\ TypeOK' /\ SendingOK
  BY InvStep DEF IInv
<1>1. /\ queue[c] \in Seq(Nat) /\ received[c] \in Seq(Nat) /\ sending[c] \in Nat /\ heard \in Nat
      /\ heard' \in Nat
  <2>1. Positions \subseteq Nat /\ queue[c] \in Seq(Positions) /\ received[c] \in Seq(Positions)
    BY <1>0, LineTypes DEF Positions
  <2>2. heard \in Nat /\ heard' \in Nat /\ sending[c] \in Nat
    BY <1>0, LineTypes DEF TypeOK, RedisOK
  <2> QED BY <2>1, <2>2, SeqMonotonic
<1>2. Ordered(received[c], sending[c], queue[c], heard)
  BY DEF OrderOK
<1>3. CASE Fewer
  <2>1. /\ received'[c] = received[c] /\ queue'[c] = queue[c] /\ sending'[c] \in {0, sending[c]}
        /\ heard <= heard'
    BY <1>3 DEF Fewer
  <2>2. Ordered(received[c], sending'[c], queue[c], heard')
    BY <1>1, <1>2, <2>1, OrderedFewer
  <2> QED BY <2>1, <2>2
<1>4. CASE Broadcast
  <2>1. /\ received' = received /\ sending' = sending /\ heard' = heard + 1
        /\ queue'[c] = queue[c] \/ queue'[c] = Enqueued(queue[c], heard + 1)
    BY <1>4 DEF Broadcast, senders, history
  <2>2. Len(queue[c]) <= QueueSize
    BY <1>0 DEF TypeOK, RecordsOK
  <2>3. Ordered(received[c], sending[c], Enqueued(queue[c], heard + 1), heard + 1)
    BY <1>1, <1>2, <2>2, OrderedEnqueued
  <2>4. Ordered(received[c], sending[c], queue[c], heard + 1)
    <3>1. heard + 1 \in Nat /\ heard <= heard + 1
      BY <1>1
    <3> QED BY <1>1, <1>2, <3>1, OrderedFewer
  <2> QED BY <2>1, <2>3, <2>4
<1>5. ASSUME NEW d \in Clients, StartSend(d) \/ Sent(d)
      PROVE  Ordered(received[c], sending[c], queue[c], heard)'
  <2>0. /\ sending \in [Clients -> 0 .. Len(published)] /\ DOMAIN queue = Clients
        /\ DOMAIN received = Clients
    BY <1>0 DEF TypeOK, SendersOK, RecordsOK, HistoryOK
  <2>1. CASE d # c
    <3>1. /\ received'[c] = received[c] /\ queue'[c] = queue[c] /\ sending'[c] = sending[c]
          /\ heard' = heard
      BY <1>5, <2>0, <2>1 DEF StartSend, Sent, redis, history
    <3> QED BY <1>2, <3>1
  <2>2. CASE StartSend(c)
    <3>1. /\ queue[c] # <<>> /\ sender[c] = "wait" /\ received' = received /\ heard' = heard
          /\ sending'[c] = Head(queue[c]) /\ queue'[c] = Tail(queue[c])
      BY <2>0, <2>2 DEF StartSend, redis, history
    <3>2. sending[c] = 0
      BY <1>0, <3>1 DEF SendingOK
    <3>3. Ordered(received[c], Head(queue[c]), Tail(queue[c]), heard)
      BY <1>1, <1>2, <3>1, <3>2, OrderedTaken
    <3> QED BY <3>1, <3>3
  <2>3. CASE Sent(c)
    <3>1. /\ sender[c] = "send" /\ queue' = queue /\ heard' = heard /\ sending'[c] = 0
          /\ received'[c] = Append(received[c], sending[c])
      BY <2>0, <2>3 DEF Sent, redis
    <3>2. sending[c] \in Nat \ {0}
      BY <1>0, <1>1, <3>1 DEF SendingOK
    <3>3. Ordered(Append(received[c], sending[c]), 0, queue[c], heard)
      BY <1>1, <1>2, <3>2, OrderedSent
    <3> QED BY <3>1, <3>3
  <2> QED BY <1>5, <2>1, <2>2, <2>3
<1> QED BY <1>0, <1>3, <1>4, <1>5, Movers

LEMMA OrderInit == Init => OrderOK
<1> SUFFICES ASSUME Init, NEW c \in Clients
             PROVE  Ordered(received[c], sending[c], queue[c], heard)
  BY DEF OrderOK
<1>1. received[c] = <<>> /\ sending[c] = 0 /\ queue[c] = <<>> /\ heard = 0
  BY DEF Init
<1>2. DOMAIN <<>> = {}
  BY EmptySeq, LenProperties
<1> QED BY <1>1, <1>2 DEF Ordered, Ascending

(* A value of one of two sequences.                                        *)
Holding(a, b, x) == (\E j \in DOMAIN a : a[j] = x) \/ (\E j \in DOMAIN b : b[j] = x)

(* What two sequences one after the other hold, one of them holds.         *)
LEMMA ConcatElements ==
  ASSUME NEW S, NEW a \in Seq(S), NEW b \in Seq(S), NEW k \in DOMAIN (a \o b)
  PROVE  Holding(a, b, (a \o b)[k])
<1> SUFFICES (\E j \in DOMAIN a : a[j] = (a \o b)[k]) \/ (\E j \in DOMAIN b : b[j] = (a \o b)[k])
  BY DEF Holding
<1> DEFINE ab == a \o b
<1>1. /\ DOMAIN a = 1 .. Len(a) /\ Len(a) \in Nat
      /\ DOMAIN b = 1 .. Len(b) /\ Len(b) \in Nat
  BY LenProperties
<1>2. /\ ab \in Seq(S) /\ Len(ab) = Len(a) + Len(b)
      /\ \A i \in 1 .. Len(a) + Len(b) : ab[i] = IF i <= Len(a) THEN a[i] ELSE b[i - Len(a)]
  BY ConcatProperties
<1>3. k \in 1 .. Len(a) + Len(b)
  BY <1>2, LenProperties
<1> HIDE DEF ab
<1>4. CASE k <= Len(a)
  <2>1. k \in DOMAIN a /\ ab[k] = a[k]
    BY <1>1, <1>2, <1>3, <1>4
  <2> QED BY <2>1 DEF ab
<1>5. CASE ~(k <= Len(a))
  <2>1. k - Len(a) \in DOMAIN b /\ ab[k] = b[k - Len(a)]
    BY <1>1, <1>2, <1>3, <1>5
  <2> QED BY <2>1 DEF ab
<1> QED BY <1>4, <1>5

(* Ascending sequences, the second above the first, one after the other.   *)
LEMMA AscendingConcat ==
  ASSUME NEW a \in Seq(Nat), NEW b \in Seq(Nat), Ascending(a), Ascending(b),
         \A j \in DOMAIN a, k \in DOMAIN b : a[j] < b[k]
  PROVE  /\ a \o b \in Seq(Nat) /\ Ascending(a \o b)
         /\ \A k \in DOMAIN (a \o b) : \/ \E j \in DOMAIN a : (a \o b)[k] = a[j]
                                       \/ \E j \in DOMAIN b : (a \o b)[k] = b[j]
<1> DEFINE ab == a \o b
<1>1. /\ DOMAIN a = 1 .. Len(a) /\ Len(a) \in Nat
      /\ DOMAIN b = 1 .. Len(b) /\ Len(b) \in Nat
  BY LenProperties
<1>2. /\ ab \in Seq(Nat) /\ Len(ab) = Len(a) + Len(b)
      /\ \A i \in 1 .. Len(a) + Len(b) : ab[i] = IF i <= Len(a) THEN a[i] ELSE b[i - Len(a)]
  BY ConcatProperties
<1>3. DOMAIN ab = 1 .. Len(a) + Len(b)
  BY <1>2, LenProperties
<1> HIDE DEF ab
<1>4. \A k \in DOMAIN ab : IF k <= Len(a) THEN k \in DOMAIN a /\ ab[k] = a[k]
                           ELSE k - Len(a) \in DOMAIN b /\ ab[k] = b[k - Len(a)]
  BY <1>1, <1>2, <1>3
<1>5. Ascending(ab)
  <2> SUFFICES ASSUME NEW i \in DOMAIN ab, NEW j \in DOMAIN ab, i < j
               PROVE  ab[i] < ab[j]
    BY DEF Ascending
  <2>1. CASE j <= Len(a)
    BY <1>1, <1>3, <1>4, <2>1 DEF Ascending
  <2>2. CASE i <= Len(a) /\ ~(j <= Len(a))
    BY <1>1, <1>3, <1>4, <2>2
  <2>3. CASE ~(i <= Len(a))
    <3>1. ~(j <= Len(a)) /\ i - Len(a) < j - Len(a)
      BY <1>1, <1>3, <2>3
    <3> QED BY <1>4, <2>3, <3>1 DEF Ascending
  <2> QED BY <2>1, <2>2, <2>3
<1> QED BY <1>2, <1>4, <1>5 DEF ab

LEMMA OrderedIsAscending ==
  ASSUME NEW r \in Seq(Nat), NEW q \in Seq(Nat), NEW z \in Nat, NEW h \in Nat, Ordered(r, z, q, h)
  PROVE  Ascending(r \o (IF z = 0 THEN <<>> ELSE <<z>>) \o q)
<1> DEFINE m == IF z = 0 THEN <<>> ELSE <<z>>
           rm == r \o m
<1>1. /\ m \in Seq(Nat) /\ Ascending(m)
      /\ \A k \in DOMAIN m : m[k] = z /\ z # 0
  <2>1. CASE z = 0
    <3>1. m = <<>> /\ DOMAIN m = {}
      BY <2>1, EmptySeq, LenProperties
    <3> QED BY <3>1, EmptySeq DEF Ascending
  <2>2. CASE z # 0
    <3>1. m = <<z>> /\ DOMAIN m = {1} /\ m[1] = z
      BY <2>2
    <3>2. m \in Seq(Nat)
      BY <3>1
    <3> HIDE DEF m
    <3> QED BY <2>2, <3>1, <3>2 DEF Ascending
  <2> QED BY <2>1, <2>2
<1> HIDE DEF m
<1>2. /\ rm \in Seq(Nat) /\ Ascending(rm)
      /\ \A k \in DOMAIN rm : \/ \E j \in DOMAIN r : rm[k] = r[j]
                             \/ \E j \in DOMAIN m : rm[k] = m[j]
  <2>1. Ascending(r) /\ \A j \in DOMAIN r, k \in DOMAIN m : r[j] < m[k]
    BY <1>1 DEF Ordered
  <2> QED BY <1>1, <2>1, AscendingConcat
<1> HIDE DEF rm
<1>3. \A k \in DOMAIN rm, j \in DOMAIN q : rm[k] < q[j]
  BY <1>1, <1>2 DEF Ordered
<1>4. Ascending(q)
  BY DEF Ordered
<1>5. Ascending(rm \o q)
  BY <1>2, <1>3, <1>4, AscendingConcat
<1> QED BY <1>5 DEF rm, m

(* A socket gets messages in the order they were published and none twice, *)
(* whatever its queue drops and however often the listener is restarted.   *)
THEOREM InOrderTheorem == Spec => []InOrder
<1>1. IInv /\ OrderOK => InOrder
  <2> SUFFICES ASSUME TypeOK, OrderOK, NEW c \in Clients
               PROVE  Ascending(received[c] \o (IF sending[c] = 0 THEN <<>> ELSE <<sending[c]>>)
                                \o queue[c])
    BY DEF IInv, InOrder
  <2>1. Positions \subseteq Nat /\ queue[c] \in Seq(Positions) /\ received[c] \in Seq(Positions)
        /\ sending[c] \in Nat /\ heard \in Nat
    BY LineTypes DEF Positions
  <2>2. queue[c] \in Seq(Nat) /\ received[c] \in Seq(Nat)
    BY <2>1, SeqMonotonic
  <2> QED BY <2>1, <2>2, OrderedIsAscending DEF OrderOK
<1> QED BY <1>1, InvInit, InvStep, OrderInit, OrderStep, PTL DEF Spec

-----------------------------------------------------------------------------
(* What a socket carries it carried before, or the listener just queued.   *)
LEMMA CarriedStep ==
  ASSUME TypeOK, TypeOK', [Next]_vars, NEW c \in Clients, NEW i \in Positions', Carries(c, i)'
  PROVE  \/ i \in Positions /\ Carries(c, i)
         \/ i \in Positions /\ c \in Addressed(published[i]) /\ UNCHANGED <<published, user, been>>
<1>0. i # 0
  BY DEF Positions
<1>1. /\ queue[c] \in Seq(Positions) /\ received[c] \in Seq(Positions)
      /\ Len(queue[c]) \in Nat /\ DOMAIN queue[c] = 1 .. Len(queue[c])
      /\ Len(received[c]) \in Nat /\ DOMAIN received[c] = 1 .. Len(received[c])
      /\ heard \in Nat
  BY LineTypes
<1>a. /\ DOMAIN queue = Clients /\ DOMAIN received = Clients /\ DOMAIN sending = Clients
      /\ Len(queue[c]) <= QueueSize
  BY DEF TypeOK, RecordsOK, SendersOK, HistoryOK
<1>2. SUFFICES \/ Carries(c, i)
               \/ i \in Positions /\ c \in Addressed(published[i]) /\ UNCHANGED <<published, user, been>>
  BY <1>0, CarriedIsPublished
<1>3. CASE Fewer
  BY <1>0, <1>3 DEF Fewer, Carries
<1>4. CASE Broadcast
  <2> DEFINE n == heard + 1
             to == Addressed(published[n])
  <2>1. /\ UNCHANGED <<sending, received, published, user, been>> /\ n \in Positions
        /\ queue'[c] = IF c \in to THEN Enqueued(queue[c], n) ELSE queue[c]
    BY <1>1, <1>a, <1>4 DEF Broadcast, senders, history, TypeOK, RedisOK, Positions
  <2>2. CASE c \notin to
    BY <2>1, <2>2 DEF Carries
  <2>3. CASE c \in to
    <3> DEFINE q == queue[c]
               e == Enqueued(q, n)
    <3> HIDE DEF n
    <3>1. /\ e \in Seq(Positions) /\ Len(e) \in Nat \ {0} /\ e[Len(e)] = n /\ Shifted(e, q)
      BY <1>1, <1>a, <2>1, EnqueuedLemma
    <3>2. queue'[c] = e /\ DOMAIN e = 1 .. Len(e)
      BY <2>1, <2>3, <3>1, LenProperties
    <3>3. ASSUME NEW k \in DOMAIN e, e[k] # n
          PROVE  \E j \in DOMAIN q : q[j] = e[k]
      <4>1. k \in 1 .. Len(e) - 1
        BY <3>1, <3>2, <3>3
      <4> QED BY <1>1, <3>1, <4>1 DEF Shifted
    <3> HIDE DEF e, to
    <3>4. CASE i = n
      BY <2>1, <2>3, <3>4 DEF to
    <3>5. CASE i # n
      BY <2>1, <3>2, <3>3, <3>5 DEF Carries
    <3> QED BY <3>4, <3>5
  <2> QED BY <2>2, <2>3
<1>5. ASSUME NEW d \in Clients, StartSend(d)
      PROVE  Carries(c, i)
  <2>1. CASE d = c
    <3> DEFINE q == queue[c]
    <3>1. /\ q # <<>> /\ received'[c] = received[c] /\ sending'[c] = Head(q) /\ queue'[c] = Tail(q)
      BY <1>1, <1>a, <1>5, <2>1 DEF StartSend, history
    <3>2. /\ Tail(q) \in Seq(Positions) /\ Len(Tail(q)) = Len(q) - 1
          /\ \A k \in 1 .. Len(Tail(q)) : Tail(q)[k] = q[k + 1]
      BY <1>1, <3>1, HeadTailProperties
    <3>3. Head(q) = q[1] /\ DOMAIN Tail(q) = 1 .. Len(Tail(q)) /\ Len(q) # 0
      BY <1>1, <3>1, <3>2, LenProperties, EmptySeq
    <3>4. \A k \in DOMAIN Tail(q) : k + 1 \in DOMAIN q /\ Tail(q)[k] = q[k + 1]
      BY <1>1, <3>2, <3>3
    <3>5. 1 \in DOMAIN q
      BY <1>1, <3>3
    <3> QED BY <3>1, <3>3, <3>4, <3>5 DEF Carries
  <2>2. CASE d # c
    <3>1. /\ received'[c] = received[c] /\ queue'[c] = queue[c] /\ sending'[c] = sending[c]
      BY <1>1, <1>a, <1>5, <2>2 DEF StartSend, history
    <3> QED BY <3>1 DEF Carries
  <2> QED BY <2>1, <2>2
<1>6. ASSUME NEW d \in Clients, Sent(d)
      PROVE  Carries(c, i)
  <2>1. CASE d = c
    <3> DEFINE r == received[c]
    <3>1. /\ queue'[c] = queue[c] /\ sending'[c] = 0 /\ received'[c] = Append(r, sending[c])
      BY <1>1, <1>a, <1>6, <2>1 DEF Sent
    <3>2. /\ Len(Append(r, sending[c])) = Len(r) + 1
          /\ \A k \in 1 .. Len(r) : Append(r, sending[c])[k] = r[k]
          /\ Append(r, sending[c])[Len(r) + 1] = sending[c]
          /\ Append(r, sending[c]) \in Seq(Nat)
      <4>1. Positions \subseteq Nat /\ sending[c] \in Nat
        BY LineTypes DEF Positions
      <4>2. r \in Seq(Nat)
        BY <1>1, <4>1, SeqMonotonic
      <4> QED BY <4>1, <4>2, AppendProperties
    <3>3. DOMAIN Append(r, sending[c]) = 1 .. Len(r) + 1
      BY <3>2, LenProperties
    <3>4. \A k \in DOMAIN Append(r, sending[c]) :
            \/ k \in DOMAIN r /\ Append(r, sending[c])[k] = r[k]
            \/ Append(r, sending[c])[k] = sending[c]
      BY <1>1, <3>2, <3>3
    <3> QED BY <1>0, <3>1, <3>4 DEF Carries
  <2>2. CASE d # c
    <3>1. /\ received'[c] = received[c] /\ queue'[c] = queue[c] /\ sending'[c] = sending[c]
      BY <1>1, <1>a, <1>6, <2>2 DEF Sent
    <3> QED BY <3>1 DEF Carries
  <2> QED BY <2>1, <2>2
<1> QED BY <1>3, <1>4, <1>5, <1>6, Movers

LEMMA AlertsStep == IInv /\ AlertsOK /\ [Next]_vars => AlertsOK'
<1> SUFFICES ASSUME IInv, AlertsOK, [Next]_vars, NEW c \in Clients
             PROVE  /\ user'[c] \in been'[c] \cup {Nobody}
                    /\ \A i \in Positions' :
                         Carries(c, i)' => published'[i].owner \in been'[c] \cup {Nobody}
  BY DEF AlertsOK
<1>0. TypeOK /\ TypeOK'
  BY InvStep DEF IInv
<1>1. /\ been[c] \subseteq been'[c]
      /\ user'[c] \in been'[c] \cup {Nobody}
  <2>1. user[c] \in been[c] \cup {Nobody} /\ DOMAIN user = Clients /\ DOMAIN been = Clients
    BY <1>0 DEF AlertsOK, TypeOK, RecordsOK, HistoryOK
  <2>2. ASSUME NEW d \in Clients, SetUser(d)
        PROVE  been[c] \subseteq been'[c] /\ user'[c] \in been'[c] \cup {Nobody}
    <3>1. CASE d \in conns
      <4>1. /\ user' = [user EXCEPT ![d] = token[d]]
            /\ been' = [been EXCEPT ![d] = @ \cup ({token[d]} \ {Nobody})]
        BY <2>2, <3>1 DEF SetUser
      <4> QED BY <2>1, <4>1
    <3>2. CASE d \notin conns
      BY <2>1, <2>2, <3>2 DEF SetUser
    <3> QED BY <3>1, <3>2
  <2>3. UNCHANGED <<user, been>> \/ \E d \in Clients : SetUser(d)
    <3>1. ASSUME NEW d \in Clients, ClientStep(d)
          PROVE  UNCHANGED <<user, been>> \/ SetUser(d)
      <4>1. CASE Admit(d) \/ Connect(d) \/ AcceptFails(d) \/ Receive(d) \/ SetUser(d) \/ Hangup(d)
        BY <4>1 DEF Admit, Connect, AcceptFails, Receive, Hangup, records, history
      <4>2. CASE Leave(d) \/ StartSend(d) \/ Sent(d) \/ SendFails(d) \/ SenderLeave(d) \/ GoIdle(d)
        BY <4>2 DEF Leave, StartSend, Sent, SendFails, SenderLeave, GoIdle, records, history
      <4>3. CASE \/ \E u \in Users \cup {Nobody} : Authenticate(d, u)
                 \/ \E t \in Background : Evict(t, d)
                 \/ \E t \in Tasks : FinishDisconnect(d, t)
        BY <4>3 DEF Authenticate, Evict, FinishDisconnect, records, history
      <4> QED BY <3>1, <4>1, <4>2, <4>3 DEF ClientStep
    <3>2. CASE \/ \E m \in Payloads : Publish(m)
               \/ Subscribe \/ Broadcast \/ ListenerDies \/ Scan
      BY <3>2 DEF Publish, Subscribe, Broadcast, ListenerDies, Scan, records, history
    <3>3. CASE UNCHANGED vars
      BY <3>3 DEF vars, records, history
    <3> QED BY <3>1, <3>2, <3>3 DEF Next
  <2> QED BY <2>1, <2>2, <2>3
<1>2. \A i \in Positions : published'[i] = published[i]
  <2>1. UNCHANGED published \/ \E m \in Payloads : published' = Append(published, m)
    BY DEF Next, ClientStep, Admit, Connect, AcceptFails, Receive, Authenticate, SetUser, Hangup,
           Leave, StartSend, Sent, SendFails, SenderLeave, GoIdle, Evict, FinishDisconnect, Publish,
           Subscribe, Broadcast, ListenerDies, Scan, redis, vars
  <2>2. published \in Seq(Payloads)
    BY <1>0 DEF TypeOK, RedisOK
  <2> QED BY <2>1, <2>2, AppendProperties DEF Positions
<1>3. ASSUME NEW i \in Positions', Carries(c, i)'
      PROVE  published'[i].owner \in been'[c] \cup {Nobody}
  <2>1. CASE i \in Positions /\ Carries(c, i)
    BY <1>1, <1>2, <2>1 DEF AlertsOK
  <2>2. CASE i \in Positions /\ c \in Addressed(published[i]) /\ UNCHANGED <<published, user, been>>
    BY <2>2 DEF AlertsOK, Addressed
  <2> QED BY <1>0, <1>3, <2>1, <2>2, CarriedStep
<1> QED BY <1>1, <1>3

LEMMA AlertsInit == Init => AlertsOK
<1> SUFFICES ASSUME Init PROVE AlertsOK
  OBVIOUS
<1>1. Positions = {}
  BY EmptySeq DEF Init, Positions
<1> QED BY <1>1 DEF Init, AlertsOK

(* An alert is only queued for, or sent to, a socket that authenticated as *)
(* its owner at some time.                                                 *)
THEOREM NoAlertToStrangerTheorem == Spec => []NoAlertToStranger
<1>1. IInv /\ AlertsOK => NoAlertToStranger
  <2> SUFFICES ASSUME TypeOK, AlertsOK, NEW c \in Clients, NEW i \in Positions,
                      published[i].owner # Nobody,
                      NEW k \in DOMAIN (received[c] \o queue[c]), (received[c] \o queue[c])[k] = i
               PROVE  published[i].owner \in been[c]
    BY DEF IInv, NoAlertToStranger
  <2>1. queue[c] \in Seq(Positions) /\ received[c] \in Seq(Positions)
    BY LineTypes
  <2>2. Holding(received[c], queue[c], (received[c] \o queue[c])[k])
    BY <2>1, ConcatElements
  <2>3. Carries(c, i)
    BY <2>2 DEF Holding, Carries
  <2> QED BY <2>3 DEF AlertsOK
<1> QED BY <1>1, InvInit, InvStep, AlertsInit, AlertsStep, PTL DEF Spec

=============================================================================
