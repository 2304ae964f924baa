---------------------------- MODULE DurableStream ----------------------------
(***************************************************************************)
(* The durable event stream: one Redis stream with one consumer group, the *)
(* producers that XADD to it and the processes that run                    *)
(* run_durable_consumer on it (shared/infrastructure/event_bus/streams.py  *)
(* and consumer.py).  The pricing subscriber and the alert subscriber are  *)
(* two instances of it.                                                    *)
(*                                                                         *)
(* An entry is named by its position in `log', which stands for its Redis  *)
(* ID; positions at or below `trimmed' are no longer in Redis.  A consumer *)
(* handles the entries of a batch in ID order, so a batch is a set.        *)
(***************************************************************************)
EXTENDS Naturals, Sequences, FiniteSets

CONSTANTS Messages,    \* the events that producers publish, each once
          Consumers,   \* the consumer processes of the group
          MaxRetries,  \* DurableEventStream max_retries
          BatchSize,   \* batch_size, the COUNT of XREADGROUP
          ClaimCount,  \* the COUNT of XAUTOCLAIM
          MaxLen,      \* the approximate MAXLEN of every XADD
          Budget       \* bound on each kind of fault in one behaviour

FaultKinds == {"crash", "slow", "error", "wipe"}

ASSUME ConstantsAssumption ==
  /\ MaxRetries \in Nat
  /\ BatchSize \in Nat \ {0}
  /\ ClaimCount \in Nat \ {0}
  /\ MaxLen \in Nat \ {0}
  /\ Budget \in [FaultKinds -> Nat]

VARIABLES
  log,       \* every entry ever added to the stream
  trimmed,   \* the last position Redis has dropped
  group,     \* does the consumer group exist?
  base,      \* the position the group was created at: older history is skipped
  cursor,    \* the group's last-delivered-id
  pel,       \* the Pending Entries List: delivered, not acknowledged
  stale,     \* the pending entries idle for min_idle_ms or longer
  dlq,       \* all that was put in the dead-letter stream since Redis has its data
  pc,        \* where each consumer is in run_durable_consumer
  batch,     \* the messages of its loop pass not yet settled
  current,   \* the message it is settling
  claimDue,  \* have claim_every_seconds passed since its last_claim?
  handled,   \* history: how often the handler returned for each message
  failures,  \* history: how often the handler raised for each message
  faults     \* history: faults of each kind so far, at most Budget

redis     == <<log, trimmed, group, base, cursor, pel, stale, dlq>>
consumers == <<pc, batch, current, claimDue>>
history   == <<handled, failures, faults>>
vars      == <<redis, consumers, history>>

Entries == 1 .. Len(log)
Entry   == [msg: Messages, retry: 0 .. MaxRetries]
Dead    == [msg: Messages, entry: Nat, retry: Nat]
Stages  == {"down", "poll", "read", "handle", "failed", "ack"}

RedisOK ==
  /\ log \in Seq(Entry)
  /\ trimmed \in 0 .. Len(log)
  /\ group \in BOOLEAN
  /\ base \in 0 .. Len(log)
  /\ cursor \in 0 .. Len(log)
  /\ pel \in SUBSET Entries
  /\ stale \in SUBSET pel
  /\ dlq \in Seq(Dead)

\* What a consumer settles is an entry of the stream.
ConsumersOK ==
  /\ pc \in [Consumers -> Stages]
  /\ batch \in [Consumers -> SUBSET Entries]
  /\ current \in [Consumers -> 0 .. Len(log)]
  /\ claimDue \in [Consumers -> BOOLEAN]
  /\ \A c \in Consumers : pc[c] \in {"failed", "ack"} => current[c] \in Entries

HistoryOK ==
  /\ handled \in [Messages -> Nat]
  /\ failures \in [Messages -> Nat]
  /\ faults \in [FaultKinds -> Nat]

TypeOK == RedisOK /\ ConsumersOK /\ HistoryOK

Init ==
  /\ log = <<>> /\ trimmed = 0 /\ group = FALSE /\ base = 0 /\ cursor = 0
  /\ pel = {} /\ stale = {} /\ dlq = <<>>
  /\ pc = [c \in Consumers |-> "down"]
  /\ batch = [c \in Consumers |-> {}]
  /\ current = [c \in Consumers |-> 0]
  /\ claimDue = [c \in Consumers |-> FALSE]
  /\ handled = [m \in Messages |-> 0]
  /\ failures = [m \in Messages |-> 0]
  /\ faults = [k \in FaultKinds |-> 0]

Spend(k) ==
  /\ faults[k] < Budget[k]
  /\ faults' = [faults EXCEPT ![k] = @ + 1]

-----------------------------------------------------------------------------
(* Redis commands. *)

\* XADD ... MAXLEN ~: the oldest entries may go, at least MaxLen stay.
Xadd(e) ==
  /\ log' = Append(log, e)
  /\ \E t \in trimmed .. Len(log) :
       /\ t = trimmed \/ t + MaxLen <= Len(log) + 1
       /\ trimmed' = t

\* XREADGROUP ">": the next BatchSize entries never delivered to the group.
Oldest == IF cursor < trimmed THEN trimmed ELSE cursor
NewestUncapped == Oldest + BatchSize          \* mutant of Newest: no end of the stream
Newest == IF Oldest + BatchSize < Len(log) THEN Oldest + BatchSize ELSE Len(log)
Fresh  == Oldest + 1 .. Newest

\* Mutant of Deliver: XREADGROUP with NOACK.
DeliverNoAck ==
  /\ cursor' = IF Fresh = {} THEN cursor ELSE Newest
  /\ UNCHANGED <<log, trimmed, group, base, pel, stale, dlq>>

Deliver ==
  /\ pel' = pel \cup Fresh
  /\ cursor' = IF Fresh = {} THEN cursor ELSE Newest
  /\ UNCHANGED <<log, trimmed, group, base, stale, dlq>>

\* XAUTOCLAIM from 0-0: up to ClaimCount idle entries; pending entries that
\* were trimmed leave the list.
ClaimableNone == {}                           \* mutant of Claimable: nothing reclaimed
ClaimableBusy == {i \in pel : i > trimmed}     \* mutant of Claimable: min_idle_time = 0
Claimable ==
  LET idle == {i \in stale : i > trimmed}
  IN  {i \in idle : Cardinality({j \in idle : j < i}) < ClaimCount}

Reassign ==
  /\ pel' = {i \in pel : i > trimmed}
  /\ stale' = {i \in stale : i > trimmed} \ Claimable
  /\ UNCHANGED <<log, trimmed, group, base, cursor, dlq>>

-----------------------------------------------------------------------------
(* DurableEventStream.publish, called by a producer. *)
Publish(m) ==
  /\ \A i \in Entries : log[i].msg # m
  /\ Xadd([msg |-> m, retry |-> 0])
  /\ UNCHANGED <<group, base, cursor, pel, stale, dlq, consumers, history>>

(* A process starts: ensure_group at "$", a new consumer name, last_claim 0. *)
Start(c) ==
  /\ pc[c] = "down"
  /\ pc' = [pc EXCEPT ![c] = "poll"]
  /\ claimDue' = [claimDue EXCEPT ![c] = TRUE]
  /\ group' = TRUE
  /\ IF group THEN UNCHANGED <<base, cursor>>
     ELSE base' = Len(log) /\ cursor' = Len(log)
  /\ UNCHANGED <<log, trimmed, pel, stale, dlq, batch, current, history>>

(* claim_every_seconds have passed; only the head of the loop looks. *)
ClaimTimer(c) ==
  /\ pc[c] = "poll" /\ ~claimDue[c]
  /\ claimDue' = [claimDue EXCEPT ![c] = TRUE]
  /\ UNCHANGED <<redis, pc, batch, current, history>>

(* claim_stale at the head of a loop pass. *)
Claim(c) ==
  /\ pc[c] = "poll" /\ claimDue[c] /\ group
  /\ Reassign
  /\ batch' = [batch EXCEPT ![c] = Claimable]
  /\ claimDue' = [claimDue EXCEPT ![c] = FALSE]
  /\ pc' = [pc EXCEPT ![c] = "read"]
  /\ UNCHANGED <<current, history>>

ReadyToRead(c) == pc[c] = "read" \/ (pc[c] = "poll" /\ ~claimDue[c])

(* read_group; an empty pass goes back to the head of the loop. *)
Read(c) ==
  /\ ReadyToRead(c) /\ group
  /\ Deliver
  /\ LET messages == batch[c] \cup Fresh
     IN  /\ batch' = [batch EXCEPT ![c] = messages]
         /\ pc' = [pc EXCEPT ![c] = IF messages = {} THEN "poll" ELSE "handle"]
  /\ UNCHANGED <<current, claimDue, history>>

(* claim_stale or read_group raises, before Redis ran the command or after. *)
(* The pass starts over and the list of messages claimed so far is dropped. *)
NextPass(c) ==
  /\ batch' = [batch EXCEPT ![c] = {}]
  /\ pc' = [pc EXCEPT ![c] = "poll"]

ClaimError(c) ==
  /\ pc[c] = "poll" /\ claimDue[c]
  /\ \/ group /\ Spend("error") /\ (Reassign \/ UNCHANGED redis)
     \/ ~group /\ UNCHANGED <<redis, faults>>
  /\ NextPass(c)
  /\ claimDue' = [claimDue EXCEPT ![c] = FALSE]
  /\ UNCHANGED <<current, handled, failures>>

ReadError(c) ==
  /\ ReadyToRead(c)
  /\ \/ group /\ Spend("error") /\ (Deliver \/ UNCHANGED redis)
     \/ ~group /\ UNCHANGED <<redis, faults>>
  /\ NextPass(c)
  /\ UNCHANGED <<current, claimDue, handled, failures>>

IsFirst(i, S) == i \in S /\ \A j \in S : i <= j

(* The handler returns. *)
HandleOk(c) ==
  /\ pc[c] = "handle"
  /\ \E i \in batch[c] :
       /\ IsFirst(i, batch[c])
       /\ current' = [current EXCEPT ![c] = i]
       /\ handled' = [handled EXCEPT ![log[i].msg] = @ + 1]
  /\ pc' = [pc EXCEPT ![c] = "ack"]
  /\ UNCHANGED <<redis, batch, claimDue, failures, faults>>

(* The handler raises. *)
HandleFail(c) ==
  /\ pc[c] = "handle"
  /\ \E i \in batch[c] :
       /\ IsFirst(i, batch[c])
       /\ current' = [current EXCEPT ![c] = i]
       /\ failures' = [failures EXCEPT ![log[i].msg] = @ + 1]
  /\ pc' = [pc EXCEPT ![c] = "failed"]
  /\ UNCHANGED <<redis, batch, claimDue, handled, faults>>

(* retry_or_dead_letter before its ack: a copy at the tail of the stream. *)
Requeue(c) ==
  /\ pc[c] = "failed"
  /\ LET e == log[current[c]]
     IN  /\ e.retry + 1 <= MaxRetries
         /\ Xadd([msg |-> e.msg, retry |-> e.retry + 1])
  /\ pc' = [pc EXCEPT ![c] = "ack"]
  /\ UNCHANGED <<group, base, cursor, pel, stale, dlq, batch, current, claimDue,
                 history>>

(* Mutant of DeadLetter: next_retry >= max_retries. *)
DeadLetterEarly(c) ==
  /\ pc[c] = "failed"
  /\ log[current[c]].retry + 1 >= MaxRetries
  /\ dlq' = Append(dlq, [msg |-> log[current[c]].msg, entry |-> current[c],
                         retry |-> log[current[c]].retry + 1])
  /\ pc' = [pc EXCEPT ![c] = "ack"]
  /\ UNCHANGED <<log, trimmed, group, base, cursor, pel, stale, batch, current,
                 claimDue, history>>

(* retry_or_dead_letter before its ack: an entry in the dead-letter stream. *)
DeadLetter(c) ==
  /\ pc[c] = "failed"
  /\ LET e == log[current[c]]
     IN  /\ e.retry + 1 > MaxRetries
         /\ dlq' = Append(dlq, [msg |-> e.msg, entry |-> current[c],
                                retry |-> e.retry + 1])
  /\ pc' = [pc EXCEPT ![c] = "ack"]
  /\ UNCHANGED <<log, trimmed, group, base, cursor, pel, stale, batch, current,
                 claimDue, history>>

(* XACK, after the handler or after the copy. *)
Ack(c) ==
  /\ pc[c] = "ack"
  /\ pel' = pel \ {current[c]}
  /\ stale' = stale \ {current[c]}
  /\ batch' = [batch EXCEPT ![c] = @ \ {current[c]}]
  /\ pc' = [pc EXCEPT ![c] = IF batch'[c] = {} THEN "poll" ELSE "handle"]
  /\ current' = [current EXCEPT ![c] = 0]
  /\ UNCHANGED <<log, trimmed, group, base, cursor, dlq, claimDue, history>>

-----------------------------------------------------------------------------
(* The environment. *)

\* The process dies: killed, or by a Redis error in ack or retry_or_dead_letter.
Crash(c) ==
  /\ pc[c] # "down" /\ Spend("crash")
  /\ pc' = [pc EXCEPT ![c] = "down"]
  /\ batch' = [batch EXCEPT ![c] = {}]
  /\ current' = [current EXCEPT ![c] = 0]
  /\ claimDue' = [claimDue EXCEPT ![c] = FALSE]
  /\ UNCHANGED <<redis, handled, failures>>

Held(i) == \E c \in Consumers : i \in batch[c]

\* min_idle_ms pass since the delivery of i. A consumer that still holds i then
\* was slow.
Expire(i) ==
  /\ i \in pel \ stale
  /\ stale' = stale \cup {i}
  /\ IF Held(i) THEN Spend("slow") ELSE UNCHANGED faults
  /\ UNCHANGED <<log, trimmed, group, base, cursor, pel, dlq, consumers, handled,
                 failures>>

\* Redis restarts from a snapshot older than the stream and its group.
Wipe ==
  /\ group /\ Spend("wipe")
  /\ trimmed' = Len(log) /\ base' = Len(log) /\ cursor' = Len(log)
  /\ group' = FALSE /\ pel' = {} /\ stale' = {} /\ dlq' = <<>>
  /\ UNCHANGED <<log, consumers, handled, failures>>

Step(c) ==
  \/ Start(c) \/ ClaimTimer(c) \/ Claim(c) \/ Read(c) \/ ClaimError(c) \/ ReadError(c)
  \/ HandleOk(c) \/ HandleFail(c) \/ Requeue(c) \/ DeadLetter(c) \/ Ack(c) \/ Crash(c)

Next ==
  \/ \E m \in Messages : Publish(m)
  \/ \E c \in Consumers : Step(c)
  \/ \E i \in pel : Expire(i)
  \/ Wipe

Spec == Init /\ [][Next]_vars

(***************************************************************************)
(* Fairness: supervisord restarts a dead consumer (autorestart=true), the  *)
(* loop of a live one goes on, its handler ends (every await in it has a   *)
(* timeout) and time passes, so an entry nobody holds becomes idle.        *)
(* Producers, faults and slow handlers are under no obligation.            *)
(***************************************************************************)
Fairness ==
  /\ \A c \in Consumers :
       /\ WF_vars(Start(c))
       /\ WF_vars(ClaimTimer(c))
       /\ WF_vars(Claim(c))
       /\ WF_vars(Read(c))
       /\ WF_vars(HandleOk(c) \/ HandleFail(c))
       /\ WF_vars(Requeue(c) \/ DeadLetter(c))
       /\ WF_vars(Ack(c))
  /\ WF_vars(\E i \in pel : ~Held(i) /\ Expire(i))

FairSpec == Spec /\ Fairness

-----------------------------------------------------------------------------
(* What happened to a message, over all of its entries. *)

Of(m)        == {i \in Entries : log[i].msg = m}
Outstanding(i) == i > trimmed /\ (i > cursor \/ i \in pel)
IsOpen(m)    == \E i \in Of(m) : Outstanding(i)
Handled(m)   == handled[m] > 0
DeadLettered(m) == \E k \in DOMAIN dlq : dlq[k].msg = m
Waived(m)    == \E i \in Of(m) : i <= trimmed \/ i <= base

(* No message vanishes: whatever crashes, claims, retries and lost replies *)
(* come between its steps, a message in the stream was handled, is in the  *)
(* dead-letter stream or still has an entry some consumer will get, unless *)
(* an entry of it was trimmed or is older than the group.  consumer.py     *)
(* acknowledges last, retry_or_dead_letter acknowledges after its XADD.    *)
NoSilentLoss ==
  \A m \in Messages :
    Of(m) # {} => IsOpen(m) \/ Handled(m) \/ DeadLettered(m) \/ Waived(m)

(* A dead letter is a message whose handler raised max_retries + 1 times:  *)
(* claims, crashes and redeliveries do not use up the retries.             *)
DeadLetterAfterAllRetries ==
  \A k \in DOMAIN dlq : failures[dlq[k].msg] >= MaxRetries + 1

Ends(m) == handled[m] + Cardinality({k \in DOMAIN dlq : dlq[k].msg = m})

(* A message ends (is handled or dead-lettered) once, and once more at     *)
(* most for each crash and each handler slower than min_idle_ms: without   *)
(* those faults the stream delivers exactly once, retries and lost reads   *)
(* included.                                                               *)
DuplicatesNeedFaults ==
  \A m \in Messages : Ends(m) <= 1 + faults["crash"] + faults["slow"]

(* While Redis keeps the group, every message in the stream is handled or  *)
(* dead-lettered at last, or was trimmed or published before the group     *)
(* existed.                                                                *)
EventuallySettled ==
  \A m \in Messages :
    Of(m) # {} ~> Handled(m) \/ DeadLettered(m) \/ Waived(m) \/ faults["wipe"] > 0

(* README.md: "Redis Streams consumer groups with acknowledgement, retries,*)
(* dead-letter streams and reclaim of stalled messages".  The same also    *)
(* after Redis was restarted.                                              *)
SettledAfterRestart ==
  \A m \in Messages :
    Of(m) # {} ~> Handled(m) \/ DeadLettered(m) \/ Waived(m)

(* The abstract specification: at-least-once delivery of each message.     *)
ALO == INSTANCE AtLeastOnce WITH
         open   <- {m \in Messages : IsOpen(m)},
         done   <- {m \in Messages : Handled(m)},
         dead   <- {m \in Messages : DeadLettered(m)},
         waived <- {m \in Messages : Waived(m)}

(* The stream and its consumers implement at-least-once delivery.          *)
ImplementsAtLeastOnce == ALO!Spec
=============================================================================
