------------------------- MODULE DurableStreamProofs -------------------------
(***************************************************************************)
(* Proofs about DurableStream, for every number of messages, consumers and *)
(* retries, every batch size and every budget of faults.                   *)
(***************************************************************************)
EXTENDS DurableStream, SequenceTheorems, FiniteSetTheorems, WellFoundedInduction, TLAPS

-----------------------------------------------------------------------------
(* What XADD does to the log. *)
LEMMA XaddLemma ==
  ASSUME RedisOK, NEW e \in Entry, Xadd(e)
  PROVE  /\ log' \in Seq(Entry)
         /\ Len(log') = Len(log) + 1
         /\ \A i \in Entries : log'[i] = log[i]
         /\ log'[Len(log) + 1] = e
         /\ Entries' = Entries \cup {Len(log) + 1}
         /\ trimmed' \in trimmed .. Len(log)
<1>1. /\ log \in Seq(Entry) /\ Len(log) \in Nat /\ trimmed \in 0 .. Len(log)
  BY DEF RedisOK
<1>2. /\ log' = Append(log, e)
      /\ trimmed' \in trimmed .. Len(log)
  BY DEF Xadd
<1>3. /\ log' \in Seq(Entry)
      /\ Len(log') = Len(log) + 1
      /\ \A i \in 1 .. Len(log) : log'[i] = log[i]
      /\ log'[Len(log) + 1] = e
  BY <1>1, <1>2, AppendProperties
<1>4. 1 .. (Len(log) + 1) = (1 .. Len(log)) \cup {Len(log) + 1}
  BY <1>1
<1> QED BY <1>1, <1>2, <1>3, <1>4 DEF Entries

LEMMA SpendLemma ==
  ASSUME HistoryOK, NEW k \in FaultKinds, Spend(k)
  PROVE  faults' \in [FaultKinds -> Nat]
  BY DEF HistoryOK, Spend

LEMMA FaultKindsLemma == {"crash", "slow", "error", "wipe"} \subseteq FaultKinds
  BY DEF FaultKinds

(* The read and claim commands keep the types of Redis's state. *)
LEMMA DeliverLemma ==
  ASSUME RedisOK, Deliver, ConstantsAssumption
  PROVE  /\ RedisOK'
         /\ Fresh \subseteq Entries
         /\ Len(log') = Len(log)
<1>1. /\ Len(log) \in Nat /\ trimmed \in 0 .. Len(log) /\ cursor \in 0 .. Len(log)
      /\ BatchSize \in Nat
  BY DEF RedisOK, ConstantsAssumption
<1>2. Oldest \in Nat /\ Newest \in 0 .. Len(log)
  BY <1>1 DEF Oldest, Newest
<1>3. Fresh \subseteq Entries
  BY <1>1, <1>2 DEF Fresh, Entries
<1> QED BY <1>1, <1>2, <1>3 DEF Deliver, RedisOK, Entries

LEMMA ReassignLemma ==
  ASSUME RedisOK, Reassign
  PROVE  /\ RedisOK'
         /\ Claimable \subseteq Entries
         /\ Len(log') = Len(log)
<1>1. Claimable \subseteq stale
  BY DEF Claimable
<1> QED BY <1>1 DEF Reassign, RedisOK, Entries

-----------------------------------------------------------------------------
LEMMA TypeInit == Init => TypeOK
<1> SUFFICES ASSUME Init PROVE TypeOK
  OBVIOUS
<1>0. Len(log) = 0
  BY EmptySeq DEF Init
<1>1. log = <<>> /\ dlq = <<>>
  BY DEF Init
<1>2. RedisOK
  <2>1. log \in Seq(Entry) /\ dlq \in Seq(Dead)
    BY <1>1, EmptySeq
  <2>2. trimmed = 0 /\ group = FALSE /\ base = 0 /\ cursor = 0 /\ pel = {} /\ stale = {}
    BY DEF Init
  <2>3. /\ trimmed \in 0 .. Len(log) /\ base \in 0 .. Len(log) /\ cursor \in 0 .. Len(log)
    BY <1>0, <2>2
  <2>4. group \in BOOLEAN /\ pel \subseteq Entries /\ stale \subseteq pel
    BY <2>2
  <2> QED BY <2>1, <2>3, <2>4 DEF RedisOK
<1>3. ConsumersOK
  BY <1>0 DEF Init, ConsumersOK, Entries, Stages
<1>4. HistoryOK
  BY DEF Init, HistoryOK
<1> QED BY <1>2, <1>3, <1>4 DEF TypeOK

LEMMA TypeStep == TypeOK /\ [Next]_vars => TypeOK'
<1> SUFFICES ASSUME TypeOK, [Next]_vars
             PROVE  TypeOK'
  OBVIOUS
<1> USE ConstantsAssumption, FaultKindsLemma
<1>0. RedisOK /\ ConsumersOK /\ HistoryOK /\ Len(log) \in Nat
  BY DEF TypeOK, RedisOK
<1>1. ASSUME NEW m \in Messages, Publish(m)
      PROVE  TypeOK'
  <2>1. [msg |-> m, retry |-> 0] \in Entry
    BY DEF Entry, ConstantsAssumption
  <2>2. /\ log' \in Seq(Entry) /\ Len(log') = Len(log) + 1
        /\ Entries' = Entries \cup {Len(log) + 1}
        /\ trimmed' \in trimmed .. Len(log)
    BY <1>0, <1>1, <2>1, XaddLemma DEF Publish
  <2>3. RedisOK'
    BY <1>0, <1>1, <2>2 DEF Publish, RedisOK
  <2>4. ConsumersOK'
    BY <1>0, <1>1, <2>2 DEF Publish, ConsumersOK, consumers
  <2>5. HistoryOK'
    BY <1>0, <1>1 DEF Publish, HistoryOK, history
  <2> QED BY <2>3, <2>4, <2>5 DEF TypeOK
<1>2. ASSUME NEW c \in Consumers, Start(c)
      PROVE  TypeOK'
  <2>1. RedisOK'
    BY <1>0, <1>2 DEF Start, RedisOK, Entries
  <2>2. ConsumersOK'
    BY <1>0, <1>2 DEF Start, ConsumersOK, Entries, Stages
  <2>3. HistoryOK'
    BY <1>0, <1>2 DEF Start, HistoryOK, history
  <2> QED BY <2>1, <2>2, <2>3 DEF TypeOK
<1>3. ASSUME NEW c \in Consumers, ClaimTimer(c)
      PROVE  TypeOK'
  <2>1. RedisOK'
    BY <1>0, <1>3 DEF ClaimTimer, RedisOK, Entries, redis
  <2>2. ConsumersOK'
    BY <1>0, <1>3 DEF ClaimTimer, ConsumersOK, Entries, redis
  <2>3. HistoryOK'
    BY <1>0, <1>3 DEF ClaimTimer, HistoryOK, history
  <2> QED BY <2>1, <2>2, <2>3 DEF TypeOK
<1>4. ASSUME NEW c \in Consumers, Claim(c)
      PROVE  TypeOK'
  <2>1. RedisOK'
    BY <1>0, <1>4, ReassignLemma DEF Claim
  <2>2. ConsumersOK'
    BY <1>0, <1>4, ReassignLemma DEF Claim, Reassign, ConsumersOK, Entries, Stages
  <2>3. HistoryOK'
    BY <1>0, <1>4 DEF Claim, HistoryOK, history
  <2> QED BY <2>1, <2>2, <2>3 DEF TypeOK
<1>5. ASSUME NEW c \in Consumers, Read(c)
      PROVE  TypeOK'
  <2>1. RedisOK'
    BY <1>0, <1>5, DeliverLemma DEF Read
  <2>2. ConsumersOK'
    BY <1>0, <1>5, DeliverLemma DEF Read, Deliver, ConsumersOK, Entries, Stages
  <2>3. HistoryOK'
    BY <1>0, <1>5 DEF Read, HistoryOK, history
  <2> QED BY <2>1, <2>2, <2>3 DEF TypeOK
<1>6. ASSUME NEW c \in Consumers, ClaimError(c)
      PROVE  TypeOK'
  <2>1. RedisOK'
    BY <1>0, <1>6, ReassignLemma DEF ClaimError, redis, RedisOK, Entries
  <2>2. ConsumersOK'
    BY <1>0, <1>6 DEF ClaimError, NextPass, Reassign, redis, ConsumersOK, Entries, Stages
  <2>3. HistoryOK'
    BY <1>0, <1>6, SpendLemma DEF ClaimError, HistoryOK
  <2> QED BY <2>1, <2>2, <2>3 DEF TypeOK
<1>7. ASSUME NEW c \in Consumers, ReadError(c)
      PROVE  TypeOK'
  <2>1. RedisOK'
    BY <1>0, <1>7, DeliverLemma DEF ReadError, redis, RedisOK, Entries
  <2>2. ConsumersOK'
    BY <1>0, <1>7 DEF ReadError, NextPass, Deliver, redis, ConsumersOK, Entries, Stages
  <2>3. HistoryOK'
    BY <1>0, <1>7, SpendLemma DEF ReadError, HistoryOK
  <2> QED BY <2>1, <2>2, <2>3 DEF TypeOK
<1>8. ASSUME NEW c \in Consumers, HandleOk(c)
      PROVE  TypeOK'
  <2> PICK i \in batch[c] : /\ current' = [current EXCEPT ![c] = i]
                               /\ handled' = [handled EXCEPT ![log[i].msg] = @ + 1]
    BY <1>8 DEF HandleOk
  <2>1. /\ i \in Entries /\ i \in 0 .. Len(log)
        /\ current' = [current EXCEPT ![c] = i]
        /\ pc' = [pc EXCEPT ![c] = "ack"]
        /\ log' = log /\ batch' = batch /\ claimDue' = claimDue
    BY <1>0, <1>8 DEF HandleOk, ConsumersOK, Entries, redis
  <2>2. log[i].msg \in Messages
    <3>1. log[i] \in Entry
      BY <1>0, <2>1 DEF RedisOK, Entries
    <3> QED BY <3>1 DEF Entry
  <2>3. RedisOK'
    BY <1>0, <1>8 DEF HandleOk, redis, RedisOK, Entries
  <2>4. ConsumersOK'
    BY <1>0, <1>8, <2>1 DEF ConsumersOK, Entries, Stages
  <2>5. HistoryOK'
    <3>1. UNCHANGED <<failures, faults>>
      BY <1>8 DEF HandleOk
    <3>2. handled \in [Messages -> Nat]
      BY <1>0 DEF HistoryOK
    <3>3. handled' \in [Messages -> Nat]
      BY <2>2, <3>2
    <3> QED BY <1>0, <3>1, <3>3 DEF HistoryOK
  <2> QED BY <2>3, <2>4, <2>5 DEF TypeOK
<1>9. ASSUME NEW c \in Consumers, HandleFail(c)
      PROVE  TypeOK'
  <2> PICK i \in batch[c] : /\ current' = [current EXCEPT ![c] = i]
                               /\ failures' = [failures EXCEPT ![log[i].msg] = @ + 1]
    BY <1>9 DEF HandleFail
  <2>1. /\ i \in Entries /\ i \in 0 .. Len(log)
        /\ current' = [current EXCEPT ![c] = i]
        /\ pc' = [pc EXCEPT ![c] = "failed"]
        /\ log' = log /\ batch' = batch /\ claimDue' = claimDue
    BY <1>0, <1>9 DEF HandleFail, ConsumersOK, Entries, redis
  <2>2. log[i].msg \in Messages
    <3>1. log[i] \in Entry
      BY <1>0, <2>1 DEF RedisOK, Entries
    <3> QED BY <3>1 DEF Entry
  <2>3. RedisOK'
    BY <1>0, <1>9 DEF HandleFail, redis, RedisOK, Entries
  <2>4. ConsumersOK'
    BY <1>0, <1>9, <2>1 DEF ConsumersOK, Entries, Stages
  <2>5. HistoryOK'
    <3>1. UNCHANGED <<handled, faults>>
      BY <1>9 DEF HandleFail
    <3>2. failures \in [Messages -> Nat]
      BY <1>0 DEF HistoryOK
    <3>3. failures' \in [Messages -> Nat]
      BY <2>2, <3>2
    <3> QED BY <1>0, <3>1, <3>3 DEF HistoryOK
  <2> QED BY <2>3, <2>4, <2>5 DEF TypeOK
<1>10. ASSUME NEW c \in Consumers, Requeue(c)
      PROVE  TypeOK'
  <2> DEFINE e == log[current[c]]
             copy == [msg |-> e.msg, retry |-> e.retry + 1]
  <2>1. current[c] \in Entries /\ e \in Entry /\ copy \in Entry /\ Xadd(copy)
    <3>1. current[c] \in Entries /\ e \in Entry
      BY <1>0, <1>10 DEF Requeue, ConsumersOK, RedisOK, Entries
    <3> QED BY <3>1, <1>10 DEF Requeue, Entry, ConstantsAssumption
  <2>2. /\ log' \in Seq(Entry) /\ Len(log') = Len(log) + 1
        /\ Entries' = Entries \cup {Len(log) + 1}
        /\ trimmed' \in trimmed .. Len(log)
    BY <1>0, <2>1, XaddLemma
  <2>3. RedisOK'
    BY <1>0, <1>10, <2>2 DEF Requeue, RedisOK
  <2>4. ConsumersOK'
    BY <1>0, <1>10, <2>2 DEF Requeue, ConsumersOK, Stages
  <2>5. HistoryOK'
    BY <1>0, <1>10 DEF Requeue, HistoryOK, history
  <2> QED BY <2>3, <2>4, <2>5 DEF TypeOK
<1>11. ASSUME NEW c \in Consumers, DeadLetter(c)
      PROVE  TypeOK'
  <2> DEFINE e == log[current[c]]
             letter == [msg |-> e.msg, entry |-> current[c], retry |-> e.retry + 1]
  <2>1. letter \in Dead /\ dlq' = Append(dlq, letter)
    <3>1. current[c] \in Entries /\ e \in Entry
      BY <1>0, <1>11 DEF DeadLetter, ConsumersOK, RedisOK, Entries
    <3> QED BY <1>0, <3>1, <1>11 DEF DeadLetter, Dead, Entry, Entries
  <2>2. dlq' \in Seq(Dead)
    BY <1>0, <2>1, AppendProperties DEF RedisOK
  <2>3. RedisOK'
    BY <1>0, <1>11, <2>2 DEF DeadLetter, RedisOK, Entries
  <2>4. ConsumersOK'
    BY <1>0, <1>11 DEF DeadLetter, ConsumersOK, Entries, Stages
  <2>5. HistoryOK'
    BY <1>0, <1>11 DEF DeadLetter, HistoryOK, history
  <2> QED BY <2>3, <2>4, <2>5 DEF TypeOK
<1>12. ASSUME NEW c \in Consumers, Ack(c)
      PROVE  TypeOK'
  <2>1. RedisOK'
    BY <1>0, <1>12 DEF Ack, RedisOK, Entries
  <2>2. ConsumersOK'
    BY <1>0, <1>12 DEF Ack, ConsumersOK, Entries, Stages
  <2>3. HistoryOK'
    BY <1>0, <1>12 DEF Ack, HistoryOK, history
  <2> QED BY <2>1, <2>2, <2>3 DEF TypeOK
<1>13. ASSUME NEW c \in Consumers, Crash(c)
      PROVE  TypeOK'
  <2>1. RedisOK'
    BY <1>0, <1>13 DEF Crash, redis, RedisOK, Entries
  <2>2. ConsumersOK'
    BY <1>0, <1>13 DEF Crash, redis, ConsumersOK, Entries, Stages
  <2>3. HistoryOK'
    BY <1>0, <1>13, SpendLemma DEF Crash, HistoryOK
  <2> QED BY <2>1, <2>2, <2>3 DEF TypeOK
<1>14. ASSUME NEW i \in pel, Expire(i)
      PROVE  TypeOK'
  <2>1. RedisOK'
    BY <1>0, <1>14 DEF Expire, RedisOK, Entries
  <2>2. ConsumersOK'
    BY <1>0, <1>14 DEF Expire, consumers, ConsumersOK, Entries
  <2>3. HistoryOK'
    BY <1>0, <1>14, SpendLemma DEF Expire, HistoryOK
  <2> QED BY <2>1, <2>2, <2>3 DEF TypeOK
<1>15. ASSUME Wipe
      PROVE  TypeOK'
  <2>1. RedisOK'
    <3>1. dlq' = <<>> /\ dlq' \in Seq(Dead)
      BY <1>15, EmptySeq DEF Wipe
    <3>2. /\ trimmed' = Len(log) /\ base' = Len(log) /\ cursor' = Len(log)
          /\ group' = FALSE /\ pel' = {} /\ stale' = {} /\ log' = log
      BY <1>15 DEF Wipe
    <3>3. log' \in Seq(Entry) /\ Len(log') = Len(log)
      BY <1>0, <3>2 DEF RedisOK
    <3>4. trimmed' \in 0 .. Len(log') /\ base' \in 0 .. Len(log') /\ cursor' \in 0 .. Len(log')
      BY <1>0, <3>2, <3>3
    <3>5. group' \in BOOLEAN /\ pel' \subseteq Entries' /\ stale' \subseteq pel'
      BY <3>2
    <3> QED BY <3>1, <3>3, <3>4, <3>5 DEF RedisOK
  <2>2. ConsumersOK'
    BY <1>0, <1>15 DEF Wipe, consumers, ConsumersOK, Entries
  <2>3. HistoryOK'
    BY <1>0, <1>15, SpendLemma DEF Wipe, HistoryOK
  <2> QED BY <2>1, <2>2, <2>3 DEF TypeOK
<1>16. ASSUME UNCHANGED vars
      PROVE  TypeOK'
  <2>1. RedisOK'
    BY <1>0, <1>16 DEF vars, redis, RedisOK, Entries
  <2>2. ConsumersOK'
    BY <1>0, <1>16 DEF vars, redis, consumers, ConsumersOK, Entries
  <2>3. HistoryOK'
    BY <1>0, <1>16 DEF vars, history, HistoryOK
  <2> QED BY <2>1, <2>2, <2>3 DEF TypeOK
<1> QED
  BY <1>1, <1>2, <1>3, <1>4, <1>5, <1>6, <1>7, <1>8, <1>9, <1>10, <1>11, <1>12, <1>13,
     <1>14, <1>15, <1>16 DEF Next, Step

(* Every variable keeps its type, in particular every entry of the pending *)
(* list, of a batch and under settlement is an entry of the stream.        *)
THEOREM TypeCorrect == Spec => []TypeOK
  BY TypeInit, TypeStep, PTL DEF Spec

-----------------------------------------------------------------------------
(***************************************************************************)
(* No message vanishes.  NoSilentLoss is not inductive: after an ack it    *)
(* rests on another entry of the message, and that one on the next copy.   *)
(* The invariant speaks of each entry: it can still be delivered, or its   *)
(* message has ended or been waived, or a later entry carries the message. *)
(* The last entry of a message has no later one, which gives NoSilentLoss. *)
(***************************************************************************)
Covered(i) ==
  \/ i <= trimmed \/ i <= base
  \/ Handled(log[i].msg)
  \/ DeadLettered(log[i].msg)
  \/ \E j \in Entries : i < j /\ log[j].msg = log[i].msg

Accounted == \A i \in Entries : Outstanding(i) \/ Covered(i)

\* An entry is acknowledged once it is covered.
AckSafe == \A c \in Consumers : pc[c] = "ack" => Covered(current[c])

LossInv == TypeOK /\ Accounted /\ AckSafe

(* Covered entries stay covered as long as nothing but the ends of         *)
(* messages is added, the log grows at its tail and the bounds only rise.  *)
LEMMA CoveredStable ==
  ASSUME TypeOK, TypeOK',
         Entries \subseteq Entries', \A i \in Entries : log'[i] = log[i],
         trimmed <= trimmed', base <= base',
         \A m \in Messages : Handled(m) => Handled(m)',
         \A m \in Messages : DeadLettered(m) => DeadLettered(m)',
         NEW i \in Entries, Covered(i)
  PROVE  Covered(i)'
<1>1. /\ Entries \subseteq Nat /\ trimmed \in Nat /\ trimmed' \in Nat
      /\ base \in Nat /\ base' \in Nat
  BY DEF TypeOK, RedisOK, Entries
<1>2. log[i].msg \in Messages
  <2>1. log[i] \in Entry
    BY ElementOfSeq DEF TypeOK, RedisOK, Entries
  <2> QED BY <2>1 DEF Entry
<1>3. CASE i <= trimmed \/ i <= base
  BY <1>1, <1>3 DEF Covered
<1>4. CASE Handled(log[i].msg)
  BY <1>2, <1>4 DEF Covered
<1>5. CASE DeadLettered(log[i].msg)
  BY <1>2, <1>5 DEF Covered
<1>6. CASE \E j \in Entries : i < j /\ log[j].msg = log[i].msg
  BY <1>6 DEF Covered
<1> QED BY <1>3, <1>4, <1>5, <1>6 DEF Covered

(* A dead letter stays in the dead-letter stream when another is appended. *)
LEMMA DeadLetteredAppend ==
  ASSUME dlq \in Seq(Dead), NEW d \in Dead, dlq' = Append(dlq, d)
  PROVE  /\ \A m : DeadLettered(m) => DeadLettered(m)'
         /\ DeadLettered(d.msg)'
<1>1. /\ Len(dlq) \in Nat /\ dlq' \in Seq(Dead) /\ Len(dlq') = Len(dlq) + 1
      /\ \A k \in 1 .. Len(dlq) : dlq'[k] = dlq[k]
      /\ dlq'[Len(dlq) + 1] = d
  BY AppendProperties
<1>2. DOMAIN dlq = 1 .. Len(dlq) /\ DOMAIN dlq' = 1 .. Len(dlq) + 1
  BY <1>1, LenProperties
<1> QED BY <1>1, <1>2 DEF DeadLettered

(* XADD keeps every entry accounted for: the trimmed ones are waived.      *)
LEMMA XaddAccounts ==
  ASSUME TypeOK, TypeOK', Accounted, NEW e \in Entry, Xadd(e),
         UNCHANGED <<base, cursor, pel, dlq, handled>>
  PROVE  Accounted' /\ \A i \in Entries : Covered(i) => Covered(i)'
<1>0. /\ Len(log) \in Nat /\ trimmed \in Nat /\ base \in Nat /\ cursor \in 0 .. Len(log)
      /\ Entries \subseteq Nat
  BY DEF TypeOK, RedisOK, Entries
<1>1. /\ \A i \in Entries : log'[i] = log[i]
      /\ Entries' = Entries \cup {Len(log) + 1}
      /\ trimmed' \in trimmed .. Len(log)
  BY XaddLemma DEF TypeOK
<1>2. /\ \A m \in Messages : Handled(m) => Handled(m)'
      /\ \A m \in Messages : DeadLettered(m) => DeadLettered(m)'
  BY DEF Handled, DeadLettered
<1>3. /\ trimmed <= trimmed' /\ base <= base' /\ trimmed' < Len(log) + 1
      /\ trimmed' \in Nat /\ cursor' = cursor /\ pel' = pel
  BY <1>0, <1>1
<1>4. \A i \in Entries : Covered(i) => Covered(i)'
  BY <1>1, <1>2, <1>3, CoveredStable
<1>5. \A k \in Entries' \ Entries : Outstanding(k)'
  BY <1>0, <1>1, <1>3 DEF Outstanding
<1>6. \A i \in Entries : Outstanding(i) => Outstanding(i)' \/ Covered(i)'
  BY <1>0, <1>3 DEF Outstanding, Covered
<1> QED BY <1>1, <1>4, <1>5, <1>6 DEF Accounted

LEMMA XaddLoss ==
  ASSUME TypeOK, TypeOK', Accounted, AckSafe, NEW e \in Entry, Xadd(e),
         UNCHANGED <<base, cursor, pel, dlq, handled, pc, current>>
  PROVE  Accounted' /\ AckSafe'
  BY XaddAccounts DEF AckSafe, TypeOK, ConsumersOK

LEMMA LossInit == Init => LossInv
<1> SUFFICES ASSUME Init PROVE LossInv
  OBVIOUS
<1>1. TypeOK
  BY TypeInit
<1>2. Entries = {}
  <2>1. Len(log) = 0
    BY EmptySeq DEF Init
  <2> QED BY <2>1 DEF Entries
<1>3. AckSafe
  BY DEF Init, AckSafe
<1> QED BY <1>1, <1>2, <1>3 DEF LossInv, Accounted

LEMMA LossStep == LossInv /\ [Next]_vars => LossInv'
<1> SUFFICES ASSUME LossInv, [Next]_vars
             PROVE  LossInv'
  OBVIOUS
<1> USE ConstantsAssumption
<1>0. /\ TypeOK /\ Accounted /\ AckSafe /\ TypeOK'
      /\ Len(log) \in Nat /\ Entries \subseteq Nat
      /\ trimmed \in 0 .. Len(log) /\ base \in 0 .. Len(log) /\ cursor \in 0 .. Len(log)
  BY TypeStep DEF LossInv, TypeOK, RedisOK, Entries
\* The steps that change neither the log nor what has ended.
<1>q. ASSUME UNCHANGED <<log, dlq>>, trimmed <= trimmed', base <= base',
             \A m \in Messages : Handled(m) => Handled(m)',
             NEW i \in Entries, Covered(i)
      PROVE  Covered(i)'
  <2>1. \A m \in Messages : DeadLettered(m) => DeadLettered(m)'
    BY <1>q DEF DeadLettered
  <2>2. Entries \subseteq Entries' /\ \A j \in Entries : log'[j] = log[j]
    BY <1>q DEF Entries
  <2> QED BY <1>0, <1>q, <2>1, <2>2, CoveredStable
<1>1. ASSUME NEW m \in Messages, Publish(m)
      PROVE  Accounted' /\ AckSafe'
  <2> DEFINE e == [msg |-> m, retry |-> 0]
  <2>1. e \in Entry /\ Xadd(e) /\ UNCHANGED <<base, cursor, pel, dlq, pc, current, handled>>
    BY <1>1 DEF Publish, Entry, consumers, history
  <2> QED BY <1>0, <2>1, XaddLoss
<1>2. ASSUME NEW c \in Consumers, Start(c)
      PROVE  Accounted' /\ AckSafe'
  <2>1. UNCHANGED <<log, dlq, handled>> /\ trimmed <= trimmed' /\ base <= base'
    BY <1>0, <1>2 DEF Start, history
  <2>2. \A i \in Entries : Covered(i) => Covered(i)'
    BY <1>0, <1>q, <2>1 DEF Handled
  <2>3. \A i \in Entries : Outstanding(i) => Outstanding(i)' \/ Covered(i)'
    BY <1>0, <1>2, <2>1 DEF Start, history, Outstanding, Covered, Entries
  <2>4. \A b \in Consumers : pc'[b] = "ack" => pc[b] = "ack" /\ current'[b] = current[b]
    BY <1>0, <1>2 DEF Start, history, TypeOK, ConsumersOK
  <2> QED BY <1>0, <2>1, <2>2, <2>3, <2>4 DEF Accounted, AckSafe, TypeOK, ConsumersOK, Entries
<1>3. ASSUME NEW c \in Consumers, ClaimTimer(c)
      PROVE  Accounted' /\ AckSafe'
  <2>1. UNCHANGED <<log, dlq, handled>> /\ trimmed <= trimmed' /\ base <= base'
    BY <1>0, <1>3 DEF ClaimTimer, redis, history
  <2>2. \A i \in Entries : Covered(i) => Covered(i)'
    BY <1>0, <1>q, <2>1 DEF Handled
  <2>3. \A i \in Entries : Outstanding(i) => Outstanding(i)' \/ Covered(i)'
    BY <1>0, <1>3, <2>1 DEF ClaimTimer, redis, history, Outstanding, Covered, Entries
  <2>4. \A b \in Consumers : pc'[b] = "ack" => pc[b] = "ack" /\ current'[b] = current[b]
    BY <1>0, <1>3 DEF ClaimTimer, redis, history, TypeOK, ConsumersOK
  <2> QED BY <1>0, <2>1, <2>2, <2>3, <2>4 DEF Accounted, AckSafe, TypeOK, ConsumersOK, Entries
<1>4. ASSUME NEW c \in Consumers, Claim(c)
      PROVE  Accounted' /\ AckSafe'
  <2>1. UNCHANGED <<log, dlq, handled>> /\ trimmed <= trimmed' /\ base <= base'
    BY <1>0, <1>4 DEF Claim, Reassign, history
  <2>2. \A i \in Entries : Covered(i) => Covered(i)'
    BY <1>0, <1>q, <2>1 DEF Handled
  <2>3. \A i \in Entries : Outstanding(i) => Outstanding(i)' \/ Covered(i)'
    BY <1>0, <1>4, <2>1 DEF Claim, Reassign, history, Outstanding, Covered, Entries
  <2>4. \A b \in Consumers : pc'[b] = "ack" => pc[b] = "ack" /\ current'[b] = current[b]
    BY <1>0, <1>4 DEF Claim, Reassign, history, TypeOK, ConsumersOK
  <2> QED BY <1>0, <2>1, <2>2, <2>3, <2>4 DEF Accounted, AckSafe, TypeOK, ConsumersOK, Entries
<1>5. ASSUME NEW c \in Consumers, Read(c)
      PROVE  Accounted' /\ AckSafe'
  <2>1. UNCHANGED <<log, dlq, handled>> /\ trimmed <= trimmed' /\ base <= base'
    BY <1>0, <1>5 DEF Read, Deliver, Fresh, Oldest, Newest, history
  <2>2. \A i \in Entries : Covered(i) => Covered(i)'
    BY <1>0, <1>q, <2>1 DEF Handled
  <2>3. \A i \in Entries : Outstanding(i) => Outstanding(i)' \/ Covered(i)'
    BY <1>0, <1>5, <2>1 DEF Read, Deliver, Fresh, Oldest, Newest, history, Outstanding, Covered, Entries
  <2>4. \A b \in Consumers : pc'[b] = "ack" => pc[b] = "ack" /\ current'[b] = current[b]
    BY <1>0, <1>5 DEF Read, Deliver, Fresh, Oldest, Newest, history, TypeOK, ConsumersOK
  <2> QED BY <1>0, <2>1, <2>2, <2>3, <2>4 DEF Accounted, AckSafe, TypeOK, ConsumersOK, Entries
<1>6. ASSUME NEW c \in Consumers, ClaimError(c)
      PROVE  Accounted' /\ AckSafe'
  <2>1. UNCHANGED <<log, dlq, handled>> /\ trimmed <= trimmed' /\ base <= base'
    BY <1>0, <1>6 DEF ClaimError, NextPass, Reassign, redis
  <2>2. \A i \in Entries : Covered(i) => Covered(i)'
    BY <1>0, <1>q, <2>1 DEF Handled
  <2>3. \A i \in Entries : Outstanding(i) => Outstanding(i)' \/ Covered(i)'
    BY <1>0, <1>6, <2>1 DEF ClaimError, NextPass, Reassign, redis, Outstanding, Covered, Entries
  <2>4. \A b \in Consumers : pc'[b] = "ack" => pc[b] = "ack" /\ current'[b] = current[b]
    BY <1>0, <1>6 DEF ClaimError, NextPass, Reassign, redis, TypeOK, ConsumersOK
  <2> QED BY <1>0, <2>1, <2>2, <2>3, <2>4 DEF Accounted, AckSafe, TypeOK, ConsumersOK, Entries
<1>7. ASSUME NEW c \in Consumers, ReadError(c)
      PROVE  Accounted' /\ AckSafe'
  <2>1. UNCHANGED <<log, dlq, handled>> /\ trimmed <= trimmed' /\ base <= base'
    BY <1>0, <1>7 DEF ReadError, NextPass, Deliver, Fresh, Oldest, Newest, redis
  <2>2. \A i \in Entries : Covered(i) => Covered(i)'
    BY <1>0, <1>q, <2>1 DEF Handled
  <2>3. \A i \in Entries : Outstanding(i) => Outstanding(i)' \/ Covered(i)'
    BY <1>0, <1>7, <2>1 DEF ReadError, NextPass, Deliver, Fresh, Oldest, Newest, redis, Outstanding, Covered, Entries
  <2>4. \A b \in Consumers : pc'[b] = "ack" => pc[b] = "ack" /\ current'[b] = current[b]
    BY <1>0, <1>7 DEF ReadError, NextPass, Deliver, Fresh, Oldest, Newest, redis, TypeOK, ConsumersOK
  <2> QED BY <1>0, <2>1, <2>2, <2>3, <2>4 DEF Accounted, AckSafe, TypeOK, ConsumersOK, Entries
<1>8. ASSUME NEW c \in Consumers, HandleOk(c)
      PROVE  Accounted' /\ AckSafe'
  <2> PICK i \in batch[c] : /\ current' = [current EXCEPT ![c] = i]
                            /\ handled' = [handled EXCEPT ![log[i].msg] = @ + 1]
    BY <1>8 DEF HandleOk
  <2>1. /\ UNCHANGED <<log, dlq, trimmed, base, cursor, pel>>
        /\ pc' = [pc EXCEPT ![c] = "ack"]
    BY <1>8 DEF HandleOk, redis
  <2>2. i \in Entries /\ log[i] \in Entry
    BY <1>0 DEF TypeOK, ConsumersOK, RedisOK, Entries
  <2>3. \A m \in Messages : Handled(m) => Handled(m)'
    BY <1>0, <2>2 DEF Handled, TypeOK, HistoryOK, Entry
  <2>4. Handled(log[i].msg)'
    BY <1>0, <2>1, <2>2 DEF Handled, TypeOK, HistoryOK, Entry
  <2>5. \A j \in Entries : Covered(j) => Covered(j)'
    BY <1>0, <1>q, <2>1, <2>3
  <2>6. Covered(i)'
    BY <2>1, <2>4 DEF Covered
  <2>7. \A j \in Entries : Outstanding(j) => Outstanding(j)'
    BY <2>1 DEF Outstanding
  <2>8. AckSafe'
    BY <1>0, <2>1, <2>5, <2>6 DEF AckSafe, TypeOK, ConsumersOK
  <2> QED BY <1>0, <2>1, <2>5, <2>7, <2>8 DEF Accounted, Entries
<1>9. ASSUME NEW c \in Consumers, HandleFail(c)
      PROVE  Accounted' /\ AckSafe'
  <2>1. UNCHANGED <<log, dlq, handled>> /\ trimmed <= trimmed' /\ base <= base'
    BY <1>0, <1>9 DEF HandleFail, redis
  <2>2. \A i \in Entries : Covered(i) => Covered(i)'
    BY <1>0, <1>q, <2>1 DEF Handled
  <2>3. \A i \in Entries : Outstanding(i) => Outstanding(i)' \/ Covered(i)'
    BY <1>0, <1>9, <2>1 DEF HandleFail, redis, Outstanding, Covered, Entries
  <2>4. \A b \in Consumers : pc'[b] = "ack" => pc[b] = "ack" /\ current'[b] = current[b]
    BY <1>0, <1>9 DEF HandleFail, redis, TypeOK, ConsumersOK
  <2> QED BY <1>0, <2>1, <2>2, <2>3, <2>4 DEF Accounted, AckSafe, TypeOK, ConsumersOK, Entries
<1>10. ASSUME NEW c \in Consumers, Requeue(c)
      PROVE  Accounted' /\ AckSafe'
  <2> DEFINE i == current[c]
             e == [msg |-> log[i].msg, retry |-> log[i].retry + 1]
  <2>1. i \in Entries /\ log[i] \in Entry /\ pc[c] = "failed"
    BY <1>0, <1>10 DEF Requeue, TypeOK, ConsumersOK, RedisOK, Entries
  <2>2. e \in Entry /\ Xadd(e) /\ UNCHANGED <<base, cursor, pel, dlq, handled, current>>
    BY <2>1, <1>10 DEF Requeue, Entry, history
  <2>3. Accounted' /\ \A j \in Entries : Covered(j) => Covered(j)'
    BY <1>0, <2>2, XaddAccounts
  <2>4. Covered(i)'
    <3>1. Len(log) + 1 \in Entries' /\ log'[Len(log) + 1] = e /\ log'[i] = log[i]
      BY <1>0, <2>1, <2>2, XaddLemma DEF TypeOK
    <3>2. i < Len(log) + 1
      BY <1>0, <2>1 DEF Entries
    <3> QED BY <2>1, <2>2, <3>1, <3>2 DEF Covered
  <2>5. pc' = [pc EXCEPT ![c] = "ack"]
    BY <1>10 DEF Requeue
  <2> QED BY <1>0, <2>2, <2>3, <2>4, <2>5 DEF AckSafe, TypeOK, ConsumersOK
<1>11. ASSUME NEW c \in Consumers, DeadLetter(c)
      PROVE  Accounted' /\ AckSafe'
  <2> DEFINE i == current[c]
             d == [msg |-> log[i].msg, entry |-> i, retry |-> log[i].retry + 1]
  <2>1. i \in Entries /\ log[i] \in Entry
    BY <1>0, <1>11 DEF DeadLetter, TypeOK, ConsumersOK, RedisOK, Entries
  <2>2. /\ d \in Dead /\ dlq' = Append(dlq, d)
        /\ UNCHANGED <<log, trimmed, base, cursor, pel, current, handled>>
        /\ pc' = [pc EXCEPT ![c] = "ack"]
    BY <1>0, <2>1, <1>11 DEF DeadLetter, Dead, Entry, Entries, history
  <2>3. /\ \A m \in Messages : DeadLettered(m) => DeadLettered(m)'
        /\ DeadLettered(d.msg)'
    BY <1>0, <2>2, DeadLetteredAppend DEF TypeOK, RedisOK
  <2>4. \A m \in Messages : Handled(m) => Handled(m)'
    BY <2>2 DEF Handled
  <2>5. Entries \subseteq Entries' /\ \A j \in Entries : log'[j] = log[j]
    BY <2>2 DEF Entries
  <2>6. \A j \in Entries : Covered(j) => Covered(j)'
    BY <1>0, <2>2, <2>3, <2>4, <2>5, CoveredStable
  <2>7. Covered(i)'
    BY <2>2, <2>3 DEF Covered
  <2>8. \A j \in Entries : Outstanding(j) => Outstanding(j)'
    BY <2>2 DEF Outstanding
  <2>9. AckSafe'
    BY <1>0, <2>2, <2>6, <2>7 DEF AckSafe, TypeOK, ConsumersOK
  <2> QED BY <1>0, <2>2, <2>6, <2>8, <2>9 DEF Accounted, Entries
<1>12. ASSUME NEW c \in Consumers, Ack(c)
      PROVE  Accounted' /\ AckSafe'
  <2>1. /\ UNCHANGED <<log, dlq, handled, trimmed, base, cursor>>
        /\ trimmed <= trimmed' /\ base <= base'
        /\ pc[c] = "ack" /\ pel' = pel \ {current[c]}
    BY <1>0, <1>12 DEF Ack, history
  <2>2. \A i \in Entries : Covered(i) => Covered(i)'
    BY <1>0, <1>q, <2>1 DEF Handled
  <2>3. \A i \in Entries : i = current[c] => Covered(i)'
    BY <1>0, <2>1, <2>2 DEF AckSafe
  <2>4. \A i \in Entries : i # current[c] /\ Outstanding(i) => Outstanding(i)'
    BY <2>1 DEF Outstanding
  <2>5. \A b \in Consumers : pc'[b] = "ack" => pc[b] = "ack" /\ current'[b] = current[b]
    BY <1>0, <1>12 DEF Ack, TypeOK, ConsumersOK
  <2>6. Accounted'
    BY <1>0, <2>1, <2>2, <2>3, <2>4 DEF Accounted, Entries
  <2> QED BY <1>0, <2>2, <2>5, <2>6 DEF AckSafe, TypeOK, ConsumersOK
<1>13. ASSUME NEW c \in Consumers, Crash(c)
      PROVE  Accounted' /\ AckSafe'
  <2>1. UNCHANGED <<log, dlq, handled>> /\ trimmed <= trimmed' /\ base <= base'
    BY <1>0, <1>13 DEF Crash, redis
  <2>2. \A i \in Entries : Covered(i) => Covered(i)'
    BY <1>0, <1>q, <2>1 DEF Handled
  <2>3. \A i \in Entries : Outstanding(i) => Outstanding(i)' \/ Covered(i)'
    BY <1>0, <1>13, <2>1 DEF Crash, redis, Outstanding, Covered, Entries
  <2>4. \A b \in Consumers : pc'[b] = "ack" => pc[b] = "ack" /\ current'[b] = current[b]
    BY <1>0, <1>13 DEF Crash, redis, TypeOK, ConsumersOK
  <2> QED BY <1>0, <2>1, <2>2, <2>3, <2>4 DEF Accounted, AckSafe, TypeOK, ConsumersOK, Entries
<1>14. ASSUME NEW k \in pel, Expire(k)
      PROVE  Accounted' /\ AckSafe'
  <2>1. UNCHANGED <<log, dlq, handled>> /\ trimmed <= trimmed' /\ base <= base'
    BY <1>0, <1>14 DEF Expire, consumers
  <2>2. \A i \in Entries : Covered(i) => Covered(i)'
    BY <1>0, <1>q, <2>1 DEF Handled
  <2>3. \A i \in Entries : Outstanding(i) => Outstanding(i)' \/ Covered(i)'
    BY <1>0, <1>14, <2>1 DEF Expire, consumers, Outstanding, Covered, Entries
  <2>4. \A b \in Consumers : pc'[b] = "ack" => pc[b] = "ack" /\ current'[b] = current[b]
    BY <1>0, <1>14 DEF Expire, consumers, TypeOK, ConsumersOK
  <2> QED BY <1>0, <2>1, <2>2, <2>3, <2>4 DEF Accounted, AckSafe, TypeOK, ConsumersOK, Entries
<1>15. ASSUME Wipe
      PROVE  Accounted' /\ AckSafe'
  <2>1. log' = log /\ trimmed' = Len(log) /\ UNCHANGED <<pc, current>>
    BY <1>15 DEF Wipe, consumers
  <2>2. \A i \in Entries' : Covered(i)'
    BY <1>0, <2>1 DEF Covered, Entries
  <2>3. \A c \in Consumers : pc'[c] = "ack" => current'[c] \in Entries'
    BY <1>0 DEF TypeOK, ConsumersOK
  <2> QED BY <2>2, <2>3 DEF Accounted, AckSafe
<1>16. ASSUME UNCHANGED vars
      PROVE  Accounted' /\ AckSafe'
  <2>1. UNCHANGED <<log, dlq, handled>> /\ trimmed <= trimmed' /\ base <= base'
    BY <1>0, <1>16 DEF vars, redis, consumers, history
  <2>2. \A i \in Entries : Covered(i) => Covered(i)'
    BY <1>0, <1>q, <2>1 DEF Handled
  <2>3. \A i \in Entries : Outstanding(i) => Outstanding(i)' \/ Covered(i)'
    BY <1>0, <1>16, <2>1 DEF vars, redis, consumers, history, Outstanding, Covered, Entries
  <2>4. \A b \in Consumers : pc'[b] = "ack" => pc[b] = "ack" /\ current'[b] = current[b]
    BY <1>0, <1>16 DEF vars, redis, consumers, history, TypeOK, ConsumersOK
  <2> QED BY <1>0, <2>1, <2>2, <2>3, <2>4 DEF Accounted, AckSafe, TypeOK, ConsumersOK, Entries
<1> QED
  BY <1>0, <1>1, <1>2, <1>3, <1>4, <1>5, <1>6, <1>7, <1>8, <1>9, <1>10, <1>11, <1>12, <1>13,
     <1>14, <1>15, <1>16 DEF Next, Step, LossInv

(* A message in the stream has a last entry.                               *)
LEMMA LastEntry ==
  ASSUME TypeOK, NEW m \in Messages, Of(m) # {}
  PROVE  \E i \in Of(m) : \A j \in Of(m) : j <= i
<1> DEFINE N == Len(log)
           T == {n \in Nat : n <= N /\ N - n \in Of(m)}
<1>1. N \in Nat /\ Of(m) \subseteq 1 .. N
  BY DEF TypeOK, RedisOK, Of, Entries
<1>2. PICK k \in Of(m) : TRUE
  OBVIOUS
<1>3. N - k \in T
  BY <1>1, <1>2
<1>4. T \subseteq Nat /\ T # {}
  BY <1>3
<1>5. PICK x \in T : \A y \in T : <<y, x>> \notin OpToRel(<, Nat)
  BY <1>4, NatLessThanWellFounded, WFMin
<1>6. \A y \in T : ~(y < x)
  BY <1>4, <1>5 DEF OpToRel
<1>7. ASSUME NEW j \in Of(m)
      PROVE  j <= N - x
  <2>1. N - j \in T
    BY <1>1
  <2> QED BY <1>1, <1>4, <1>6, <2>1
<1> QED BY <1>7

LEMMA LossInvImplies == LossInv => NoSilentLoss
<1> SUFFICES ASSUME LossInv, NEW m \in Messages, Of(m) # {}
             PROVE  IsOpen(m) \/ Handled(m) \/ DeadLettered(m) \/ Waived(m)
  BY DEF NoSilentLoss
<1>1. PICK i \in Of(m) : \A j \in Of(m) : j <= i
  BY LastEntry DEF LossInv
<1>2. i \in Entries /\ log[i].msg = m /\ Entries \subseteq Nat
  BY DEF Of, Entries
<1>3. ~ \E j \in Entries : i < j /\ log[j].msg = log[i].msg
  BY <1>1, <1>2 DEF Of
<1>4. Outstanding(i) \/ Covered(i)
  BY <1>2 DEF LossInv, Accounted
<1> QED BY <1>2, <1>3, <1>4 DEF Covered, IsOpen, Waived

(* No message vanishes, whatever crashes, claims, slow handlers, lost      *)
(* replies and restarts come between the steps of streams.py and           *)
(* consumer.py.                                                            *)
THEOREM NoLoss == Spec => []NoSilentLoss
  BY LossInit, LossStep, LossInvImplies, PTL DEF Spec

-----------------------------------------------------------------------------
(* The retry count of an entry never runs ahead of the exceptions that its *)
(* handler raised.                                                         *)
RetriesEarned == \A i \in Entries : log[i].retry <= failures[log[i].msg]

FailureSeen ==
  \A c \in Consumers :
    pc[c] = "failed" => log[current[c]].retry + 1 <= failures[log[current[c]].msg]

RetryInv == TypeOK /\ RetriesEarned /\ FailureSeen /\ DeadLetterAfterAllRetries

LEMMA RetryInit == Init => RetryInv
<1> SUFFICES ASSUME Init PROVE RetryInv
  OBVIOUS
<1>1. TypeOK
  BY TypeInit
<1>2. Entries = {} /\ DOMAIN dlq = {}
  <2>1. Len(log) = 0 /\ dlq = <<>>
    BY EmptySeq DEF Init
  <2>2. DOMAIN dlq = 1 .. 0
    BY <2>1
  <2> QED BY <2>1, <2>2 DEF Entries
<1>3. FailureSeen
  BY DEF Init, FailureSeen
<1> QED BY <1>1, <1>2, <1>3 DEF RetryInv, RetriesEarned, DeadLetterAfterAllRetries

(* Steps that leave the log, the dead letters and the failures alone and   *)
(* bring no consumer to the stage after a failure.                         *)
LEMMA RetryQuiet ==
  ASSUME RetryInv, UNCHANGED <<log, failures>>, dlq' = dlq \/ DOMAIN dlq' = {},
         \A c \in Consumers : pc'[c] = "failed" => pc[c] = "failed" /\ current'[c] = current[c]
  PROVE  RetriesEarned' /\ FailureSeen' /\ DeadLetterAfterAllRetries'
  BY DEF RetryInv, RetriesEarned, FailureSeen, DeadLetterAfterAllRetries, Entries

LEMMA RetryXadd ==
  ASSUME RetryInv, TypeOK', NEW e \in Entry, Xadd(e), e.retry <= failures[e.msg],
         UNCHANGED <<dlq, failures, current>>,
         \A c \in Consumers : pc'[c] = "failed" => pc[c] = "failed"
  PROVE  RetriesEarned' /\ FailureSeen' /\ DeadLetterAfterAllRetries'
<1>1. /\ \A i \in Entries : log'[i] = log[i]
      /\ \A i \in Entries' : i \in Entries \/ log'[i] = e
  BY XaddLemma DEF RetryInv, TypeOK
<1>2. \A c \in Consumers : pc[c] = "failed" => current[c] \in Entries
  BY DEF RetryInv, TypeOK, ConsumersOK
<1>3. RetriesEarned'
  BY <1>1 DEF RetryInv, RetriesEarned
<1>4. FailureSeen'
  BY <1>1, <1>2 DEF RetryInv, FailureSeen
<1>5. DeadLetterAfterAllRetries'
  BY DEF RetryInv, DeadLetterAfterAllRetries
<1> QED BY <1>3, <1>4, <1>5

LEMMA RetryStep == RetryInv /\ [Next]_vars => RetryInv'
<1> SUFFICES ASSUME RetryInv, [Next]_vars
             PROVE  RetryInv'
  OBVIOUS
<1> USE ConstantsAssumption
<1>0. /\ TypeOK /\ TypeOK' /\ RedisOK /\ ConsumersOK /\ HistoryOK
      /\ pc \in [Consumers -> Stages] /\ current \in [Consumers -> 0 .. Len(log)]
  BY TypeStep DEF RetryInv, TypeOK, ConsumersOK
<1>1. ASSUME NEW m \in Messages, Publish(m)
      PROVE  RetriesEarned' /\ FailureSeen' /\ DeadLetterAfterAllRetries'
  <2>1. /\ [msg |-> m, retry |-> 0] \in Entry /\ Xadd([msg |-> m, retry |-> 0])
        /\ UNCHANGED <<dlq, failures, current, pc>>
    BY <1>1 DEF Publish, Entry, consumers, history
  <2>2. 0 <= failures[m]
    BY <1>0 DEF HistoryOK
  <2> QED BY <1>0, <2>1, <2>2, RetryXadd
<1>2. ASSUME NEW c \in Consumers, Start(c)
      PROVE  RetriesEarned' /\ FailureSeen' /\ DeadLetterAfterAllRetries'
  <2>1. /\ UNCHANGED <<log, failures, dlq>>
        /\ \A b \in Consumers : pc'[b] = "failed" => pc[b] = "failed" /\ current'[b] = current[b]
    BY <1>0, <1>2 DEF Start, history
  <2> QED BY <2>1, RetryQuiet
<1>3. ASSUME NEW c \in Consumers, ClaimTimer(c)
      PROVE  RetriesEarned' /\ FailureSeen' /\ DeadLetterAfterAllRetries'
  <2>1. /\ UNCHANGED <<log, failures, dlq>>
        /\ \A b \in Consumers : pc'[b] = "failed" => pc[b] = "failed" /\ current'[b] = current[b]
    BY <1>0, <1>3 DEF ClaimTimer, redis, history
  <2> QED BY <2>1, RetryQuiet
<1>4. ASSUME NEW c \in Consumers, Claim(c)
      PROVE  RetriesEarned' /\ FailureSeen' /\ DeadLetterAfterAllRetries'
  <2>1. /\ UNCHANGED <<log, failures, dlq>>
        /\ \A b \in Consumers : pc'[b] = "failed" => pc[b] = "failed" /\ current'[b] = current[b]
    BY <1>0, <1>4 DEF Claim, Reassign, history
  <2> QED BY <2>1, RetryQuiet
<1>5. ASSUME NEW c \in Consumers, Read(c)
      PROVE  RetriesEarned' /\ FailureSeen' /\ DeadLetterAfterAllRetries'
  <2>1. /\ UNCHANGED <<log, failures, dlq>>
        /\ \A b \in Consumers : pc'[b] = "failed" => pc[b] = "failed" /\ current'[b] = current[b]
    BY <1>0, <1>5 DEF Read, Deliver, history
  <2> QED BY <2>1, RetryQuiet
<1>6. ASSUME NEW c \in Consumers, ClaimError(c)
      PROVE  RetriesEarned' /\ FailureSeen' /\ DeadLetterAfterAllRetries'
  <2>1. /\ UNCHANGED <<log, failures, dlq>>
        /\ \A b \in Consumers : pc'[b] = "failed" => pc[b] = "failed" /\ current'[b] = current[b]
    BY <1>0, <1>6 DEF ClaimError, NextPass, Reassign, redis
  <2> QED BY <2>1, RetryQuiet
<1>7. ASSUME NEW c \in Consumers, ReadError(c)
      PROVE  RetriesEarned' /\ FailureSeen' /\ DeadLetterAfterAllRetries'
  <2>1. /\ UNCHANGED <<log, failures, dlq>>
        /\ \A b \in Consumers : pc'[b] = "failed" => pc[b] = "failed" /\ current'[b] = current[b]
    BY <1>0, <1>7 DEF ReadError, NextPass, Deliver, redis
  <2> QED BY <2>1, RetryQuiet
<1>8. ASSUME NEW c \in Consumers, HandleOk(c)
      PROVE  RetriesEarned' /\ FailureSeen' /\ DeadLetterAfterAllRetries'
  <2>1. /\ UNCHANGED <<log, failures, dlq>>
        /\ \A b \in Consumers : pc'[b] = "failed" => pc[b] = "failed" /\ current'[b] = current[b]
    BY <1>0, <1>8 DEF HandleOk, redis
  <2> QED BY <2>1, RetryQuiet
<1>9. ASSUME NEW c \in Consumers, HandleFail(c)
      PROVE  RetriesEarned' /\ FailureSeen' /\ DeadLetterAfterAllRetries'
  <2> PICK i \in batch[c] : /\ current' = [current EXCEPT ![c] = i]
                            /\ failures' = [failures EXCEPT ![log[i].msg] = @ + 1]
    BY <1>9 DEF HandleFail
  <2>1. UNCHANGED <<log, dlq>> /\ pc' = [pc EXCEPT ![c] = "failed"]
    BY <1>9 DEF HandleFail, redis
  <2>2. /\ i \in Entries
        /\ \A j \in Entries : log[j].msg \in Messages /\ log[j].retry \in Nat
        /\ \A k \in DOMAIN dlq : dlq[k].msg \in Messages
    <3>1. \A j \in Entries : log[j] \in Entry
      BY <1>0 DEF RedisOK, Entries
    <3>2. \A k \in DOMAIN dlq : dlq[k] \in Dead
      BY <1>0, LenProperties DEF RedisOK
    <3> QED BY <1>0, <3>1, <3>2 DEF ConsumersOK, Entry, Dead
  <2>3. /\ \A m \in Messages : failures[m] \in Nat /\ failures'[m] \in Nat /\ failures[m] <= failures'[m]
        /\ failures'[log[i].msg] = failures[log[i].msg] + 1
    BY <1>0, <2>2 DEF HistoryOK
  <2>4. RetriesEarned'
    BY <2>1, <2>2, <2>3 DEF RetryInv, RetriesEarned, Entries
  <2>5. log[i].retry + 1 <= failures'[log[i].msg]
    BY <2>2, <2>3 DEF RetryInv, RetriesEarned
  <2>6. \A b \in Consumers : b # c /\ pc[b] = "failed" =>
           /\ current[b] \in Entries
           /\ log[current[b]].retry + 1 <= failures'[log[current[b]].msg]
    BY <1>0, <2>2, <2>3 DEF RetryInv, FailureSeen, ConsumersOK
  <2>7. FailureSeen'
    BY <1>0, <2>1, <2>5, <2>6 DEF FailureSeen
  <2>8. DeadLetterAfterAllRetries'
    BY <2>1, <2>2, <2>3 DEF RetryInv, DeadLetterAfterAllRetries
  <2> QED BY <2>4, <2>7, <2>8
<1>10. ASSUME NEW c \in Consumers, Requeue(c)
      PROVE  RetriesEarned' /\ FailureSeen' /\ DeadLetterAfterAllRetries'
  <2> DEFINE e == log[current[c]]
             copy == [msg |-> e.msg, retry |-> e.retry + 1]
  <2>1. pc[c] = "failed" /\ current[c] \in Entries /\ e \in Entry
    BY <1>0, <1>10 DEF Requeue, ConsumersOK, RedisOK, Entries
  <2>2. copy \in Entry /\ Xadd(copy) /\ UNCHANGED <<dlq, failures, current>>
    BY <2>1, <1>10 DEF Requeue, Entry, history
  <2>3. copy.retry <= failures[copy.msg]
    BY <2>1 DEF RetryInv, FailureSeen
  <2>4. \A b \in Consumers : pc'[b] = "failed" => pc[b] = "failed"
    BY <1>0, <1>10 DEF Requeue
  <2> HIDE DEF copy
  <2> QED BY <1>0, <2>2, <2>3, <2>4, RetryXadd
<1>11. ASSUME NEW c \in Consumers, DeadLetter(c)
      PROVE  RetriesEarned' /\ FailureSeen' /\ DeadLetterAfterAllRetries'
  <2> DEFINE e == log[current[c]]
             d == [msg |-> e.msg, entry |-> current[c], retry |-> e.retry + 1]
  <2>1. pc[c] = "failed" /\ current[c] \in Entries /\ e \in Entry /\ e.retry + 1 > MaxRetries
    BY <1>0, <1>11 DEF DeadLetter, ConsumersOK, RedisOK, Entries
  <2>2. /\ d \in Dead /\ dlq' = Append(dlq, d) /\ UNCHANGED <<log, failures, current>>
        /\ \A b \in Consumers : pc'[b] = "failed" => pc[b] = "failed"
    BY <1>0, <2>1, <1>11 DEF DeadLetter, Dead, Entry, Entries, history
  <2>3. failures[d.msg] >= MaxRetries + 1
    <3>1. e.retry + 1 <= failures[e.msg] /\ failures[e.msg] \in Nat /\ e.retry \in Nat
      BY <1>0, <2>1 DEF RetryInv, FailureSeen, HistoryOK, Entry
    <3> QED BY <2>1, <3>1
  <2>4. \A k \in DOMAIN dlq' : (k \in DOMAIN dlq /\ dlq'[k] = dlq[k]) \/ dlq'[k] = d
    <3>1. /\ Len(dlq) \in Nat /\ dlq' \in Seq(Dead) /\ Len(dlq') = Len(dlq) + 1
          /\ \A k \in 1 .. Len(dlq) : dlq'[k] = dlq[k]
          /\ dlq'[Len(dlq) + 1] = d
      BY <1>0, <2>2, AppendProperties DEF RedisOK
    <3>2. DOMAIN dlq = 1 .. Len(dlq) /\ DOMAIN dlq' = 1 .. Len(dlq) + 1
      BY <1>0, <3>1, LenProperties DEF RedisOK
    <3> QED BY <3>1, <3>2
  <2>5. DeadLetterAfterAllRetries'
    BY <2>2, <2>3, <2>4 DEF RetryInv, DeadLetterAfterAllRetries
  <2>6. RetriesEarned' /\ FailureSeen'
    BY <2>2 DEF RetryInv, RetriesEarned, FailureSeen, Entries
  <2> QED BY <2>5, <2>6
<1>12. ASSUME NEW c \in Consumers, Ack(c)
      PROVE  RetriesEarned' /\ FailureSeen' /\ DeadLetterAfterAllRetries'
  <2>1. /\ UNCHANGED <<log, failures, dlq>>
        /\ \A b \in Consumers : pc'[b] = "failed" => pc[b] = "failed" /\ current'[b] = current[b]
    BY <1>0, <1>12 DEF Ack, history
  <2> QED BY <2>1, RetryQuiet
<1>13. ASSUME NEW c \in Consumers, Crash(c)
      PROVE  RetriesEarned' /\ FailureSeen' /\ DeadLetterAfterAllRetries'
  <2>1. /\ UNCHANGED <<log, failures, dlq>>
        /\ \A b \in Consumers : pc'[b] = "failed" => pc[b] = "failed" /\ current'[b] = current[b]
    BY <1>0, <1>13 DEF Crash, redis
  <2> QED BY <2>1, RetryQuiet
<1>14. ASSUME NEW i \in pel, Expire(i)
      PROVE  RetriesEarned' /\ FailureSeen' /\ DeadLetterAfterAllRetries'
  <2>1. /\ UNCHANGED <<log, failures, dlq>>
        /\ \A b \in Consumers : pc'[b] = "failed" => pc[b] = "failed" /\ current'[b] = current[b]
    BY <1>0, <1>14 DEF Expire, consumers
  <2> QED BY <2>1, RetryQuiet
<1>15. ASSUME Wipe
      PROVE  RetriesEarned' /\ FailureSeen' /\ DeadLetterAfterAllRetries'
  <2>1. UNCHANGED <<log, failures, pc, current>> /\ dlq' = <<>>
    BY <1>15 DEF Wipe, consumers
  <2>2. DOMAIN dlq' = 1 .. 0
    BY <2>1
  <2> QED BY <2>1, <2>2, RetryQuiet
<1>16. ASSUME UNCHANGED vars
      PROVE  RetriesEarned' /\ FailureSeen' /\ DeadLetterAfterAllRetries'
  <2>1. /\ UNCHANGED <<log, failures, dlq>>
        /\ \A b \in Consumers : pc'[b] = "failed" => pc[b] = "failed" /\ current'[b] = current[b]
    BY <1>0, <1>16 DEF vars, redis, consumers, history
  <2> QED BY <2>1, RetryQuiet
<1> QED
  BY <1>0, <1>1, <1>2, <1>3, <1>4, <1>5, <1>6, <1>7, <1>8, <1>9, <1>10, <1>11, <1>12, <1>13,
     <1>14, <1>15, <1>16 DEF Next, Step, RetryInv

(* A message goes to the dead-letter stream only after its handler raised  *)
(* max_retries + 1 times, however often it was claimed or redelivered.     *)
THEOREM DeadLetterTheorem == Spec => []DeadLetterAfterAllRetries
<1>1. RetryInv => DeadLetterAfterAllRetries
  BY DEF RetryInv
<1> QED BY <1>1, RetryInit, RetryStep, PTL DEF Spec

-----------------------------------------------------------------------------
(* How often a message is delivered: at most once more for each crash and  *)
(* each slow handler, and, as AtLeastOnce promises, at least until it was  *)
(* handled, dead-lettered or waived.                                       *)

(* Every end of a message uses up a chance: an entry of it that Redis has  *)
(* still to deliver, or an entry some consumer has in hand and has not yet *)
(* dealt with.                                                             *)
NoConsumer == CHOOSE x : x \notin Consumers
Holders    == Consumers \cup {NoConsumer}

\* Redis will deliver i: it is new to the group, or pending and idle, or
\* pending and in nobody's hands.
Loose(i) == i > trimmed /\ (i > cursor \/ (i \in pel /\ (i \in stale \/ ~Held(i))))

InHand(c, i) == i \in batch[c] /\ (pc[c] = "ack" => current[c] # i)

Takes(w, i) == (w = NoConsumer /\ Loose(i)) \/ (w \in Consumers /\ InHand(w, i))

Chances(m) == {p \in Holders \X Entries : log[p[2]].msg = m /\ Takes(p[1], p[2])}

Bound == 1 + faults["crash"] + faults["slow"]

EndsLeft(m) ==
  /\ IsFiniteSet(Chances(m))
  /\ Ends(m) + Cardinality(Chances(m)) <= Bound
  /\ Of(m) = {} => Ends(m) = 0

\* A consumer between two passes holds nothing; one that settles an entry
\* holds it.  The group delivered what is pending.
HandsOK ==
  /\ \A c \in Consumers :
       /\ pc[c] \in {"down", "poll"} => batch[c] = {}
       /\ pc[c] \in {"failed", "ack"} => current[c] \in batch[c]
  /\ \A i \in pel : i <= cursor

DuplicatesInv == TypeOK /\ HandsOK /\ \A m \in Messages : EndsLeft(m)

-----------------------------------------------------------------------------
(* Counting: a set whose new elements each replace an old one that left.   *)
LEMMA HandOver ==
  ASSUME NEW T, NEW U, IsFiniteSet(T), NEW x, NEW y,
         \A u \in U : u \in T \/ \E i : u = <<y, i>> /\ <<x, i>> \in T \ U
  PROVE  IsFiniteSet(U) /\ Cardinality(U) <= Cardinality(T)
<1> DEFINE f == [u \in U |-> IF u \in T THEN u ELSE <<x, u[2]>>]
<1>1. f \in [U -> T]
  <2> SUFFICES ASSUME NEW u \in U, u \notin T PROVE <<x, u[2]>> \in T
    OBVIOUS
  <2>1. PICK i : u = <<y, i>> /\ <<x, i>> \in T \ U
    OBVIOUS
  <2> QED BY <2>1
<1>2. \A u \in U : u \notin T => u = <<y, u[2]>> /\ <<x, u[2]>> \notin U
  <2> SUFFICES ASSUME NEW u \in U, u \notin T PROVE u = <<y, u[2]>> /\ <<x, u[2]>> \notin U
    OBVIOUS
  <2>1. PICK i : u = <<y, i>> /\ <<x, i>> \in T \ U
    OBVIOUS
  <2> QED BY <2>1
<1>3. ASSUME NEW u \in U, NEW v \in U, f[u] = f[v] PROVE u = v
  <2>1. CASE u \in T /\ v \in T
    BY <1>3, <2>1
  <2>2. CASE u \in T /\ v \notin T
    BY <1>2, <1>3, <2>2
  <2>3. CASE u \notin T /\ v \in T
    BY <1>2, <1>3, <2>3
  <2>4. CASE u \notin T /\ v \notin T
    <3>1. <<x, u[2]>> = <<x, v[2]>>
      BY <1>3, <2>4
    <3>2. u[2] = v[2]
      BY <3>1
    <3> QED BY <1>2, <2>4, <3>2
  <2> QED BY <2>1, <2>2, <2>3, <2>4
<1>4. f \in Injection(U, T)
  <2>1. DOMAIN f = U
    OBVIOUS
  <2> HIDE DEF f
  <2> QED BY <1>1, <1>3, <2>1 DEF Injection, IsInjective
<1> HIDE DEF f
<1> QED BY <1>4, FS_Injection

(* One more element makes a finite set at most one larger.                 *)
LEMMA AddOne ==
  ASSUME NEW S, NEW x, IsFiniteSet(S)
  PROVE  /\ IsFiniteSet(S \cup {x}) /\ Cardinality(S) \in Nat
         /\ Cardinality(S \cup {x}) <= Cardinality(S) + 1
<1>1. Cardinality(S) \in Nat
  BY FS_CardinalityType
<1>2. /\ IsFiniteSet(S \cup {x})
      /\ Cardinality(S \cup {x}) = IF x \in S THEN Cardinality(S) ELSE Cardinality(S) + 1
  BY FS_AddElement
<1>3. Cardinality(S \cup {x}) = Cardinality(S) \/ Cardinality(S \cup {x}) = Cardinality(S) + 1
  BY <1>2
<1> QED BY <1>1, <1>2, <1>3

(* The chances of the next state: those of this one, some of which passed  *)
(* from x to y, and at most one more, Redis's chance to deliver k.         *)
Passes(x, y, k) ==
  /\ UNCHANGED log
  /\ \A w \in Holders, i \in Entries : Takes(w, i)' =>
       \/ Takes(w, i)
       \/ w = y /\ Takes(x, i) /\ ~Takes(x, i)'
       \/ w = NoConsumer /\ i = k

LEMMA PassesLemma ==
  ASSUME NEW m \in Messages, IsFiniteSet(Chances(m)),
         NEW x \in Holders, NEW y \in Holders, NEW k, Passes(x, y, k)
  PROVE  /\ k \notin Entries => /\ IsFiniteSet(Chances(m)')
                                /\ Cardinality(Chances(m)') <= Cardinality(Chances(m))
         /\ IsFiniteSet(Chances(m)')
         /\ Cardinality(Chances(m)') <= Cardinality(Chances(m)) + 1
<1> DEFINE T == Chances(m)  U == Chances(m)'  V == U \ {<<NoConsumer, k>>}
<1>1. \A u \in V : u \in T \/ \E i : u = <<y, i>> /\ <<x, i>> \in T \ V
  <2> SUFFICES ASSUME NEW u \in V, u \notin T PROVE \E i : u = <<y, i>> /\ <<x, i>> \in T \ V
    OBVIOUS
  <2>1. PICK w \in Holders, i \in Entries : u = <<w, i>>
    BY DEF Chances, Passes, Entries
  <2>2. log[i].msg = m /\ Takes(w, i)' /\ ~Takes(w, i) /\ ~(w = NoConsumer /\ i = k)
    BY <2>1 DEF Chances, Passes, Entries
  <2>3. w = y /\ Takes(x, i) /\ ~Takes(x, i)'
    BY <2>2 DEF Passes
  <2>4. <<x, i>> \in T /\ <<x, i>> \notin V
    BY <2>2, <2>3 DEF Chances
  <2> QED BY <2>1, <2>3, <2>4
<1>2. IsFiniteSet(V) /\ Cardinality(V) <= Cardinality(T)
  <2> HIDE DEF T, V
  <2> QED BY <1>1, HandOver DEF T
<1>3. k \notin Entries => V = U
  BY DEF Chances, Passes, Entries
<1>4. IsFiniteSet(U) /\ Cardinality(U) <= Cardinality(V) + 1
  <2>1. IsFiniteSet(V \cup {<<NoConsumer, k>>}) /\ Cardinality(V) \in Nat
        /\ Cardinality(V \cup {<<NoConsumer, k>>}) <= Cardinality(V) + 1
    BY <1>2, AddOne
  <2>2. U \subseteq V \cup {<<NoConsumer, k>>}
    OBVIOUS
  <2> HIDE DEF U, V
  <2>3. IsFiniteSet(U) /\ Cardinality(U) <= Cardinality(V \cup {<<NoConsumer, k>>})
    BY <2>1, <2>2, FS_Subset
  <2>4. Cardinality(U) \in Nat /\ Cardinality(V \cup {<<NoConsumer, k>>}) \in Nat
    BY <2>1, <2>3, FS_CardinalityType
  <2> QED BY <2>1, <2>3, <2>4
<1>5. Cardinality(U) \in Nat /\ Cardinality(V) \in Nat /\ Cardinality(T) \in Nat
  BY <1>2, <1>4, FS_CardinalityType
<1> HIDE DEF T, U, V
<1>6. /\ k \notin Entries => IsFiniteSet(U) /\ Cardinality(U) <= Cardinality(T)
      /\ IsFiniteSet(U) /\ Cardinality(U) <= Cardinality(T) + 1
  BY <1>2, <1>3, <1>4, <1>5
<1> QED BY <1>6 DEF T, U

(* A chance that was used, and replaced by at most one other.              *)
LEMMA UsedLemma ==
  ASSUME NEW T, NEW U, IsFiniteSet(T), NEW t \in T, NEW u, U \subseteq (T \ {t}) \cup {u}
  PROVE  /\ IsFiniteSet(U) /\ Cardinality(U) <= Cardinality(T)
         /\ U \subseteq T \ {t} => Cardinality(U) + 1 <= Cardinality(T)
<1> DEFINE V == T \ {t}
<1>1. IsFiniteSet(V) /\ Cardinality(V) = Cardinality(T) - 1 /\ Cardinality(T) \in Nat
  BY FS_RemoveElement, FS_CardinalityType
<1>2. /\ IsFiniteSet(V \cup {u})
      /\ Cardinality(V \cup {u}) <= Cardinality(V) + 1
      /\ Cardinality(V) \in Nat /\ Cardinality(V \cup {u}) \in Nat
  <2> HIDE DEF V
  <2>1. /\ IsFiniteSet(V \cup {u}) /\ Cardinality(V) \in Nat
        /\ Cardinality(V \cup {u}) <= Cardinality(V) + 1
    BY <1>1, AddOne
  <2> QED BY <2>1, FS_CardinalityType
<1>3. IsFiniteSet(U) /\ Cardinality(U) <= Cardinality(V \cup {u}) /\ Cardinality(U) \in Nat
  <2> HIDE DEF V
  <2>1. U \subseteq V \cup {u}
    BY DEF V
  <2>2. IsFiniteSet(U) /\ Cardinality(U) <= Cardinality(V \cup {u})
    BY <1>2, <2>1, FS_Subset
  <2> QED BY <2>2, FS_CardinalityType
<1>4. U \subseteq V => Cardinality(U) <= Cardinality(V)
  BY <1>1, FS_Subset
<1> HIDE DEF V
<1>5. /\ IsFiniteSet(U) /\ Cardinality(U) <= Cardinality(T)
      /\ U \subseteq V => Cardinality(U) + 1 <= Cardinality(T)
  BY <1>1, <1>2, <1>3, <1>4
<1> QED BY <1>5 DEF V

(* The ends of a message are counted, and change with the handled messages *)
(* and the dead letters only.                                              *)
DeadOf(m) == {k \in DOMAIN dlq : dlq[k].msg = m}

LEMMA EndsType ==
  ASSUME TypeOK, NEW m \in Messages
  PROVE  /\ IsFiniteSet(DeadOf(m)) /\ Cardinality(DeadOf(m)) \in Nat
         /\ Ends(m) = handled[m] + Cardinality(DeadOf(m))
         /\ Ends(m) \in Nat /\ Bound \in Nat
<1>1. DOMAIN dlq = 1 .. Len(dlq) /\ Len(dlq) \in Nat
  BY LenProperties DEF TypeOK, RedisOK
<1>2. IsFiniteSet(1 .. Len(dlq))
  BY <1>1, FS_Interval
<1>3. IsFiniteSet(DeadOf(m)) /\ Cardinality(DeadOf(m)) \in Nat
  <2>1. DeadOf(m) \subseteq 1 .. Len(dlq)
    BY <1>1 DEF DeadOf
  <2>2. IsFiniteSet(DeadOf(m))
    BY <1>2, <2>1, FS_Subset
  <2> QED BY <2>2, FS_CardinalityType
<1>4. Ends(m) = handled[m] + Cardinality(DeadOf(m))
  BY DEF Ends, DeadOf
<1>5. handled[m] \in Nat /\ faults["crash"] \in Nat /\ faults["slow"] \in Nat
  BY FaultKindsLemma DEF TypeOK, HistoryOK
<1> QED BY <1>3, <1>4, <1>5 DEF Bound

LEMMA EndsSame ==
  ASSUME NEW m, UNCHANGED <<handled, dlq>>
  PROVE  Ends(m)' = Ends(m)
  BY DEF Ends

-----------------------------------------------------------------------------
(* The three ways in which a step keeps EndsLeft.                          *)
LEMMA KeepsEndsLeft ==
  ASSUME TypeOK, TypeOK', NEW m \in Messages, EndsLeft(m),
         NEW x \in Holders, NEW y \in Holders, Passes(x, y, 0),
         Ends(m)' <= Ends(m), Bound <= Bound'
  PROVE  EndsLeft(m)'
<1>1. 0 \notin Entries
  BY DEF Entries, TypeOK, RedisOK
<1>2. /\ IsFiniteSet(Chances(m)) /\ IsFiniteSet(Chances(m)')
      /\ Cardinality(Chances(m)') <= Cardinality(Chances(m))
  BY <1>1, PassesLemma DEF EndsLeft
<1>3. /\ Cardinality(Chances(m)) \in Nat /\ Cardinality(Chances(m)') \in Nat
      /\ Ends(m) \in Nat /\ Bound \in Nat /\ Ends(m)' \in Nat /\ Bound' \in Nat
  <2>1. Cardinality(Chances(m)) \in Nat /\ Cardinality(Chances(m)') \in Nat
    BY <1>2, FS_CardinalityType
  <2>2. Ends(m) \in Nat /\ Bound \in Nat
    BY EndsType
  <2>3. (TypeOK => Ends(m) \in Nat /\ Bound \in Nat)'
    BY EndsType, PTL
  <2> QED BY <2>1, <2>2, <2>3
<1>4. Of(m)' = Of(m)
  BY DEF Passes, Of, Entries
<1> QED BY <1>2, <1>3, <1>4 DEF EndsLeft

(* A fault gives Redis one more chance.                                    *)
LEMMA FaultEndsLeft ==
  ASSUME TypeOK, TypeOK', NEW m \in Messages, EndsLeft(m),
         NEW x \in Holders, NEW y \in Holders, NEW k, Passes(x, y, k),
         UNCHANGED <<handled, dlq>>, Bound' = Bound + 1
  PROVE  EndsLeft(m)'
<1>1. /\ IsFiniteSet(Chances(m)) /\ IsFiniteSet(Chances(m)')
      /\ Cardinality(Chances(m)') <= Cardinality(Chances(m)) + 1
  BY PassesLemma DEF EndsLeft
<1>2. /\ Cardinality(Chances(m)) \in Nat /\ Cardinality(Chances(m)') \in Nat
      /\ Ends(m) \in Nat /\ Bound \in Nat /\ Ends(m)' = Ends(m)
  <2>1. Cardinality(Chances(m)) \in Nat /\ Cardinality(Chances(m)') \in Nat
    BY <1>1, FS_CardinalityType
  <2> QED BY <2>1, EndsType, EndsSame
<1>3. Of(m)' = Of(m)
  BY DEF Passes, Of, Entries
<1> QED BY <1>1, <1>2, <1>3 DEF EndsLeft

(* An end, or a copy of the entry, uses up the chance of the consumer.     *)
LEMMA UsedEndsLeft ==
  ASSUME TypeOK, TypeOK', NEW m \in Messages, EndsLeft(m), Of(m) # {},
         NEW t \in Chances(m), NEW u, Chances(m)' \subseteq (Chances(m) \ {t}) \cup {u},
         \/ Ends(m)' = Ends(m)
         \/ Ends(m)' = Ends(m) + 1 /\ Chances(m)' \subseteq Chances(m) \ {t},
         Of(m)' # {}, UNCHANGED faults
  PROVE  EndsLeft(m)'
<1>1. /\ IsFiniteSet(Chances(m)) /\ IsFiniteSet(Chances(m)')
      /\ Cardinality(Chances(m)') <= Cardinality(Chances(m))
      /\ Chances(m)' \subseteq Chances(m) \ {t} =>
           Cardinality(Chances(m)') + 1 <= Cardinality(Chances(m))
  BY UsedLemma DEF EndsLeft
<1>2. /\ Cardinality(Chances(m)) \in Nat /\ Cardinality(Chances(m)') \in Nat
      /\ Ends(m) \in Nat /\ Bound \in Nat /\ Bound' = Bound
  <2>1. Cardinality(Chances(m)) \in Nat /\ Cardinality(Chances(m)') \in Nat
    BY <1>1, FS_CardinalityType
  <2>2. Bound' = Bound
    BY DEF Bound
  <2> QED BY <2>1, <2>2, EndsType
<1> QED BY <1>1, <1>2 DEF EndsLeft

(* A dead letter more for its message, none for the others.                *)
LEMMA EndsAppend ==
  ASSUME TypeOK, NEW d \in Dead, dlq' = Append(dlq, d), UNCHANGED handled, NEW m \in Messages
  PROVE  Ends(m)' = IF d.msg = m THEN Ends(m) + 1 ELSE Ends(m)
<1>1. /\ Len(dlq) \in Nat /\ DOMAIN dlq = 1 .. Len(dlq) /\ DOMAIN dlq' = 1 .. Len(dlq) + 1
      /\ \A k \in 1 .. Len(dlq) : dlq'[k] = dlq[k]
      /\ dlq'[Len(dlq) + 1] = d
  <2>1. /\ Len(dlq) \in Nat /\ DOMAIN dlq = 1 .. Len(dlq)
        /\ dlq' \in Seq(Dead) /\ Len(dlq') = Len(dlq) + 1
        /\ \A k \in 1 .. Len(dlq) : dlq'[k] = dlq[k]
        /\ dlq'[Len(dlq) + 1] = d
    BY AppendProperties, LenProperties DEF TypeOK, RedisOK
  <2> QED BY <2>1, LenProperties
<1>2. Len(dlq) + 1 \notin DeadOf(m)
  BY <1>1 DEF DeadOf
<1>3. DeadOf(m)' = IF d.msg = m THEN DeadOf(m) \cup {Len(dlq) + 1} ELSE DeadOf(m)
  BY <1>1 DEF DeadOf
<1>4. /\ IsFiniteSet(DeadOf(m)) /\ Cardinality(DeadOf(m)) \in Nat
      /\ Ends(m) = handled[m] + Cardinality(DeadOf(m)) /\ handled[m] \in Nat
  BY EndsType DEF TypeOK, HistoryOK
<1>5. Cardinality(DeadOf(m) \cup {Len(dlq) + 1}) = Cardinality(DeadOf(m)) + 1
  BY <1>2, <1>4, FS_AddElement
<1>6. Ends(m)' = handled[m] + Cardinality(DeadOf(m)')
  BY DEF Ends, DeadOf
<1> QED BY <1>3, <1>4, <1>5, <1>6

-----------------------------------------------------------------------------
LEMMA HoldersLemma == NoConsumer \notin Consumers /\ Consumers \subseteq Holders /\ NoConsumer \in Holders
<1>1. \E x : x \notin Consumers
  BY NoSetContainsEverything
<1> QED BY <1>1 DEF NoConsumer, Holders

LEMMA DuplicatesInit == Init => DuplicatesInv
<1> SUFFICES ASSUME Init PROVE DuplicatesInv
  OBVIOUS
<1>1. TypeOK
  BY TypeInit
<1>2. HandsOK
  BY DEF Init, HandsOK
<1>3. ASSUME NEW m \in Messages PROVE EndsLeft(m)
  <2>1. Len(log) = 0 /\ Entries = {}
    BY EmptySeq DEF Init, Entries
  <2>2. Chances(m) = {} /\ Of(m) = {}
    BY <2>1 DEF Chances, Of
  <2>3. DeadOf(m) = {}
    <3>1. DOMAIN dlq = 1 .. 0
      BY DEF Init
    <3> QED BY <3>1 DEF DeadOf
  <2>4. Ends(m) = 0
    <3>1. Cardinality(DeadOf(m)) = 0 /\ handled[m] = 0
      BY <2>3, FS_EmptySet DEF Init
    <3> QED BY <1>1, <3>1, EndsType
  <2>5. Bound = 1
    BY FaultKindsLemma DEF Init, Bound
  <2> QED BY <2>2, <2>4, <2>5, FS_EmptySet DEF EndsLeft
<1> QED BY <1>1, <1>2, <1>3 DEF DuplicatesInv

(* What the consumers hold and what is pending, from step to step.         *)
LEMMA HandsStep == DuplicatesInv /\ [Next]_vars => HandsOK'
<1> SUFFICES ASSUME DuplicatesInv, [Next]_vars PROVE HandsOK'
  OBVIOUS
<1> USE ConstantsAssumption
<1>0. /\ HandsOK /\ RedisOK /\ ConsumersOK /\ trimmed \in Nat /\ cursor \in Nat
      /\ pc \in [Consumers -> Stages] /\ current \in [Consumers -> 0 .. Len(log)]
      /\ batch \in [Consumers -> SUBSET Entries] /\ pel \subseteq Entries /\ Len(log) \in Nat
  BY DEF DuplicatesInv, TypeOK, RedisOK, ConsumersOK
<1>1. ASSUME NEW m \in Messages, Publish(m) PROVE HandsOK'
  BY <1>0, <1>1 DEF Publish, HandsOK, consumers
<1>2. ASSUME NEW c \in Consumers, Start(c) PROVE HandsOK'
  BY <1>0, <1>2 DEF Start, HandsOK, Entries
<1>3. ASSUME NEW c \in Consumers, ClaimTimer(c) PROVE HandsOK'
  BY <1>0, <1>3 DEF ClaimTimer, HandsOK, redis
<1>4. ASSUME NEW c \in Consumers, Claim(c) PROVE HandsOK'
  BY <1>0, <1>4 DEF Claim, Reassign, HandsOK
<1>5. ASSUME Deliver PROVE \A i \in pel' : i <= cursor'
  BY <1>0, <1>5 DEF Deliver, Fresh, Newest, Oldest, HandsOK, Entries
<1>6. ASSUME NEW c \in Consumers, Read(c) PROVE HandsOK'
  BY <1>0, <1>5, <1>6 DEF Read, HandsOK
<1>7. ASSUME NEW c \in Consumers, ClaimError(c) PROVE HandsOK'
  BY <1>0, <1>7 DEF ClaimError, NextPass, Reassign, HandsOK, redis
<1>8. ASSUME NEW c \in Consumers, ReadError(c) PROVE HandsOK'
  BY <1>0, <1>5, <1>8 DEF ReadError, NextPass, HandsOK, redis
<1>9. ASSUME NEW c \in Consumers, HandleOk(c) \/ HandleFail(c) PROVE HandsOK'
  BY <1>0, <1>9 DEF HandleOk, HandleFail, HandsOK, redis
<1>10. ASSUME NEW c \in Consumers, Requeue(c) \/ DeadLetter(c) PROVE HandsOK'
  BY <1>0, <1>10 DEF Requeue, DeadLetter, HandsOK
<1>11. ASSUME NEW c \in Consumers, Ack(c) PROVE HandsOK'
  BY <1>0, <1>11 DEF Ack, HandsOK
<1>12. ASSUME NEW c \in Consumers, Crash(c) PROVE HandsOK'
  BY <1>0, <1>12 DEF Crash, HandsOK, redis
<1>13. ASSUME NEW i \in pel, Expire(i) PROVE HandsOK'
  BY <1>0, <1>13 DEF Expire, HandsOK, consumers
<1>14. ASSUME Wipe PROVE HandsOK'
  BY <1>0, <1>14 DEF Wipe, HandsOK, consumers
<1>15. ASSUME UNCHANGED vars PROVE HandsOK'
  BY <1>0, <1>15 DEF vars, redis, consumers, HandsOK
<1> QED
  BY <1>1, <1>2, <1>3, <1>4, <1>6, <1>7, <1>8, <1>9, <1>10, <1>11, <1>12, <1>13, <1>14, <1>15
     DEF Next, Step

(* Passes, for a step in which c alone changes what it holds.              *)
LEMMA PassesIf ==
  ASSUME UNCHANGED log, NEW x \in Holders, NEW y \in Holders, NEW k,
         \A c \in Consumers, i \in Entries : InHand(c, i)' =>
            InHand(c, i) \/ (c = y /\ Takes(x, i) /\ ~Takes(x, i)'),
         \A i \in Entries : Loose(i)' =>
            Loose(i) \/ i = k \/ (NoConsumer = y /\ Takes(x, i) /\ ~Takes(x, i)')
  PROVE  Passes(x, y, k)
<1> SUFFICES ASSUME NEW w \in Holders, NEW i \in Entries, Takes(w, i)'
             PROVE  \/ Takes(w, i)
                    \/ w = y /\ Takes(x, i) /\ ~Takes(x, i)'
                    \/ w = NoConsumer /\ i = k
  BY DEF Passes
<1>1. CASE w = NoConsumer
  BY <1>1, HoldersLemma DEF Takes
<1>2. CASE w \in Consumers
  BY <1>2, HoldersLemma DEF Takes
<1> QED BY <1>1, <1>2 DEF Holders

(* The steps that leave the messages' ends alone, but for crashes, slow    *)
(* handlers and XADDs.                                                     *)
LEMMA QuietPasses ==
  ASSUME DuplicatesInv, [Next]_vars,
         \/ \E c \in Consumers :
              Start(c) \/ ClaimTimer(c) \/ Claim(c) \/ Read(c) \/ ClaimError(c) \/ ReadError(c)
                \/ HandleFail(c) \/ Ack(c)
         \/ \E i \in pel : Expire(i) /\ ~Held(i)
         \/ Wipe \/ UNCHANGED vars
  PROVE  \E x \in Holders, y \in Holders : Passes(x, y, 0)
<1> USE ConstantsAssumption, HoldersLemma
<1>0. /\ HandsOK /\ RedisOK /\ trimmed \in Nat /\ cursor \in Nat
      /\ pc \in [Consumers -> Stages] /\ current \in [Consumers -> 0 .. Len(log)]
      /\ batch \in [Consumers -> SUBSET Entries] /\ pel \subseteq Entries /\ Len(log) \in Nat
      /\ stale \subseteq pel /\ Entries \subseteq Nat /\ BatchSize \in Nat /\ cursor <= Len(log)
  BY DEF DuplicatesInv, TypeOK, RedisOK, ConsumersOK, Entries
<1>1. ASSUME NEW c \in Consumers, Start(c) PROVE Passes(c, c, 0)
  <2>1. /\ UNCHANGED <<log, trimmed, pel, stale, batch>> /\ cursor <= cursor'
        /\ cursor' \in Nat
    BY <1>0, <1>1 DEF Start
  <2>3. \A i \in Entries : Loose(i)' => Loose(i)
    <3>1. \A i : Held(i)' <=> Held(i)
      BY <2>1 DEF Held
    <3>2. \A i \in Entries : i > cursor' => i > cursor
      BY <1>0, <2>1
    <3> QED BY <2>1, <3>1, <3>2 DEF Loose
  <2>2. \A b \in Consumers, i \in Entries : InHand(b, i)' => InHand(b, i)
    BY <1>0, <1>1 DEF Start, InHand
  <2> QED BY <2>1, <2>2, <2>3, PassesIf
<1>2. ASSUME NEW c \in Consumers, ClaimTimer(c) PROVE Passes(c, c, 0)
  <2>1. \A i : Loose(i)' => Loose(i)
    BY <1>2 DEF ClaimTimer, Loose, Held, redis
  <2>2. \A b \in Consumers, i \in Entries : InHand(b, i)' => InHand(b, i)
    BY <1>2 DEF ClaimTimer, InHand
  <2> QED BY <1>2, <2>1, <2>2, PassesIf DEF ClaimTimer, redis
<1>3. ASSUME NEW c \in Consumers, Claim(c) PROVE Passes(NoConsumer, c, 0)
  <2>1. /\ UNCHANGED <<log, trimmed, cursor>>
        /\ pel' = {i \in pel : i > trimmed}
        /\ stale' = {i \in stale : i > trimmed} \ Claimable
        /\ batch' = [batch EXCEPT ![c] = Claimable] /\ batch[c] = {}
        /\ \A b \in Consumers \ {c} : pc'[b] = pc[b] /\ current'[b] = current[b]
    BY <1>0, <1>3 DEF Claim, Reassign, HandsOK
  <2>2. \A i \in Claimable : i \in stale /\ i \in pel /\ i > trimmed /\ i <= cursor
    BY <1>0 DEF Claimable, HandsOK
  <2>3. \A i : Held(i) => Held(i)'
    BY <1>0, <2>1 DEF Held
  <2>4. \A i \in Entries : Loose(i)' => Loose(i)
    BY <1>0, <2>1, <2>3 DEF Loose
  <2>5. \A i \in Claimable : Takes(NoConsumer, i) /\ ~Takes(NoConsumer, i)'
    <3> SUFFICES ASSUME NEW i \in Claimable PROVE Loose(i) /\ ~Loose(i)'
      BY DEF Takes
    <3>1. Held(i)' /\ i \notin stale'
      <4>1. batch'[c] = Claimable
        BY <1>0, <2>1
      <4>2. i \in Claimable
        OBVIOUS
      <4>3. i \notin stale'
        BY <2>1, <4>2
      <4> QED BY <4>1, <4>2, <4>3 DEF Held
    <3>2. i \in stale /\ i \in pel /\ i > trimmed /\ ~(i > cursor)
      <4>1. i \in stale /\ i \in pel /\ i > trimmed /\ i <= cursor
        BY <2>2
      <4>2. i \in Nat /\ cursor \in Nat
        BY <1>0, <4>1
      <4> QED BY <4>1, <4>2
    <3> QED BY <2>1, <3>1, <3>2 DEF Loose
  <2>6. \A b \in Consumers, i \in Entries : InHand(b, i)' => InHand(b, i) \/ (b = c /\ i \in Claimable)
    BY <1>0, <2>1 DEF InHand
  <2> QED BY <2>1, <2>4, <2>5, <2>6, PassesIf
<1>4. ASSUME Deliver
      PROVE  /\ UNCHANGED <<log, trimmed, stale>> /\ pel' = pel \cup Fresh
             /\ \A i \in Fresh : i > trimmed /\ i > cursor /\ ~(i > cursor') /\ i \notin stale
             /\ \A i \in Entries : i > cursor' => i > cursor
  <2>1. /\ Oldest \in Nat /\ cursor <= Oldest /\ trimmed <= Oldest
        /\ \A i \in Fresh : i \in Nat /\ i > Oldest /\ i <= Newest /\ Newest \in Nat
    BY <1>0 DEF Oldest, Newest, Fresh
  <2>2. Fresh # {} => cursor' = Newest
    BY <1>4 DEF Deliver
  <2> QED BY <1>0, <1>4, <2>1, <2>2 DEF Deliver, HandsOK
<1>5. ASSUME NEW c \in Consumers, Read(c) PROVE Passes(NoConsumer, c, 0)
  <2>1. /\ Deliver /\ batch' = [batch EXCEPT ![c] = @ \cup Fresh]
        /\ \A b \in Consumers \ {c} : pc'[b] = pc[b] /\ current'[b] = current[b]
        /\ pc[c] # "ack"
    BY <1>0, <1>5 DEF Read, ReadyToRead
  <2>2. \A i : Held(i) => Held(i)'
    BY <1>0, <2>1 DEF Held
  <2>3. \A i \in Fresh : Held(i)'
    BY <1>0, <2>1 DEF Held
  <2>4. \A i \in Entries : Loose(i)' => Loose(i)
    BY <1>4, <2>1, <2>2, <2>3 DEF Loose
  <2>5. \A i \in Fresh : Takes(NoConsumer, i) /\ ~Takes(NoConsumer, i)'
    <3>1. \A i \in Fresh : Loose(i) /\ ~Loose(i)'
      BY <1>4, <2>1, <2>3 DEF Loose
    <3> QED BY <3>1 DEF Takes
  <2>6. \A b \in Consumers, i \in Entries : InHand(b, i)' => InHand(b, i) \/ (b = c /\ i \in Fresh)
    BY <1>0, <2>1 DEF InHand
  <2> QED BY <1>4, <2>1, <2>4, <2>5, <2>6, PassesIf
<1>6. ASSUME NEW c \in Consumers, ClaimError(c) PROVE Passes(c, c, 0)
  <2>1. /\ batch' = [batch EXCEPT ![c] = {}] /\ batch[c] = {}
        /\ UNCHANGED <<log, trimmed, cursor>> /\ pel' \subseteq pel /\ stale' \subseteq stale
    BY <1>0, <1>6 DEF ClaimError, NextPass, Reassign, HandsOK, redis
  <2>2. batch' = batch
    BY <1>0, <2>1
  <2>3. \A i : Loose(i)' => Loose(i)
    BY <2>1, <2>2 DEF Loose, Held
  <2>4. \A b \in Consumers, i \in Entries : InHand(b, i)' => InHand(b, i)
    BY <1>0, <1>6, <2>1, <2>2 DEF ClaimError, NextPass, InHand
  <2> QED BY <2>1, <2>3, <2>4, PassesIf
<1>7. ASSUME NEW c \in Consumers, ReadError(c) PROVE Passes(c, NoConsumer, 0)
  <2>1. /\ batch' = [batch EXCEPT ![c] = {}] /\ pc[c] # "ack" /\ UNCHANGED <<log, current>>
        /\ \A b \in Consumers \ {c} : pc'[b] = pc[b]
        /\ Deliver \/ UNCHANGED redis
    BY <1>0, <1>7 DEF ReadError, NextPass, ReadyToRead, Deliver, redis
  <2>2. \A b \in Consumers, i \in Entries : InHand(b, i)' => InHand(b, i)
    BY <1>0, <2>1 DEF InHand
  <2>3. \A i : Held(i) => Held(i)' \/ i \in batch[c]
    BY <1>0, <2>1 DEF Held
  <2>4. \A i : i \in batch[c] => Takes(c, i) /\ ~Takes(c, i)'
    BY <1>0, <2>1 DEF Takes, InHand
  <2>5. \A i \in Entries : Loose(i)' => Loose(i) \/ i \in batch[c]
    <3>1. CASE Deliver
      BY <1>0, <1>4, <2>3, <3>1 DEF Loose
    <3>2. CASE UNCHANGED redis
      BY <2>3, <3>2 DEF Loose, redis
    <3> QED BY <2>1, <3>1, <3>2
  <2> QED BY <2>1, <2>2, <2>4, <2>5, PassesIf
<1>8. ASSUME NEW c \in Consumers, HandleFail(c) PROVE Passes(c, c, 0)
  <2>1. /\ UNCHANGED <<log, trimmed, cursor, pel, stale, batch>> /\ pc[c] # "ack"
        /\ \A b \in Consumers \ {c} : pc'[b] = pc[b] /\ current'[b] = current[b]
    BY <1>0, <1>8 DEF HandleFail, redis
  <2>2. \A i : Loose(i)' => Loose(i)
    BY <2>1 DEF Loose, Held
  <2>3. \A b \in Consumers, i \in Entries : InHand(b, i)' => InHand(b, i)
    BY <2>1 DEF InHand
  <2> QED BY <2>1, <2>2, <2>3, PassesIf
<1>9. ASSUME NEW c \in Consumers, Ack(c) PROVE Passes(c, c, 0)
  <2>1. /\ UNCHANGED <<log, trimmed, cursor>> /\ pel' = pel \ {current[c]}
        /\ stale' = stale \ {current[c]} /\ batch' = [batch EXCEPT ![c] = @ \ {current[c]}]
        /\ \A b \in Consumers \ {c} : pc'[b] = pc[b] /\ current'[b] = current[b]
    BY <1>0, <1>9 DEF Ack
  <2>2. \A i : i # current[c] /\ Held(i) => Held(i)'
    BY <1>0, <2>1 DEF Held
  <2>3. \A i : Loose(i)' => Loose(i)
    BY <2>1, <2>2 DEF Loose
  <2>4. \A b \in Consumers, i \in Entries : InHand(b, i)' => InHand(b, i)
    BY <1>0, <2>1 DEF InHand
  <2> QED BY <2>1, <2>3, <2>4, PassesIf
<1>10. ASSUME NEW k \in pel, Expire(k), ~Held(k) PROVE Passes(NoConsumer, NoConsumer, 0)
  <2>1. \A i : Loose(i)' => Loose(i)
    BY <1>10 DEF Expire, Loose, Held, consumers
  <2>2. \A b \in Consumers, i \in Entries : InHand(b, i)' => InHand(b, i)
    BY <1>10 DEF Expire, InHand, consumers
  <2> QED BY <1>10, <2>1, <2>2, PassesIf DEF Expire
<1>11. ASSUME Wipe PROVE Passes(NoConsumer, NoConsumer, 0)
  <2>1. /\ UNCHANGED <<log, pc, batch, current>> /\ trimmed' = Len(log)
    BY <1>11 DEF Wipe, consumers
  <2>2. \A i \in Entries : ~Loose(i)'
    BY <1>0, <2>1 DEF Loose, Entries
  <2>3. \A b \in Consumers, i \in Entries : InHand(b, i)' => InHand(b, i)
    BY <2>1 DEF InHand
  <2> QED BY <2>1, <2>2, <2>3, PassesIf
<1>12. ASSUME UNCHANGED vars PROVE Passes(NoConsumer, NoConsumer, 0)
  <2>1. \A i : Loose(i)' => Loose(i)
    BY <1>12 DEF vars, Loose, Held, redis, consumers
  <2>2. \A b \in Consumers, i \in Entries : InHand(b, i)' => InHand(b, i)
    BY <1>12 DEF vars, InHand, consumers
  <2> QED BY <1>12, <2>1, <2>2, PassesIf DEF vars, redis
<1> QED
  BY <1>1, <1>2, <1>3, <1>5, <1>6, <1>7, <1>8, <1>9, <1>10, <1>11, <1>12

(* XADD gives Redis the chance to deliver the new entry.                   *)
LEMMA XaddChances ==
  ASSUME TypeOK, NEW e \in Entry, Xadd(e), UNCHANGED <<cursor, pel, stale, batch>>,
         \A c \in Consumers, i \in Entries : InHand(c, i)' => InHand(c, i),
         NEW m \in Messages
  PROVE  /\ \A t \in Chances(m)' :
              t \in Chances(m) \/ (t = <<NoConsumer, Len(log) + 1>> /\ e.msg = m)
         /\ Of(m) \subseteq Of(m)' /\ Of(m)' \subseteq Of(m) \cup {Len(log) + 1}
         /\ e.msg # m => Of(m)' = Of(m)
<1>0. /\ Entries \subseteq Nat /\ trimmed \in Nat /\ Len(log) \in Nat
      /\ batch \in [Consumers -> SUBSET Entries]
  BY DEF TypeOK, RedisOK, ConsumersOK, Entries
<1>1. /\ \A i \in Entries : log'[i] = log[i]
      /\ log'[Len(log) + 1] = e
      /\ Entries' = Entries \cup {Len(log) + 1}
      /\ trimmed' \in trimmed .. Len(log)
  BY XaddLemma DEF TypeOK
<1>2. ASSUME NEW t \in Chances(m)'
      PROVE  t \in Chances(m) \/ (t = <<NoConsumer, Len(log) + 1>> /\ e.msg = m)
  <2>1. PICK w \in Holders, i \in Entries' : t = <<w, i>>
    BY DEF Chances
  <2>2. log'[i].msg = m /\ Takes(w, i)'
    BY <2>1 DEF Chances
  <2>3. CASE i \in Entries
    <3>1. trimmed < i \/ ~(trimmed' < i)
      BY <1>0, <1>1, <2>3
    <3>2. Loose(i)' => Loose(i)
      BY <3>1 DEF Loose, Held
    <3>3. Takes(w, i)
      BY <2>2, <2>3, <3>2 DEF Takes
    <3> QED BY <1>1, <2>1, <2>2, <2>3, <3>3 DEF Chances
  <2>4. CASE i \notin Entries
    <3>1. i = Len(log) + 1 /\ e.msg = m
      BY <1>1, <2>2, <2>4
    <3>2. \A c \in Consumers : ~InHand(c, i)'
      BY <1>0, <2>4 DEF InHand
    <3>3. w = NoConsumer
      BY <2>2, <3>2 DEF Takes
    <3> QED BY <2>1, <3>1, <3>3
  <2> QED BY <2>3, <2>4
<1>3. /\ Of(m) \subseteq Of(m)' /\ Of(m)' \subseteq Of(m) \cup {Len(log) + 1}
      /\ e.msg # m => Of(m)' = Of(m)
  BY <1>1 DEF Of
<1> QED BY <1>2, <1>3

(* The end of entry i in the hands of c.                                   *)
LEMMA EndOfEntry ==
  ASSUME DuplicatesInv, NEW c \in Consumers, NEW i \in batch[c], pc[c] # "ack",
         UNCHANGED <<log, trimmed, cursor, pel, stale, batch>>,
         pc'[c] = "ack", current'[c] = i,
         \A b \in Consumers \ {c} : pc'[b] = pc[b] /\ current'[b] = current[b],
         NEW m \in Messages
  PROVE  /\ Passes(c, c, 0)
         /\ log[i].msg = m => /\ <<c, i>> \in Chances(m) /\ Of(m) # {} /\ Of(m)' # {}
                              /\ Chances(m)' \subseteq Chances(m) \ {<<c, i>>}
<1> USE HoldersLemma
<1>0. i \in Entries
  BY DEF DuplicatesInv, TypeOK, ConsumersOK
<1>1. \A j : Loose(j)' => Loose(j)
  BY DEF Loose, Held
<1>2. \A b \in Consumers, j \in Entries : InHand(b, j)' => InHand(b, j)
  BY DEF InHand
<1>3. Passes(c, c, 0)
  BY <1>1, <1>2, PassesIf
<1>4. \A w, j : Takes(w, j)' => Takes(w, j)
  BY <1>1 DEF Takes, InHand
<1>5. ~Takes(c, i)' /\ Takes(c, i)
  BY DEF Takes, InHand
<1>6. Chances(m)' \subseteq Chances(m) \ {<<c, i>>}
  BY <1>4, <1>5 DEF Chances, Entries
<1>7. log[i].msg = m => <<c, i>> \in Chances(m) /\ i \in Of(m) /\ i \in Of(m)'
  BY <1>0, <1>5 DEF Chances, Of, Entries
<1> QED BY <1>3, <1>6, <1>7

LEMMA EndsStep ==
  ASSUME DuplicatesInv, [Next]_vars, NEW m \in Messages
  PROVE  EndsLeft(m)'
<1> USE ConstantsAssumption, HoldersLemma, FaultKindsLemma
<1>0. /\ TypeOK /\ TypeOK' /\ EndsLeft(m) /\ HandsOK
      /\ pc \in [Consumers -> Stages] /\ current \in [Consumers -> 0 .. Len(log)]
      /\ batch \in [Consumers -> SUBSET Entries] /\ pel \subseteq Entries
      /\ handled \in [Messages -> Nat]
      /\ faults \in [FaultKinds -> Nat] /\ Bound \in Nat /\ Ends(m) \in Nat
  BY TypeStep, EndsType DEF DuplicatesInv, TypeOK, RedisOK, ConsumersOK, HistoryOK
<1>1. ASSUME \/ \E c \in Consumers :
                  Start(c) \/ ClaimTimer(c) \/ Claim(c) \/ Read(c) \/ ClaimError(c) \/ ReadError(c)
                    \/ HandleFail(c) \/ Ack(c)
             \/ \E i \in pel : Expire(i) /\ ~Held(i)
             \/ Wipe \/ UNCHANGED vars
      PROVE  EndsLeft(m)'
  <2>1. PICK x \in Holders, y \in Holders : Passes(x, y, 0)
    BY <1>1, QuietPasses
  <2>2. /\ handled' = handled /\ (dlq' = dlq \/ dlq' = <<>>)
        /\ faults' = faults \/ Spend("error") \/ Spend("wipe")
    <3>1. ASSUME NEW c \in Consumers,
                 Start(c) \/ ClaimTimer(c) \/ Claim(c) \/ Read(c) \/ HandleFail(c) \/ Ack(c)
          PROVE  handled' = handled /\ dlq' = dlq /\ faults' = faults
      BY <3>1 DEF Start, ClaimTimer, Claim, Reassign, Read, Deliver, HandleFail, Ack, redis,
                  history
    <3>2. ASSUME NEW c \in Consumers, ClaimError(c) \/ ReadError(c)
          PROVE  handled' = handled /\ dlq' = dlq /\ (faults' = faults \/ Spend("error"))
      BY <3>2 DEF ClaimError, ReadError, Reassign, Deliver, redis
    <3>3. ASSUME NEW i \in pel, Expire(i), ~Held(i)
          PROVE  handled' = handled /\ dlq' = dlq /\ faults' = faults
      BY <3>3 DEF Expire
    <3>4. ASSUME Wipe PROVE handled' = handled /\ dlq' = <<>> /\ Spend("wipe")
      BY <3>4 DEF Wipe
    <3>5. ASSUME UNCHANGED vars PROVE handled' = handled /\ dlq' = dlq /\ faults' = faults
      BY <3>5 DEF vars, redis, history
    <3> QED BY <1>1, <3>1, <3>2, <3>3, <3>4, <3>5
  <2>3. Bound <= Bound'
    <3>1. \A k \in FaultKinds \ {"crash", "slow"} : Spend(k) =>
             faults'["crash"] = faults["crash"] /\ faults'["slow"] = faults["slow"]
      BY <1>0 DEF Spend
    <3>2. faults'["crash"] = faults["crash"] /\ faults'["slow"] = faults["slow"]
      BY <2>2, <3>1
    <3> QED BY <1>0, <3>2 DEF Bound
  <2>4. Ends(m)' <= Ends(m)
    <3>1. CASE dlq' = dlq
      BY <1>0, <2>2, <3>1, EndsSame
    <3>2. CASE dlq' = <<>>
      <4>1. DeadOf(m)' = {}
        BY <3>2 DEF DeadOf
      <4>2. Ends(m)' = handled[m] + Cardinality(DeadOf(m)')
        BY <2>2 DEF Ends, DeadOf
      <4>3. Ends(m)' = handled[m]
        BY <1>0, <4>1, <4>2, FS_EmptySet
      <4>4. Ends(m) = handled[m] + Cardinality(DeadOf(m)) /\ Cardinality(DeadOf(m)) \in Nat
        BY <1>0, EndsType
      <4> QED BY <1>0, <4>3, <4>4
    <3> QED BY <2>2, <3>1, <3>2
  <2> QED BY <1>0, <2>1, <2>3, <2>4, KeepsEndsLeft
<1>2. ASSUME NEW n \in Messages, Publish(n)
      PROVE  EndsLeft(m)'
  <2> DEFINE e == [msg |-> n, retry |-> 0]
             u == <<NoConsumer, Len(log) + 1>>
  <2>1. /\ e \in Entry /\ Xadd(e) /\ UNCHANGED <<cursor, pel, stale, batch, pc, current>>
        /\ UNCHANGED <<handled, dlq, faults>> /\ e.msg = n
    BY <1>2 DEF Publish, Entry, consumers, history
  <2>2. \A c \in Consumers, i \in Entries : InHand(c, i)' => InHand(c, i)
    BY <2>1 DEF InHand
  <2>3. /\ \A t \in Chances(m)' : t \in Chances(m) \/ (t = u /\ e.msg = m)
        /\ Of(m) \subseteq Of(m)'
    <3> HIDE DEF e
    <3> QED BY <1>0, <2>1, <2>2, XaddChances
  <2>4. Ends(m)' = Ends(m) /\ Bound' = Bound
    BY <2>1, EndsSame DEF Bound
  <2>5. CASE n = m
    <3>1. Of(m) = {}
      BY <1>2, <2>5 DEF Publish, Of
    <3>2. Chances(m) = {} /\ Ends(m) = 0
      BY <1>0, <3>1 DEF Chances, Of, EndsLeft
    <3>3. Chances(m)' \subseteq {u}
      BY <2>3, <3>2
    <3>4. IsFiniteSet(Chances(m)') /\ Cardinality(Chances(m)') <= 1
      <4>1. IsFiniteSet({u}) /\ Cardinality({u}) = 1
        BY FS_Singleton
      <4> HIDE DEF u
      <4> QED BY <3>3, <4>1, FS_Subset
    <3>5. Cardinality(Chances(m)') \in Nat
      BY <3>4, FS_CardinalityType
    <3>6. Bound \in Nat /\ 1 <= Bound
      BY <1>0 DEF Bound
    <3>7. Ends(m)' + Cardinality(Chances(m)') <= Bound'
      BY <2>4, <3>2, <3>4, <3>5, <3>6
    <3> QED BY <2>4, <3>2, <3>4, <3>7 DEF EndsLeft
  <2>6. CASE n # m
    <3>1. Chances(m)' \subseteq Chances(m)
      BY <2>1, <2>3, <2>6
    <3>2. /\ IsFiniteSet(Chances(m)) /\ IsFiniteSet(Chances(m)')
          /\ Cardinality(Chances(m)') <= Cardinality(Chances(m))
      BY <1>0, <3>1, FS_Subset DEF EndsLeft
    <3>3. Cardinality(Chances(m)') \in Nat /\ Cardinality(Chances(m)) \in Nat
      BY <3>2, FS_CardinalityType
    <3>4. Of(m)' = {} => Of(m) = {}
      BY <2>3
    <3> QED BY <1>0, <2>4, <3>2, <3>3, <3>4 DEF EndsLeft
  <2> QED BY <2>5, <2>6
<1>3. ASSUME NEW c \in Consumers, HandleOk(c)
      PROVE  EndsLeft(m)'
  <2> PICK i \in batch[c] : /\ current' = [current EXCEPT ![c] = i]
                            /\ handled' = [handled EXCEPT ![log[i].msg] = @ + 1]
    BY <1>3 DEF HandleOk
  <2>1. /\ pc[c] # "ack" /\ UNCHANGED <<log, trimmed, cursor, pel, stale, batch, dlq, faults>>
        /\ pc'[c] = "ack" /\ current'[c] = i
        /\ \A b \in Consumers \ {c} : pc'[b] = pc[b] /\ current'[b] = current[b]
    BY <1>0, <1>3 DEF HandleOk, redis
  <2>2. /\ Passes(c, c, 0)
        /\ log[i].msg = m => /\ <<c, i>> \in Chances(m) /\ Of(m) # {} /\ Of(m)' # {}
                             /\ Chances(m)' \subseteq Chances(m) \ {<<c, i>>}
    BY <2>1, EndOfEntry
  <2>3. handled'[m] = IF log[i].msg = m THEN handled[m] + 1 ELSE handled[m]
    BY <1>0
  <2>4. Ends(m)' = IF log[i].msg = m THEN Ends(m) + 1 ELSE Ends(m)
    <3>1. Ends(m) = handled[m] + Cardinality(DeadOf(m)) /\ Cardinality(DeadOf(m)) \in Nat
      BY <1>0, EndsType
    <3>2. Ends(m)' = handled'[m] + Cardinality(DeadOf(m))
      BY <2>1 DEF Ends, DeadOf
    <3> QED BY <1>0, <2>3, <3>1, <3>2
  <2>5. CASE log[i].msg = m
    BY <1>0, <2>1, <2>2, <2>4, <2>5, UsedEndsLeft
  <2>6. CASE log[i].msg # m
    <3>1. Ends(m)' <= Ends(m) /\ Bound <= Bound'
      BY <1>0, <2>1, <2>4, <2>6 DEF Bound
    <3> QED BY <1>0, <2>2, <3>1, KeepsEndsLeft
  <2> QED BY <2>5, <2>6
<1>4. ASSUME NEW c \in Consumers, DeadLetter(c)
      PROVE  EndsLeft(m)'
  <2> DEFINE i == current[c]
             d == [msg |-> log[i].msg, entry |-> i, retry |-> log[i].retry + 1]
  <2>1. /\ pc[c] # "ack" /\ i \in batch[c] /\ i \in Entries
        /\ UNCHANGED <<log, trimmed, cursor, pel, stale, batch, handled, faults, current>>
        /\ pc'[c] = "ack" /\ dlq' = Append(dlq, d)
        /\ \A b \in Consumers \ {c} : pc'[b] = pc[b]
    BY <1>0, <1>4 DEF DeadLetter, HandsOK, history
  <2>2. d \in Dead /\ d.msg = log[i].msg
    <3>1. log[i] \in Entry /\ i \in Nat
      BY <1>0, <2>1 DEF TypeOK, RedisOK, Entries
    <3> QED BY <3>1 DEF Dead, Entry
  <2> HIDE DEF d, i
  <2>3. /\ Passes(c, c, 0)
        /\ log[i].msg = m => /\ <<c, i>> \in Chances(m) /\ Of(m) # {} /\ Of(m)' # {}
                             /\ Chances(m)' \subseteq Chances(m) \ {<<c, i>>}
    <3>1. current'[c] = i
      BY <2>1 DEF i
    <3> QED BY <2>1, <3>1, EndOfEntry
  <2>4. Ends(m)' = IF log[i].msg = m THEN Ends(m) + 1 ELSE Ends(m)
    BY <1>0, <2>1, <2>2, EndsAppend
  <2>5. CASE log[i].msg = m
    BY <1>0, <2>1, <2>3, <2>4, <2>5, UsedEndsLeft
  <2>6. CASE log[i].msg # m
    <3>1. Ends(m)' <= Ends(m) /\ Bound <= Bound'
      BY <1>0, <2>1, <2>4, <2>6 DEF Bound
    <3> QED BY <1>0, <2>3, <3>1, KeepsEndsLeft
  <2> QED BY <2>5, <2>6
<1>5. ASSUME NEW c \in Consumers, Requeue(c)
      PROVE  EndsLeft(m)'
  <2> PICK i : i = current[c]
    OBVIOUS
  <2> DEFINE e == [msg |-> log[i].msg, retry |-> log[i].retry + 1]
             u == <<NoConsumer, Len(log) + 1>>
  <2>1. /\ pc[c] # "ack" /\ i \in batch[c] /\ i \in Entries /\ Xadd(e)
        /\ e.retry <= MaxRetries
        /\ UNCHANGED <<cursor, pel, stale, batch, dlq, handled, faults, current>>
        /\ pc'[c] = "ack"
        /\ \A b \in Consumers \ {c} : pc'[b] = pc[b]
    BY <1>0, <1>5 DEF Requeue, HandsOK, history
  <2>2. e \in Entry /\ e.msg = log[i].msg
    <3>0. TypeOK
      BY <1>0
    <3>1. log \in Seq(Entry) /\ i \in 1 .. Len(log)
      BY <2>1, <3>0 DEF TypeOK, RedisOK, Entries
    <3>2. log[i] \in Entry
      BY <3>1, ElementOfSeq
    <3> QED BY <2>1, <3>2 DEF Entry
  <2> HIDE DEF e
  <2>3. \A b \in Consumers, j \in Entries : InHand(b, j)' => InHand(b, j)
    BY <2>1 DEF InHand
  <2>4. Takes(c, i) /\ ~Takes(c, i)'
    BY <2>1 DEF Takes, InHand
  <2>5. /\ \A t \in Chances(m)' : t \in Chances(m) \/ (t = u /\ e.msg = m)
        /\ Of(m) \subseteq Of(m)' /\ (e.msg # m => Of(m)' = Of(m))
    BY <1>0, <2>1, <2>2, <2>3, XaddChances
  <2>6. Ends(m)' = Ends(m) /\ Bound' = Bound
    BY <2>1, EndsSame DEF Bound
  <2>7. CASE e.msg = m
    <3>1. <<c, i>> \in Chances(m) /\ i \in Of(m)
      BY <2>1, <2>2, <2>4, <2>7 DEF Chances, Of
    <3>2. <<c, i>> \notin Chances(m)'
      BY <2>4 DEF Chances
    <3>3. Chances(m)' \subseteq (Chances(m) \ {<<c, i>>}) \cup {u}
      BY <2>5, <3>2
    <3>4. Of(m) # {} /\ Of(m)' # {}
      BY <2>5, <3>1
    <3> HIDE DEF u
    <3> QED BY <1>0, <2>1, <2>6, <3>1, <3>3, <3>4, UsedEndsLeft
  <2>8. CASE e.msg # m
    <3>1. Chances(m)' \subseteq Chances(m)
      BY <2>5, <2>8
    <3>2. /\ IsFiniteSet(Chances(m)) /\ IsFiniteSet(Chances(m)')
          /\ Cardinality(Chances(m)') <= Cardinality(Chances(m))
      BY <1>0, <3>1, FS_Subset DEF EndsLeft
    <3>3. Cardinality(Chances(m)') \in Nat /\ Cardinality(Chances(m)) \in Nat
      BY <3>2, FS_CardinalityType
    <3>4. Of(m)' = {} => Of(m) = {}
      BY <2>5
    <3> QED BY <1>0, <2>6, <3>2, <3>3, <3>4 DEF EndsLeft
  <2> QED BY <2>7, <2>8
<1>6. ASSUME NEW c \in Consumers, Crash(c)
      PROVE  EndsLeft(m)'
  <2>1. /\ UNCHANGED <<log, trimmed, cursor, pel, stale, dlq, handled>>
        /\ batch' = [batch EXCEPT ![c] = {}] /\ Spend("crash")
        /\ \A b \in Consumers \ {c} : pc'[b] = pc[b] /\ current'[b] = current[b]
    BY <1>0, <1>6 DEF Crash, redis
  <2>2. \A b \in Consumers, i \in Entries : InHand(b, i)' => InHand(b, i)
    BY <1>0, <2>1 DEF InHand
  <2>3. \A i : Held(i) => Held(i)' \/ i \in batch[c]
    BY <1>0, <2>1 DEF Held
  <2>4. \A i : i \in batch[c] => i = current[c] \/ (Takes(c, i) /\ ~Takes(c, i)')
    BY <1>0, <2>1 DEF Takes, InHand
  <2>5. \A i : Loose(i)' => Loose(i) \/ i \in batch[c]
    BY <2>1, <2>3 DEF Loose
  <2>6. Passes(c, NoConsumer, current[c])
    BY <2>1, <2>2, <2>4, <2>5, PassesIf
  <2>7. Bound' = Bound + 1
    BY <1>0, <2>1 DEF Spend, Bound
  <2> QED BY <1>0, <2>1, <2>6, <2>7, FaultEndsLeft
<1>7. ASSUME NEW k \in pel, Expire(k), Held(k)
      PROVE  EndsLeft(m)'
  <2>1. /\ UNCHANGED <<log, trimmed, cursor, pel, dlq, handled, pc, batch, current>>
        /\ stale' = stale \cup {k} /\ Spend("slow")
    BY <1>7 DEF Expire, consumers
  <2>2. \A b \in Consumers, i \in Entries : InHand(b, i)' => InHand(b, i)
    BY <2>1 DEF InHand
  <2>3. \A i : Loose(i)' => Loose(i) \/ i = k
    BY <2>1 DEF Loose, Held
  <2>4. Passes(NoConsumer, NoConsumer, k)
    BY <2>1, <2>2, <2>3, PassesIf
  <2>5. Bound' = Bound + 1
    BY <1>0, <2>1 DEF Spend, Bound
  <2> QED BY <1>0, <2>1, <2>4, <2>5, FaultEndsLeft
<1> QED BY <1>1, <1>2, <1>3, <1>4, <1>5, <1>6, <1>7 DEF Next, Step

(* A message is handled or dead-lettered once, and once more at most for   *)
(* each crash of a consumer and each handler slower than min_idle_ms: no   *)
(* interleaving of claims, reads, retries, lost replies and acks delivers  *)
(* it again without one.                                                   *)
THEOREM DuplicatesTheorem == Spec => []DuplicatesNeedFaults
<1>1. DuplicatesInv /\ [Next]_vars => DuplicatesInv'
  BY HandsStep, EndsStep, TypeStep DEF DuplicatesInv
<1>2. DuplicatesInv => DuplicatesNeedFaults
  <2> SUFFICES ASSUME DuplicatesInv, NEW m \in Messages
               PROVE  Ends(m) <= 1 + faults["crash"] + faults["slow"]
    BY DEF DuplicatesNeedFaults
  <2>1. IsFiniteSet(Chances(m)) /\ Ends(m) + Cardinality(Chances(m)) <= Bound
    BY DEF DuplicatesInv, EndsLeft
  <2>2. Cardinality(Chances(m)) \in Nat /\ Ends(m) \in Nat /\ Bound \in Nat
    BY <2>1, FS_CardinalityType, EndsType DEF DuplicatesInv
  <2>3. Ends(m) <= Bound
    BY <2>1, <2>2
  <2> QED BY <2>3 DEF Bound
<1> QED BY <1>1, <1>2, DuplicatesInit, PTL DEF Spec

-----------------------------------------------------------------------------
(***************************************************************************)
(* The stream implements AtLeastOnce.  Every step maps to one of its       *)
(* actions or to a stutter:                                                *)
(*   Publish, Requeue   Enqueue, which waives what XADD trims;             *)
(*   HandleOk           Handle;                                            *)
(*   DeadLetter         GiveUp;                                            *)
(*   Ack                Close, of a message that has settled;              *)
(*   Start, Wipe        Waive, of all that is known;                       *)
(*   the others         nothing.                                           *)
(* That a message is known before it is handled, waived or given up, and   *)
(* settled before it is closed, is NoSilentLoss.                           *)
(***************************************************************************)
OpenSet   == {m \in Messages : IsOpen(m)}
DoneSet   == {m \in Messages : Handled(m)}
DeadSet   == {m \in Messages : DeadLettered(m)}
WaivedSet == {m \in Messages : Waived(m)}
KnownSet  == OpenSet \cup DoneSet \cup DeadSet \cup WaivedSet

AbstractStutter == UNCHANGED <<OpenSet, DoneSet, DeadSet, WaivedSet>>

AbstractEnqueue(m, W) ==
  /\ W \subseteq KnownSet
  /\ OpenSet \ W \subseteq OpenSet' /\ OpenSet' \subseteq OpenSet \cup {m}
  /\ WaivedSet' = WaivedSet \cup W
  /\ UNCHANGED <<DoneSet, DeadSet>>

AbstractWaive(W) ==
  /\ W \subseteq KnownSet
  /\ WaivedSet' = WaivedSet \cup W
  /\ OpenSet \ W \subseteq OpenSet' /\ OpenSet' \subseteq OpenSet
  /\ DeadSet \ W \subseteq DeadSet' /\ DeadSet' \subseteq DeadSet
  /\ UNCHANGED DoneSet

AbstractStep ==
  \/ AbstractStutter
  \/ \E m \in Messages, W \in SUBSET Messages : AbstractEnqueue(m, W)
  \/ \E m \in Messages :
       \/ /\ m \in KnownSet /\ DoneSet' = DoneSet \cup {m}
          /\ UNCHANGED <<OpenSet, DeadSet, WaivedSet>>
       \/ /\ m \in KnownSet /\ DeadSet' = DeadSet \cup {m}
          /\ UNCHANGED <<OpenSet, DoneSet, WaivedSet>>
  \/ \E S \in SUBSET Messages :
       /\ S \subseteq OpenSet \cap (DoneSet \cup DeadSet \cup WaivedSet)
       /\ OpenSet' = OpenSet \ S
       /\ UNCHANGED <<DoneSet, DeadSet, WaivedSet>>
  \/ \E W \in SUBSET Messages : AbstractWaive(W)

LEMMA AbstractStepIsNext == AbstractStep => [ALO!Next]_(ALO!vars)
<1> SUFFICES ASSUME AbstractStep PROVE [ALO!Next]_(ALO!vars)
  OBVIOUS
<1> USE DEF OpenSet, DoneSet, DeadSet, WaivedSet, KnownSet
<1>1. CASE AbstractStutter
  BY <1>1 DEF AbstractStutter, ALO!vars
<1>2. ASSUME NEW m \in Messages, NEW W \in SUBSET Messages, AbstractEnqueue(m, W)
      PROVE  ALO!Next
  <2>1. ALO!Enqueue(m, W)
    BY <1>2 DEF AbstractEnqueue, ALO!Enqueue, ALO!Known
  <2> QED BY <2>1 DEF ALO!Next
<1>3. ASSUME NEW m \in Messages, m \in KnownSet, DoneSet' = DoneSet \cup {m},
             UNCHANGED <<OpenSet, DeadSet, WaivedSet>>
      PROVE  ALO!Next
  <2>1. ALO!Handle(m)
    BY <1>3 DEF ALO!Handle, ALO!Known
  <2> QED BY <2>1 DEF ALO!Next
<1>4. ASSUME NEW m \in Messages, m \in KnownSet, DeadSet' = DeadSet \cup {m},
             UNCHANGED <<OpenSet, DoneSet, WaivedSet>>
      PROVE  ALO!Next
  <2>1. ALO!GiveUp(m)
    BY <1>4 DEF ALO!GiveUp, ALO!Known
  <2> QED BY <2>1 DEF ALO!Next
<1>5. ASSUME NEW S \in SUBSET Messages,
             S \subseteq OpenSet \cap (DoneSet \cup DeadSet \cup WaivedSet),
             OpenSet' = OpenSet \ S, UNCHANGED <<DoneSet, DeadSet, WaivedSet>>
      PROVE  ALO!Next
  <2>1. ALO!Close(S)
    BY <1>5 DEF ALO!Close, ALO!Settled
  <2> QED BY <2>1 DEF ALO!Next
<1>6. ASSUME NEW W \in SUBSET Messages, AbstractWaive(W)
      PROVE  ALO!Next
  <2>1. ALO!Waive(W)
    BY <1>6 DEF AbstractWaive, ALO!Waive, ALO!Known
  <2> QED BY <2>1 DEF ALO!Next
<1> QED BY <1>1, <1>2, <1>3, <1>4, <1>5, <1>6 DEF AbstractStep

RefinementInv == LossInv /\ DuplicatesInv

(* What has an entry is known; what is dead or handled has an entry.       *)
LEMMA KnownLemma ==
  ASSUME RefinementInv, NEW m \in Messages
  PROVE  /\ Of(m) # {} => m \in KnownSet
         /\ DeadLettered(m) => Of(m) # {}
<1>1. Of(m) # {} => m \in KnownSet
  BY LossInvImplies
     DEF RefinementInv, NoSilentLoss, KnownSet, OpenSet, DoneSet, DeadSet, WaivedSet
<1>2. DeadLettered(m) => Of(m) # {}
  <2> SUFFICES ASSUME DeadLettered(m) PROVE Ends(m) # 0
    BY DEF RefinementInv, DuplicatesInv, EndsLeft
  <2>1. DeadOf(m) # {}
    BY DEF DeadLettered, DeadOf
  <2>2. IsFiniteSet(DeadOf(m)) /\ Cardinality(DeadOf(m)) \in Nat
        /\ Ends(m) = handled[m] + Cardinality(DeadOf(m)) /\ handled[m] \in Nat
    BY EndsType DEF RefinementInv, LossInv, TypeOK, HistoryOK
  <2>3. Cardinality(DeadOf(m)) # 0
    BY <2>1, <2>2, FS_EmptySet
  <2> QED BY <2>2, <2>3
<1> QED BY <1>1, <1>2

(* Steps that leave what the four sets are made of alone.                  *)
LEMMA SameSets ==
  ASSUME UNCHANGED log
  PROVE  /\ (\A i \in Entries : Outstanding(i)' <=> Outstanding(i)) => OpenSet' = OpenSet
         /\ handled' = handled => DoneSet' = DoneSet
         /\ dlq' = dlq => DeadSet' = DeadSet
         /\ trimmed' = trimmed /\ base' = base => WaivedSet' = WaivedSet
<1>1. \A m : Of(m)' = Of(m) /\ Of(m) \subseteq Entries
  BY DEF Of, Entries
<1>2. (\A i \in Entries : Outstanding(i)' <=> Outstanding(i)) => OpenSet' = OpenSet
  <2> SUFFICES ASSUME \A i \in Entries : Outstanding(i)' <=> Outstanding(i), NEW m \in Messages
               PROVE  IsOpen(m)' <=> IsOpen(m)
    BY DEF OpenSet
  <2> QED BY <1>1 DEF IsOpen
<1>3. handled' = handled => DoneSet' = DoneSet
  BY DEF DoneSet, Handled
<1>4. dlq' = dlq => DeadSet' = DeadSet
  BY DEF DeadSet, DeadLettered
<1>5. trimmed' = trimmed /\ base' = base => WaivedSet' = WaivedSet
  <2> SUFFICES ASSUME trimmed' = trimmed, base' = base, NEW m \in Messages
               PROVE  Waived(m)' <=> Waived(m)
    BY DEF WaivedSet
  <2> QED BY <1>1 DEF Waived
<1> QED BY <1>2, <1>3, <1>4, <1>5

(* XADD, by a producer or for a retry: the message of the entry is open,   *)
(* and what XADD trims is waived.                                          *)
LEMMA XaddEnqueues ==
  ASSUME RefinementInv, NEW e \in Entry, Xadd(e), UNCHANGED <<base, cursor, pel, dlq, handled>>
  PROVE  \E W \in SUBSET Messages : AbstractEnqueue(e.msg, W)
<1>0. /\ Entries \subseteq Nat /\ trimmed \in Nat /\ base \in 0 .. Len(log) /\ Len(log) \in Nat
      /\ RedisOK /\ Entries = 1 .. Len(log)
  BY DEF RefinementInv, LossInv, TypeOK, RedisOK, Entries
<1>1. /\ \A i \in Entries : log'[i] = log[i]
      /\ log'[Len(log) + 1] = e
      /\ Entries' = Entries \cup {Len(log) + 1}
      /\ trimmed' \in trimmed .. Len(log)
  BY <1>0, XaddLemma
<1>2. /\ trimmed' \in Nat /\ trimmed <= trimmed' /\ ~(Len(log) + 1 <= trimmed')
      /\ ~(Len(log) + 1 <= base)
  BY <1>0, <1>1
<1>3. \A m : /\ \A i \in Of(m) : i \in Entries /\ i \in Of(m)'
             /\ \A i \in Of(m)' : i \in Of(m) \/ (i = Len(log) + 1 /\ m = e.msg)
  BY <1>1 DEF Of
<1>4. WaivedSet' \subseteq KnownSet
  <2> SUFFICES ASSUME NEW m \in Messages, Waived(m)' PROVE m \in KnownSet
    BY DEF WaivedSet
  <2>1. PICK i \in Of(m)' : i <= trimmed' \/ i <= base
    BY DEF Waived
  <2>2. i \in Of(m)
    BY <1>2, <1>3, <2>1
  <2> QED BY <2>2, KnownLemma
<1>5. WaivedSet \subseteq WaivedSet'
  <2> SUFFICES ASSUME NEW m \in Messages, Waived(m) PROVE Waived(m)'
    BY DEF WaivedSet
  <2>1. PICK i \in Of(m) : i <= trimmed \/ i <= base
    BY DEF Waived
  <2>2. i \in Of(m)' /\ (i <= trimmed' \/ i <= base')
    <3>1. i \in Nat /\ i \in Of(m)'
      BY <1>0, <1>3
    <3> QED BY <1>0, <1>2, <2>1, <3>1
  <2> QED BY <2>2 DEF Waived
<1>6. OpenSet' \subseteq OpenSet \cup {e.msg}
  <2> SUFFICES ASSUME NEW m \in Messages, IsOpen(m)', m # e.msg PROVE IsOpen(m)
    BY DEF OpenSet
  <2>1. PICK i \in Of(m)' : Outstanding(i)'
    BY DEF IsOpen
  <2>2. i \in Of(m) /\ i \in Nat
    BY <1>0, <1>3, <2>1
  <2>3. Outstanding(i)
    BY <1>0, <1>2, <2>1, <2>2 DEF Outstanding
  <2> QED BY <2>2, <2>3 DEF IsOpen
<1>7. OpenSet \ WaivedSet' \subseteq OpenSet'
  <2> SUFFICES ASSUME NEW m \in Messages, IsOpen(m), ~Waived(m)' PROVE IsOpen(m)'
    BY DEF OpenSet, WaivedSet
  <2>1. PICK i \in Of(m) : Outstanding(i)
    BY DEF IsOpen
  <2>2. i \in Of(m)' /\ i \in Nat /\ ~(i <= trimmed')
    BY <1>0, <1>3 DEF Waived
  <2>3. Outstanding(i)'
    BY <1>2, <2>1, <2>2 DEF Outstanding
  <2> QED BY <2>2, <2>3 DEF IsOpen
<1>8. UNCHANGED <<DoneSet, DeadSet>>
  BY DEF DoneSet, DeadSet, Handled, DeadLettered
<1>9. AbstractEnqueue(e.msg, WaivedSet')
  BY <1>4, <1>5, <1>6, <1>7, <1>8 DEF AbstractEnqueue
<1>10. WaivedSet' \subseteq Messages
  BY DEF WaivedSet
<1> QED BY <1>9, <1>10

(* The bounds of the group go to the end of the stream: all that is known  *)
(* to the stream is waived.                                                *)
LEMMA SkipWaives ==
  ASSUME RefinementInv, UNCHANGED <<log, pel, handled>> \/ (UNCHANGED <<log, handled>> /\ pel' = {}),
         base' = Len(log), trimmed' \in {trimmed, Len(log)}, cursor' = Len(log),
         dlq' \in {dlq, <<>>}
  PROVE  \E W \in SUBSET Messages : AbstractWaive(W)
<1>0. /\ Entries \subseteq Nat /\ trimmed \in Nat /\ base \in 0 .. Len(log) /\ Len(log) \in Nat
      /\ Entries = 1 .. Len(log) /\ cursor \in Nat /\ UNCHANGED <<log, handled>>
  BY DEF RefinementInv, LossInv, TypeOK, RedisOK, Entries
<1>1. \A m : Of(m)' = Of(m) /\ Of(m) \subseteq Entries
  BY <1>0 DEF Of, Entries
<1>2. \A i \in Entries : i <= base' /\ ~(i > cursor') /\ (i > trimmed' => i > trimmed)
  BY <1>0
<1>3. \A m \in Messages : m \in WaivedSet' <=> Of(m) # {}
  BY <1>1, <1>2 DEF WaivedSet, Waived
<1>4. WaivedSet' \subseteq KnownSet /\ WaivedSet' \subseteq Messages
  BY <1>3, KnownLemma DEF WaivedSet
<1>5. WaivedSet \subseteq WaivedSet'
  BY <1>3 DEF WaivedSet, Waived
<1>6. OpenSet \subseteq WaivedSet'
  BY <1>3 DEF OpenSet, IsOpen
<1>7. OpenSet' \subseteq OpenSet
  <2> SUFFICES ASSUME NEW m \in Messages, IsOpen(m)' PROVE IsOpen(m)
    BY DEF OpenSet
  <2>1. PICK i \in Of(m) : Outstanding(i)'
    BY <1>1 DEF IsOpen
  <2>2. i \in Entries /\ i \in pel
    BY <1>1, <1>2, <2>1 DEF Outstanding
  <2>3. Outstanding(i)
    BY <1>2, <2>1, <2>2 DEF Outstanding
  <2> QED BY <2>3 DEF IsOpen
<1>8. DeadSet \subseteq WaivedSet' /\ DeadSet' \subseteq DeadSet
  <2>1. DeadSet \subseteq WaivedSet'
    BY <1>3, KnownLemma DEF DeadSet
  <2>2. dlq' = <<>> => DeadSet' = {}
    BY DEF DeadSet, DeadLettered
  <2>3. dlq' = dlq => DeadSet' = DeadSet
    BY DEF DeadSet, DeadLettered
  <2> QED BY <2>1, <2>2, <2>3
<1>9. DoneSet' = DoneSet
  BY <1>0 DEF DoneSet, Handled
<1>10. AbstractWaive(WaivedSet')
  BY <1>4, <1>5, <1>6, <1>7, <1>8, <1>9 DEF AbstractWaive
<1> QED BY <1>4, <1>10

(* Reading and claiming leave every entry with somebody to deliver it.     *)
LEMMA ReadsKeepOutstanding ==
  ASSUME TypeOK, Deliver \/ Reassign \/ UNCHANGED redis
  PROVE  /\ UNCHANGED <<log, trimmed, base, dlq>>
         /\ \A i \in Entries : Outstanding(i)' <=> Outstanding(i)
<1> USE ConstantsAssumption
<1>0. /\ Entries \subseteq Nat /\ trimmed \in Nat /\ cursor \in Nat /\ Len(log) \in Nat
      /\ BatchSize \in Nat /\ cursor <= Len(log) /\ Entries = 1 .. Len(log)
  BY DEF TypeOK, RedisOK, Entries
<1>1. CASE Deliver
  <2>1. UNCHANGED <<log, trimmed, base, dlq>> /\ pel' = pel \cup Fresh
    BY <1>1 DEF Deliver
  <2>2. ASSUME NEW i \in Entries, i > trimmed
        PROVE  (i > cursor' \/ i \in pel') <=> (i > cursor \/ i \in pel)
    <3>1. Fresh = Oldest + 1 .. Newest /\ Newest \in Nat /\ Oldest \in Nat
      BY <1>0 DEF Fresh, Newest, Oldest
    <3>2. CASE Fresh = {}
      BY <1>1, <2>1, <3>2 DEF Deliver
    <3>3. CASE Fresh # {}
      <4>1. cursor' = Newest /\ Oldest < Newest
        BY <1>1, <3>1, <3>3 DEF Deliver
      <4>2. i > cursor' => i > cursor
        BY <1>0, <3>1, <4>1 DEF Oldest
      <4>3. i \in Fresh => i > cursor
        BY <1>0, <3>1 DEF Oldest
      <4>4. i > cursor => i > cursor' \/ i \in Fresh
        BY <1>0, <2>2, <3>1, <4>1 DEF Oldest
      <4> QED BY <2>1, <4>2, <4>3, <4>4
    <3> QED BY <3>2, <3>3
  <2> QED BY <2>1, <2>2 DEF Outstanding
<1>2. CASE Reassign
  BY <1>2 DEF Reassign, Outstanding
<1>3. CASE UNCHANGED redis
  BY <1>3 DEF redis, Outstanding
<1> QED BY <1>1, <1>2, <1>3

LEMMA RefinementStep == RefinementInv /\ [Next]_vars => AbstractStep
<1> SUFFICES ASSUME RefinementInv, [Next]_vars PROVE AbstractStep
  OBVIOUS
<1> USE ConstantsAssumption
<1>0. /\ TypeOK /\ RedisOK /\ HandsOK /\ LossInv'
      /\ pc \in [Consumers -> Stages] /\ current \in [Consumers -> 0 .. Len(log)]
      /\ batch \in [Consumers -> SUBSET Entries] /\ handled \in [Messages -> Nat]
      /\ \A i \in Entries : log[i] \in Entry /\ log[i].msg \in Messages
  <2>1. TypeOK /\ HandsOK /\ LossInv'
    BY LossStep DEF RefinementInv, LossInv, DuplicatesInv
  <2>2. RedisOK /\ ConsumersOK /\ HistoryOK
    BY <2>1 DEF TypeOK
  <2>3. \A i \in Entries : log[i] \in Entry
    BY <2>2 DEF RedisOK, Entries
  <2>4. \A i \in Entries : log[i].msg \in Messages
    BY <2>3 DEF Entry
  <2> QED BY <2>1, <2>2, <2>3, <2>4 DEF ConsumersOK, HistoryOK
<1>1. ASSUME NEW m \in Messages, Publish(m) PROVE AbstractStep
  <2> DEFINE e == [msg |-> m, retry |-> 0]
  <2>1. /\ e \in Entry /\ e.msg = m /\ Xadd(e)
        /\ UNCHANGED <<base, cursor, pel, dlq, handled>>
    BY <1>1 DEF Publish, Entry, history
  <2> HIDE DEF e
  <2>2. \E W \in SUBSET Messages : AbstractEnqueue(m, W)
    BY <2>1, XaddEnqueues
  <2> QED BY <2>2 DEF AbstractStep
<1>2. ASSUME NEW c \in Consumers, Start(c) PROVE AbstractStep
  <2>1. CASE group
    <3>1. UNCHANGED <<log, trimmed, base, cursor, pel, dlq, handled>>
      BY <1>2, <2>1 DEF Start, history
    <3>2. AbstractStutter
      BY <3>1, SameSets DEF AbstractStutter, Outstanding
    <3> QED BY <3>2 DEF AbstractStep
  <2>2. CASE ~group
    <3>1. /\ UNCHANGED <<log, pel, handled, trimmed, dlq>>
          /\ base' = Len(log) /\ cursor' = Len(log)
      BY <1>2, <2>2 DEF Start, history
    <3>2. \E W \in SUBSET Messages : AbstractWaive(W)
      BY <3>1, SkipWaives
    <3> QED BY <3>2 DEF AbstractStep
  <2> QED BY <2>1, <2>2
<1>3. ASSUME NEW c \in Consumers,
             Claim(c) \/ Read(c) \/ ClaimError(c) \/ ReadError(c) \/ ClaimTimer(c) \/ HandleFail(c)
               \/ Crash(c)
      PROVE  AbstractStep
  <2>1. (Deliver \/ Reassign \/ UNCHANGED redis) /\ handled' = handled
    BY <1>3 DEF Claim, Read, ClaimError, ReadError, ClaimTimer, HandleFail, Crash, history
  <2>2. AbstractStutter
    BY <1>0, <2>1, ReadsKeepOutstanding, SameSets DEF AbstractStutter
  <2> QED BY <2>2 DEF AbstractStep
<1>4. ASSUME NEW c \in Consumers, HandleOk(c) PROVE AbstractStep
  <2> PICK i \in batch[c] : handled' = [handled EXCEPT ![log[i].msg] = @ + 1]
    BY <1>4 DEF HandleOk
  <2> DEFINE m == log[i].msg
  <2>1. i \in Entries /\ m \in Messages /\ UNCHANGED redis
    BY <1>0, <1>4 DEF HandleOk
  <2>2. m \in KnownSet
    <3>1. i \in Of(m)
      BY <2>1 DEF Of
    <3> HIDE DEF m
    <3> QED BY <2>1, <3>1, KnownLemma
  <2>3. DoneSet' = DoneSet \cup {m}
    BY <1>0, <2>1 DEF DoneSet, Handled
  <2>4. UNCHANGED <<OpenSet, DeadSet, WaivedSet>>
    BY <1>0, <2>1, ReadsKeepOutstanding, SameSets
  <2> HIDE DEF m
  <2> QED BY <2>1, <2>2, <2>3, <2>4 DEF AbstractStep
<1>5. ASSUME NEW c \in Consumers, DeadLetter(c) PROVE AbstractStep
  <2> PICK i : i = current[c]
    OBVIOUS
  <2> DEFINE m == log[i].msg
             d == [msg |-> m, entry |-> i, retry |-> log[i].retry + 1]
  <2>1. /\ i \in Entries /\ dlq' = Append(dlq, d)
        /\ UNCHANGED <<log, trimmed, base, cursor, pel, handled>>
    BY <1>0, <1>5 DEF DeadLetter, HandsOK, history
  <2>2. m \in Messages /\ d \in Dead /\ d.msg = m
    <3>1. log[i] \in Entry /\ i \in Nat
      BY <1>0, <2>1 DEF Entries
    <3> QED BY <3>1 DEF Dead, Entry
  <2> HIDE DEF d
  <2>3. m \in KnownSet
    <3>1. i \in Of(m)
      BY <2>1 DEF Of
    <3> HIDE DEF m
    <3> QED BY <2>2, <3>1, KnownLemma
  <2>4. \A n \in Messages : DeadLettered(n)' <=> DeadLettered(n) \/ n = m
    <3>1. /\ Len(dlq) \in Nat /\ DOMAIN dlq = 1 .. Len(dlq)
          /\ dlq' \in Seq(Dead) /\ Len(dlq') = Len(dlq) + 1
          /\ \A k \in 1 .. Len(dlq) : dlq'[k] = dlq[k]
          /\ dlq'[Len(dlq) + 1] = d
      BY <1>0, <2>1, <2>2, AppendProperties, LenProperties DEF RedisOK
    <3>2. DOMAIN dlq' = 1 .. Len(dlq) + 1
      BY <3>1, LenProperties
    <3>3. \A k \in DOMAIN dlq' : k \in DOMAIN dlq \/ k = Len(dlq) + 1
      BY <3>1, <3>2
    <3>4. DOMAIN dlq \subseteq DOMAIN dlq' /\ Len(dlq) + 1 \in DOMAIN dlq'
      BY <3>1, <3>2
    <3> QED BY <2>2, <3>1, <3>3, <3>4 DEF DeadLettered
  <2>5. DeadSet' = DeadSet \cup {m}
    BY <2>2, <2>4 DEF DeadSet
  <2>6. UNCHANGED <<OpenSet, DoneSet, WaivedSet>>
    BY <2>1, SameSets DEF Outstanding
  <2> HIDE DEF m
  <2> QED BY <2>2, <2>3, <2>5, <2>6 DEF AbstractStep
<1>6. ASSUME NEW c \in Consumers, Requeue(c) PROVE AbstractStep
  <2> PICK i : i = current[c]
    OBVIOUS
  <2> DEFINE e == [msg |-> log[i].msg, retry |-> log[i].retry + 1]
  <2>1. /\ i \in Entries /\ Xadd(e) /\ e.retry <= MaxRetries
        /\ UNCHANGED <<base, cursor, pel, dlq, handled>>
    BY <1>0, <1>6 DEF Requeue, HandsOK, history
  <2>2. e \in Entry /\ e.msg \in Messages
    <3>1. log[i] \in Entry
      BY <1>0, <2>1
    <3> QED BY <2>1, <3>1 DEF Entry
  <2> HIDE DEF e
  <2>3. \E W \in SUBSET Messages : AbstractEnqueue(e.msg, W)
    BY <2>1, <2>2, XaddEnqueues
  <2> QED BY <2>2, <2>3 DEF AbstractStep
<1>7. ASSUME NEW c \in Consumers, Ack(c) PROVE AbstractStep
  <2>1. UNCHANGED <<log, trimmed, base, cursor, dlq, handled>> /\ pel' = pel \ {current[c]}
    BY <1>7 DEF Ack, history
  <2>2. UNCHANGED <<DoneSet, DeadSet, WaivedSet>>
    BY <2>1, SameSets
  <2>3. \A m : Of(m)' = Of(m)
    BY <2>1 DEF Of, Entries
  <2>4. OpenSet' \subseteq OpenSet
    BY <2>1, <2>3 DEF OpenSet, IsOpen, Outstanding
  <2>5. OpenSet \ OpenSet' \subseteq DoneSet \cup DeadSet \cup WaivedSet
    <3> SUFFICES ASSUME NEW m \in OpenSet, m \notin OpenSet'
                 PROVE  m \in DoneSet' \cup DeadSet' \cup WaivedSet'
      BY <2>2
    <3>1. m \in Messages /\ Of(m)' # {}
      BY <2>3 DEF OpenSet, IsOpen
    <3>2. NoSilentLoss'
      <4>1. (LossInv => NoSilentLoss)'
        BY LossInvImplies, PTL
      <4> QED BY <1>0, <4>1
    <3> QED BY <3>1, <3>2 DEF NoSilentLoss, OpenSet, DoneSet, DeadSet, WaivedSet
  <2>6. \E S \in SUBSET Messages :
          /\ S \subseteq OpenSet \cap (DoneSet \cup DeadSet \cup WaivedSet)
          /\ OpenSet' = OpenSet \ S
    <3>1. OpenSet \ OpenSet' \in SUBSET Messages
      BY DEF OpenSet
    <3> WITNESS OpenSet \ OpenSet' \in SUBSET Messages
    <3> QED BY <2>4, <2>5
  <2> QED BY <2>2, <2>6 DEF AbstractStep
<1>8. ASSUME NEW i \in pel, Expire(i) PROVE AbstractStep
  <2>1. UNCHANGED <<log, trimmed, base, cursor, pel, dlq, handled>>
    BY <1>8 DEF Expire
  <2>2. AbstractStutter
    BY <2>1, SameSets DEF AbstractStutter, Outstanding
  <2> QED BY <2>2 DEF AbstractStep
<1>9. ASSUME Wipe PROVE AbstractStep
  <2>1. /\ UNCHANGED <<log, handled>> /\ pel' = {} /\ dlq' = <<>>
        /\ base' = Len(log) /\ trimmed' = Len(log) /\ cursor' = Len(log)
    BY <1>9 DEF Wipe
  <2>2. \E W \in SUBSET Messages : AbstractWaive(W)
    BY <2>1, SkipWaives
  <2> QED BY <2>2 DEF AbstractStep
<1>10. ASSUME UNCHANGED vars PROVE AbstractStep
  <2>1. UNCHANGED <<log, trimmed, base, cursor, pel, dlq, handled>>
    BY <1>10 DEF vars, redis, history
  <2>2. AbstractStutter
    BY <2>1, SameSets DEF AbstractStutter, Outstanding
  <2> QED BY <2>2 DEF AbstractStep
<1> QED
  BY <1>1, <1>2, <1>3, <1>4, <1>5, <1>6, <1>7, <1>8, <1>9, <1>10 DEF Next, Step

LEMMA RefinementInit == Init => ALO!Init
<1> SUFFICES ASSUME Init PROVE ALO!Init
  OBVIOUS
<1>1. \A m \in Messages : Of(m) = {}
  <2>1. Len(log) = 0
    BY EmptySeq DEF Init
  <2> QED BY <2>1 DEF Of, Entries
<1>2. \A m \in Messages : ~IsOpen(m) /\ ~Waived(m)
  BY <1>1 DEF IsOpen, Waived
<1>3. \A m \in Messages : ~Handled(m)
  BY DEF Init, Handled
<1>4. \A m \in Messages : ~DeadLettered(m)
  <2>1. DOMAIN dlq = 1 .. 0
    BY DEF Init
  <2> QED BY <2>1 DEF DeadLettered
<1> QED BY <1>2, <1>3, <1>4 DEF ALO!Init

(* The stream, its consumers and its faults implement at-least-once        *)
(* delivery: every message stays open until it was handled, dead-lettered  *)
(* or waived, whatever comes between.                                      *)
THEOREM RefinementTheorem == Spec => ImplementsAtLeastOnce
<1>1. RefinementInv /\ [Next]_vars => RefinementInv'
  BY LossStep, HandsStep, EndsStep, TypeStep DEF RefinementInv, DuplicatesInv
<1>2. Init => RefinementInv
  BY LossInit, DuplicatesInit DEF RefinementInv
<1>3. RefinementInv /\ [Next]_vars => [ALO!Next]_(ALO!vars)
  BY RefinementStep, AbstractStepIsNext
<1> QED BY <1>1, <1>2, <1>3, RefinementInit, PTL DEF Spec, ImplementsAtLeastOnce, ALO!Spec

=============================================================================
