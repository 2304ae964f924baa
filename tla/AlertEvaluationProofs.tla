------------------------ MODULE AlertEvaluationProofs ------------------------
(***************************************************************************)
(* Proofs about AlertEvaluation, for any rules, evaluators, events, bounds *)
(* and cooldowns: its type invariant, that two alerts of a rule are a      *)
(* cooldown apart, that the stored state is the last verdict, and that     *)
(* alerts and recorded transitions correspond up to the faults.            *)
(***************************************************************************)
EXTENDS AlertEvaluation, SequenceTheorems, FiniteSetTheorems, TLAPS

-----------------------------------------------------------------------------
(* The inductive invariant. *)

(* What an evaluator has in hand: one rule while its alert is dispatched   *)
(* and logged, which is not among those left to match; rules that exist or *)
(* existed; and a time.                                                    *)
HandOK ==
  \A e \in Evaluators :
    /\ IF stage[e] \in {"dispatch", "log"}
       THEN \E r \in Rules : firing[e] = {r} ELSE firing[e] = {}
    /\ firing[e] \cap todo[e] = {}
    /\ \A r \in todo[e] : row[r].status # "new"
    /\ stage[e] \in {"match", "dispatch", "log"} => now[e] # 0

(* What the row of a rule and its history agree on.                        *)
RuleOK(r) ==
  /\ row[r].status = "new" =>
       row[r] = NoRow /\ fired[r] = <<>> /\ seen[r].verdict = "unknown"
  /\ row[r].status = "active" =>
       /\ row[r].triggered = 0 => fired[r] = <<>>
       /\ row[r].triggered # 0 => fired[r] # <<>> /\ row[r].met # "unknown"
       /\ \A k \in DOMAIN fired[r] : fired[r][k].at <= row[r].triggered

RulesOK == \A r \in Rules : RuleOK(r)

IInv == TypeOK /\ HandOK /\ RulesOK

(* The transitions to TRUE of a rule are a cooldown apart.                 *)
Spaced(r) ==
  \A j, k \in DOMAIN fired[r] : j < k => fired[r][j].at + Cooldown[r] <= fired[r][k].at

(* Each alert sent or in hand is of a transition, and no two of the same.  *)
Matched(r) ==
  /\ \A k \in DOMAIN alerts[r] :
       \E j \in DOMAIN fired[r] : fired[r][j].at = alerts[r][k].at
  /\ \A j, k \in DOMAIN alerts[r] : j # k => alerts[r][j].at # alerts[r][k].at
  /\ \A e \in Pending(r) :
       /\ \E j \in DOMAIN fired[r] : fired[r][j].at = now[e]
       /\ \A k \in DOMAIN alerts[r] : alerts[r][k].at # now[e]
  /\ \A e, f \in Pending(r) : e # f => now[e] # now[f]

CooldownOK == \A r \in Rules : Spaced(r) /\ Matched(r)

LostOK ==
  \A r \in Rules :
    /\ IsFiniteSet(Pending(r))
    /\ Len(fired[r]) <=
         Len(alerts[r]) + Cardinality(Pending(r)) + faults["crash"] + faults["database"]

(* May evaluator e, as it is, still have rule r alerted on event n?  It    *)
(* may have it to match or to dispatch, or be about to put the event back. *)
MayAlert(e, r, n) ==
  /\ stage[e] # "idle" /\ EventOf(e) = n
  /\ \/ stage[e] = "failed"
     \/ stage[e] \in {"match", "dispatch", "log"} /\ r \in todo[e]
     \/ stage[e] = "dispatch" /\ r \in firing[e]

(* The entries of event n still to be handed to an evaluator.              *)
Due(n) == {i \in Positions : (i > cursor \/ i \in orphans) /\ queue[i].event = n}

Candidates(r, n) == {e \in Evaluators : MayAlert(e, r, n)}

(* The alerts of rule r on event n: those sent, and one for each evaluator *)
(* and each entry that may yet lead to one.                                *)
Tagged(A, M, D) ==
  {<<"alert", k>> : k \in A} \cup {<<"evaluator", e>> : e \in M} \cup {<<"entry", i>> : i \in D}

Chances(r, n) == Tagged(AlertsOf(r, n), Candidates(r, n), Due(n))

RepeatsOK ==
  \A r \in Rules :
    /\ \A k \in DOMAIN alerts[r] : alerts[r][k].event \in DOMAIN events
    /\ \A n \in DOMAIN events :
         IsFiniteSet(Chances(r, n)) /\ Cardinality(Chances(r, n)) <= 1 + Faults

-----------------------------------------------------------------------------
(* What the helpers do. *)

LEMMA VerdictType == \A e \in Evaluators, r \in Rules : Verdict(e, r) \in Verdicts
  BY DEF Verdict, Match, Verdicts

(* The entry an evaluator holds is in the stream, and its event published. *)
LEMMA Held ==
  ASSUME TypeOK, NEW e \in Evaluators, stage[e] # "idle"
  PROVE  /\ entry[e] \in Positions /\ entry[e] \in 1 .. cursor
         /\ queue[entry[e]] \in [event: 1 .. Len(events), retry: 0 .. MaxRetries]
         /\ EventOf(e) \in 1 .. Len(events)
<1>1. entry[e] \in 1 .. cursor /\ entry[e] \in Positions
  BY LenProperties DEF TypeOK, StreamOK, EvaluatorsOK, Positions
<1>2. queue[entry[e]] \in [event: 1 .. Len(events), retry: 0 .. MaxRetries]
  BY <1>1, ElementOfSeq DEF TypeOK, StreamOK, Positions
<1> QED BY <1>1, <1>2 DEF EventOf

LEMMA HandTypes ==
  ASSUME TypeOK, NEW e \in Evaluators, stage[e] # "idle"
  PROVE  EventOf(e) \in Nat /\ now[e] \in Nat
<1>1. EventOf(e) \in 1 .. Len(events)
  BY Held
<1>2. clock \in Nat /\ now[e] \in 0 .. clock
  BY DEF TypeOK, StreamOK, EvaluatorsOK, Times
<1> QED BY <1>1, <1>2

(* A fault adds one to the faults of its kind.                             *)
LEMMA SpendLemma ==
  ASSUME TypeOK, NEW k \in FaultKinds, Spend(k)
  PROVE  /\ faults' \in [FaultKinds -> Nat]
         /\ faults'[k] = faults[k] + 1
         /\ \A j \in FaultKinds : j # k => faults'[j] = faults[j]
  BY DEF TypeOK, HistoryOK, Spend

(* Taking an entry hands over one that was due.                            *)
LEMMA TakeLemma ==
  ASSUME TypeOK, NEW e \in Evaluators, Take(e)
  PROVE  /\ cursor' \in cursor .. Len(queue)
         /\ orphans' \subseteq orphans
         /\ entry' = [entry EXCEPT ![e] = entry'[e]]
         /\ entry'[e] \in 1 .. cursor' /\ entry'[e] \in Positions
<1>1. /\ Len(queue) \in Nat /\ cursor \in 0 .. Len(queue) /\ orphans \subseteq 1 .. cursor
      /\ DOMAIN entry = Evaluators
  BY LenProperties DEF TypeOK, StreamOK, EvaluatorsOK
<1>2. CASE cursor < Len(queue) /\ cursor' = cursor + 1
           /\ entry' = [entry EXCEPT ![e] = cursor + 1] /\ UNCHANGED orphans
  <2>1. cursor' \in cursor .. Len(queue) /\ cursor + 1 \in 1 .. cursor' /\ cursor + 1 \in Positions
    BY <1>1, <1>2 DEF Positions
  <2>2. entry'[e] = cursor + 1
    BY <1>1, <1>2
  <2> QED BY <1>2, <2>1, <2>2
<1>3. ASSUME NEW i \in orphans, entry' = [entry EXCEPT ![e] = i], orphans' = orphans \ {i},
             UNCHANGED cursor
      PROVE  /\ cursor' \in cursor .. Len(queue) /\ orphans' \subseteq orphans
             /\ entry' = [entry EXCEPT ![e] = entry'[e]]
             /\ entry'[e] \in 1 .. cursor' /\ entry'[e] \in Positions
  <2>1. cursor' \in cursor .. Len(queue) /\ i \in 1 .. cursor' /\ i \in Positions
    BY <1>1, <1>3 DEF Positions
  <2>2. entry'[e] = i
    BY <1>1, <1>3
  <2> QED BY <1>3, <2>1, <2>2
<1> QED BY <1>2, <1>3 DEF Take

(* What the conditional UPDATE of one rule may change.                     *)
LEMMA UpdateLemma ==
  ASSUME TypeOK, NEW e \in Evaluators, stage[e] # "idle", NEW r \in Rules, Update(e, r)
  PROVE  /\ RowsOK'
         /\ seen' \in [Rules -> [verdict: Verdicts, event: 0 .. Len(events)]]
         /\ fired' \in [Rules -> Seq(Firing)]
         /\ \A q \in Rules : row'[q].status = row[q].status
<1>1. EventOf(e) \in 1 .. Len(events) /\ EventOf(e) \in Nat /\ Len(events) \in Nat
  BY Held, LenProperties DEF TypeOK, StreamOK
<1>2. Verdict(e, r) \in Verdicts
  BY VerdictType
<1>3. now[e] \in Nat
  BY DEF TypeOK, StreamOK, EvaluatorsOK, Times
<1>4. row \in [Rules -> Rows] /\ seen \in [Rules -> [verdict: Verdicts, event: 0 .. Len(events)]]
      /\ fired \in [Rules -> Seq(Firing)]
  BY DEF TypeOK, RowsOK, HistoryOK
<1>5. seen' \in [Rules -> [verdict: Verdicts, event: 0 .. Len(events)]]
  BY <1>1, <1>2, <1>4 DEF Update
<1>6. RowsOK' /\ \A q \in Rules : row'[q].status = row[q].status
  <2>1. CASE Accepts(r, Verdict(e, r), now[e])
    <3>1. row' = [row EXCEPT ![r].met = Verdict(e, r),
                             ![r].triggered = IF Verdict(e, r) = "met" THEN now[e] ELSE @]
      BY <2>1 DEF Update, Moved
    <3> QED BY <1>2, <1>3, <1>4, <3>1 DEF RowsOK, Rows
  <2>2. CASE ~Accepts(r, Verdict(e, r), now[e])
    BY <1>4, <2>2 DEF Update, RowsOK
  <2> QED BY <2>1, <2>2
<1>7. fired' \in [Rules -> Seq(Firing)]
  <2>1. CASE Accepts(r, Verdict(e, r), now[e]) /\ Verdict(e, r) = "met"
    <3>1. fired' = [fired EXCEPT ![r] = Append(@, [event |-> EventOf(e), at |-> now[e]])]
      BY <2>1 DEF Update
    <3>2. [event |-> EventOf(e), at |-> now[e]] \in Firing
      BY <1>1, <1>3 DEF Firing
    <3>3. Append(fired[r], [event |-> EventOf(e), at |-> now[e]]) \in Seq(Firing)
      BY <1>4, <3>2, AppendProperties
    <3> QED BY <1>4, <3>1, <3>3
  <2>2. CASE ~(Accepts(r, Verdict(e, r), now[e]) /\ Verdict(e, r) = "met")
    BY <1>4, <2>2 DEF Update
  <2> QED BY <2>1, <2>2
<1> QED BY <1>5, <1>6, <1>7

-----------------------------------------------------------------------------
(* Type correctness, and what evaluators and rules keep. *)

LEMMA TypeInit == Init => TypeOK
<1> SUFFICES ASSUME Init PROVE TypeOK
  OBVIOUS
<1>1. RowsOK
  BY DEF Init, RowsOK, Rows, NoRow, Verdicts
<1>2. StreamOK
  BY ConstantsAssumption, EmptySeq DEF Init, StreamOK, Times
<1>3. EvaluatorsOK
  BY FS_EmptySet DEF Init, EvaluatorsOK, Stages
<1>4. HistoryOK
  BY EmptySeq DEF Init, HistoryOK, Verdicts, FaultKinds
<1> QED BY <1>1, <1>2, <1>3, <1>4 DEF TypeOK

(* What a publication or a retry appends keeps the stream well-typed.      *)
LEMMA StreamAppend ==
  ASSUME TypeOK, NEW n \in Nat, Len(events) <= n,
         NEW q \in [event: 1 .. n, retry: 0 .. MaxRetries]
  PROVE  /\ Append(queue, q) \in Seq([event: 1 .. n, retry: 0 .. MaxRetries])
         /\ Len(Append(queue, q)) = Len(queue) + 1
         /\ \A i \in Positions : Append(queue, q)[i] = queue[i]
         /\ Append(queue, q)[Len(queue) + 1] = q
<1> DEFINE S == [event: 1 .. Len(events), retry: 0 .. MaxRetries]
           T == [event: 1 .. n, retry: 0 .. MaxRetries]
<1>1. Len(events) \in Nat
  BY LenProperties DEF TypeOK, StreamOK
<1>2. S \subseteq T
  BY <1>1
<1>3. queue \in Seq(S) /\ q \in T
  BY DEF TypeOK, StreamOK
<1> HIDE DEF S, T
<1>4. queue \in Seq(T)
  BY <1>2, <1>3, SeqMonotonic
<1>5. /\ Append(queue, q) \in Seq(T)
      /\ Len(Append(queue, q)) = Len(queue) + 1
      /\ \A i \in 1 .. Len(queue) : Append(queue, q)[i] = queue[i]
      /\ Append(queue, q)[Len(queue) + 1] = q
  BY <1>3, <1>4, AppendProperties
<1> QED BY <1>5 DEF Positions, T

LEMMA RowsStep == TypeOK /\ [Next]_vars => RowsOK'
<1> SUFFICES ASSUME TypeOK, [Next]_vars PROVE RowsOK'
  OBVIOUS
<1>0. row \in [Rules -> Rows]
  BY DEF TypeOK, RowsOK
<1>1. ASSUME NEW r \in Rules, Create(r)
      PROVE  RowsOK'
  BY <1>0, <1>1 DEF Create, RowsOK, Rows
<1>2. ASSUME NEW r \in Rules, Delete(r)
      PROVE  RowsOK'
  BY <1>0, <1>2 DEF Delete, RowsOK, Rows, NoRow, Verdicts
<1>3. ASSUME NEW e \in Evaluators, Transition(e)
      PROVE  RowsOK'
  <2> PICK r \in todo[e] : Update(e, r)
    BY <1>3 DEF Transition
  <2> QED BY <1>3, UpdateLemma DEF Transition, TypeOK, EvaluatorsOK
<1>4. ASSUME NEW e \in Evaluators, TransitionFails(e)
      PROVE  RowsOK'
  <2> PICK r \in todo[e] : Update(e, r) \/ UNCHANGED <<row, seen, fired>>
    BY <1>4 DEF TransitionFails
  <2>1. r \in Rules /\ stage[e] # "idle"
    BY <1>4 DEF TransitionFails, TypeOK, EvaluatorsOK
  <2> QED BY <1>0, <2>1, UpdateLemma DEF RowsOK
<1>5. CASE row' = row
  BY <1>0, <1>5 DEF RowsOK
<1>6. ASSUME NEW e \in Evaluators, Step(e)
      PROVE  Transition(e) \/ TransitionFails(e) \/ row' = row
  BY <1>6 DEF Step, Fetch, FetchFails, Skip, Dispatch, Log, LogFails, Retry, Ack, Crash, Overrun
<1> QED BY <1>1, <1>2, <1>3, <1>4, <1>5, <1>6 DEF Next, Publish, Tick, vars

LEMMA StreamStep == TypeOK /\ [Next]_vars => StreamOK'
<1> SUFFICES ASSUME TypeOK, [Next]_vars PROVE StreamOK'
  OBVIOUS
<1>0. /\ StreamOK /\ Len(events) \in Nat /\ Len(queue) \in Nat /\ MaxRetries \in Nat
      /\ MaxTime \in Nat
  BY LenProperties, ConstantsAssumption DEF TypeOK, StreamOK
<1>1. ASSUME NEW s \in Snapshots, Publish(s)
      PROVE  StreamOK'
  <2> DEFINE q == [event |-> Len(events) + 1, retry |-> 0]
  <2>1. /\ events' = Append(events, s) /\ queue' = Append(queue, q)
        /\ Len(events) < MaxEvents /\ UNCHANGED <<clock, cursor, orphans>>
    BY <1>1 DEF Publish
  <2>2. events' \in Seq(Snapshots) /\ Len(events') = Len(events) + 1
    BY <1>0, <2>1, AppendProperties DEF StreamOK
  <2>3. q \in [event: 1 .. Len(events'), retry: 0 .. MaxRetries]
    BY <1>0, <2>2
  <2>4. /\ queue' \in Seq([event: 1 .. Len(events'), retry: 0 .. MaxRetries])
        /\ Len(queue') = Len(queue) + 1
    <3>1. Len(events') \in Nat /\ Len(events) <= Len(events')
      BY <1>0, <2>2
    <3> HIDE DEF q
    <3> QED BY <2>1, <2>3, <3>1, StreamAppend
  <2>5. Len(events') <= MaxEvents
    BY <1>0, <2>1, <2>2, ConstantsAssumption
  <2> QED BY <1>0, <2>1, <2>2, <2>4, <2>5 DEF StreamOK
<1>2. ASSUME NEW e \in Evaluators, Take(e), UNCHANGED <<clock, events, queue>>
      PROVE  StreamOK'
  <2>1. cursor' \in cursor .. Len(queue) /\ orphans' \subseteq orphans
    BY <1>2, TakeLemma
  <2>2. cursor \in Nat /\ orphans \subseteq 1 .. cursor
    BY <1>0 DEF StreamOK
  <2>3. cursor' \in 0 .. Len(queue) /\ 1 .. cursor \subseteq 1 .. cursor'
    BY <1>0, <2>1, <2>2
  <2>4. orphans' \subseteq 1 .. cursor'
    BY <2>1, <2>2, <2>3
  <2> QED BY <1>0, <1>2, <2>3, <2>4 DEF StreamOK
<1>3. ASSUME NEW e \in Evaluators, Retry(e)
      PROVE  StreamOK'
  <2> DEFINE q == queue[entry[e]]
             copy == [q EXCEPT !.retry = @ + 1]
  <2>1. UNCHANGED <<clock, events, cursor, orphans>>
    BY <1>3 DEF Retry
  <2>2. CASE q.retry < MaxRetries
    <3>1. queue' = Append(queue, copy)
      BY <1>3, <2>2 DEF Retry
    <3>2. q \in [event: 1 .. Len(events), retry: 0 .. MaxRetries]
      BY <1>3, Held DEF Retry
    <3>3. copy \in [event: 1 .. Len(events), retry: 0 .. MaxRetries]
      BY <1>0, <2>2, <3>2
    <3>4. /\ queue' \in Seq([event: 1 .. Len(events), retry: 0 .. MaxRetries])
          /\ Len(queue') = Len(queue) + 1
      <4> HIDE DEF copy
      <4> QED BY <1>0, <3>1, <3>3, StreamAppend
    <3> QED BY <1>0, <2>1, <3>4 DEF StreamOK
  <2>3. CASE ~(q.retry < MaxRetries)
    BY <1>0, <1>3, <2>1, <2>3 DEF Retry, StreamOK
  <2> QED BY <2>2, <2>3
<1>4. ASSUME NEW e \in Evaluators, stage[e] # "idle",
             UNCHANGED <<clock, events, queue, cursor>>, orphans' \subseteq orphans \cup {entry[e]}
      PROVE  StreamOK'
  BY <1>0, <1>4, Held DEF StreamOK
<1>5. CASE Tick
  BY <1>0, <1>5 DEF Tick, stream, StreamOK, Times
<1>6. CASE UNCHANGED <<clock, stream>>
  BY <1>0, <1>6 DEF stream, StreamOK
<1>7. ASSUME NEW e \in Evaluators, Step(e)
      PROVE  StreamOK'
  <2>1. CASE Fetch(e) \/ FetchFails(e)
    BY <1>2, <2>1 DEF Fetch, FetchFails
  <2>2. CASE Skip(e) \/ Transition(e) \/ TransitionFails(e) \/ Dispatch(e) \/ Log(e) \/ LogFails(e)
    BY <1>6, <2>2 DEF Skip, Transition, TransitionFails, Dispatch, Log, LogFails
  <2>3. CASE Retry(e)
    BY <1>3, <2>3
  <2>4. CASE Ack(e)
    BY <1>4, <2>4 DEF Ack
  <2>5. CASE Crash(e) \/ Overrun(e)
    BY <1>4, <2>5 DEF Crash, Overrun
  <2> QED BY <1>7, <2>1, <2>2, <2>3, <2>4, <2>5 DEF Step
<1> QED BY <1>1, <1>5, <1>6, <1>7 DEF Next, Create, Delete, vars

LEMMA HistoryStep == TypeOK /\ [Next]_vars => HistoryOK'
<1> SUFFICES ASSUME TypeOK, [Next]_vars PROVE HistoryOK'
  OBVIOUS
<1>0. /\ seen \in [Rules -> [verdict: Verdicts, event: 0 .. Len(events)]]
      /\ fired \in [Rules -> Seq(Firing)] /\ alerts \in [Rules -> Seq(Firing)]
      /\ faults \in [FaultKinds -> Nat]
  BY DEF TypeOK, HistoryOK
<1>1. CASE UNCHANGED <<events, seen, fired, alerts>> /\ \E k \in FaultKinds : Spend(k)
  BY <1>0, <1>1, SpendLemma DEF HistoryOK
<1>2. CASE UNCHANGED <<events, history>>
  BY <1>0, <1>2 DEF history, HistoryOK
<1>3. ASSUME NEW s \in Snapshots, Publish(s)
      PROVE  HistoryOK'
  <2>1. UNCHANGED history /\ Len(events') = Len(events) + 1 /\ Len(events) \in Nat
    BY <1>3, AppendProperties, LenProperties DEF Publish, TypeOK, StreamOK
  <2>2. 0 .. Len(events) \subseteq 0 .. Len(events')
    BY <2>1
  <2>3. seen' \in [Rules -> [verdict: Verdicts, event: 0 .. Len(events')]]
    BY <1>0, <2>1, <2>2 DEF history
  <2> QED BY <1>0, <2>1, <2>3 DEF history, HistoryOK
<1>4. ASSUME NEW e \in Evaluators, Transition(e)
      PROVE  HistoryOK'
  <2> PICK r \in todo[e] : Update(e, r)
    BY <1>4 DEF Transition
  <2>1. r \in Rules /\ stage[e] # "idle" /\ UNCHANGED <<events, alerts, faults>>
    BY <1>4 DEF Transition, TypeOK, EvaluatorsOK, stream
  <2> QED BY <1>0, <2>1, UpdateLemma DEF HistoryOK
<1>5. ASSUME NEW e \in Evaluators, TransitionFails(e)
      PROVE  HistoryOK'
  <2> PICK r \in todo[e] : Update(e, r) \/ UNCHANGED <<row, seen, fired>>
    BY <1>5 DEF TransitionFails
  <2>1. r \in Rules /\ stage[e] # "idle" /\ UNCHANGED <<events, alerts>>
    BY <1>5 DEF TransitionFails, TypeOK, EvaluatorsOK, stream
  <2>2. faults' \in [FaultKinds -> Nat]
    BY <1>5, SpendLemma DEF TransitionFails, FaultKinds
  <2> QED BY <1>0, <2>1, <2>2, UpdateLemma DEF HistoryOK
<1>6. ASSUME NEW e \in Evaluators, Dispatch(e)
      PROVE  HistoryOK'
  <2> DEFINE a == [event |-> EventOf(e), at |-> now[e]]
  <2> PICK r \in firing[e] : alerts' = [alerts EXCEPT ![r] = Append(@, a)]
    BY <1>6 DEF Dispatch
  <2>1. r \in Rules /\ stage[e] # "idle" /\ UNCHANGED <<events, seen, fired, faults>>
    BY <1>6 DEF Dispatch, TypeOK, EvaluatorsOK, stream
  <2>2. EventOf(e) \in Nat
    BY <2>1, Held, LenProperties DEF TypeOK, StreamOK
  <2>3. now[e] \in Nat
    BY DEF TypeOK, StreamOK, EvaluatorsOK, Times
  <2>4. a \in Firing
    BY <2>2, <2>3 DEF Firing
  <2>5. Append(alerts[r], a) \in Seq(Firing)
    <3> HIDE DEF a
    <3> QED BY <1>0, <2>1, <2>4, AppendProperties
  <2> QED BY <1>0, <2>1, <2>5 DEF HistoryOK
<1>7. ASSUME NEW e \in Evaluators, Step(e)
      PROVE  HistoryOK'
  <2>1. CASE FetchFails(e) \/ LogFails(e) \/ Crash(e) \/ Overrun(e)
    BY <1>1, <2>1 DEF FetchFails, LogFails, Crash, Overrun, stream, FaultKinds
  <2>2. CASE Fetch(e) \/ Skip(e) \/ Log(e) \/ Retry(e) \/ Ack(e)
    BY <1>2, <2>2 DEF Fetch, Skip, Log, Retry, Ack, stream
  <2> QED BY <1>4, <1>5, <1>6, <1>7, <2>1, <2>2 DEF Step
<1> QED BY <1>2, <1>3, <1>7 DEF Next, Create, Delete, Tick, stream, vars

(* One evaluator moves at a time.                                          *)
LEMMA OthersKeep ==
  ASSUME TypeOK, NEW e \in Evaluators, Step(e), NEW d \in Evaluators, d # e
  PROVE  /\ stage'[d] = stage[d] /\ entry'[d] = entry[d] /\ now'[d] = now[d]
         /\ todo'[d] = todo[d] /\ firing'[d] = firing[d]
<1>0. /\ DOMAIN stage = Evaluators /\ DOMAIN entry = Evaluators /\ DOMAIN now = Evaluators
      /\ DOMAIN todo = Evaluators /\ DOMAIN firing = Evaluators
  BY DEF TypeOK, EvaluatorsOK
<1>1. CASE Fetch(e) \/ FetchFails(e)
  <2>1. entry'[d] = entry[d]
    BY <1>0, <1>1 DEF Fetch, FetchFails, Take
  <2> QED BY <1>0, <1>1, <2>1 DEF Fetch, FetchFails, NextRule
<1>2. CASE Skip(e) \/ Transition(e) \/ TransitionFails(e)
  BY <1>0, <1>2 DEF Skip, Transition, TransitionFails, NextRule
<1>3. CASE Dispatch(e) \/ Log(e) \/ LogFails(e) \/ Retry(e)
  BY <1>0, <1>3 DEF Dispatch, Log, LogFails, Retry, NextRule
<1>4. CASE Ack(e) \/ Crash(e) \/ Overrun(e)
  BY <1>0, <1>4 DEF Ack, Crash, Overrun, Idle, evaluators
<1> QED BY <1>1, <1>2, <1>3, <1>4 DEF Step

(* The types of EvaluatorsOK; the size of `firing' follows from HandOK.    *)
EvaluatorTypes ==
  /\ stage \in [Evaluators -> Stages]
  /\ entry \in [Evaluators -> 0 .. cursor]
  /\ \A e \in Evaluators : stage[e] # "idle" => entry[e] # 0
  /\ now \in [Evaluators -> 0 .. clock]
  /\ todo \in [Evaluators -> SUBSET Rules]
  /\ firing \in [Evaluators -> SUBSET Rules]

LEMMA EvaluatorsStep == TypeOK /\ [Next]_vars => EvaluatorTypes'
<1> SUFFICES ASSUME TypeOK, [Next]_vars PROVE EvaluatorTypes'
  OBVIOUS
<1>0. EvaluatorTypes /\ clock \in Nat /\ cursor \in Nat
  BY LenProperties DEF TypeOK, StreamOK, EvaluatorsOK, EvaluatorTypes, Times
<1>1. ASSUME NEW e \in Evaluators, Fetch(e) \/ FetchFails(e)
      PROVE  EvaluatorTypes'
  <2>1. Take(e) /\ UNCHANGED <<clock, firing>>
    BY <1>1 DEF Fetch, FetchFails
  <2>2. /\ 0 .. cursor \subseteq 0 .. cursor' /\ 1 .. cursor' \subseteq 0 .. cursor'
        /\ entry' = [entry EXCEPT ![e] = entry'[e]]
        /\ entry'[e] \in 1 .. cursor'
    <3>1. Len(queue) \in Nat
      BY LenProperties DEF TypeOK, StreamOK
    <3> QED BY <1>0, <2>1, <3>1, TakeLemma
  <2>3. entry' \in [Evaluators -> 0 .. cursor']
    BY <1>0, <2>2 DEF EvaluatorTypes
  <2>4. \A d \in Evaluators : stage'[d] # "idle" => entry'[d] # 0
    <3> SUFFICES ASSUME NEW d \in Evaluators, stage'[d] # "idle" PROVE entry'[d] # 0
      OBVIOUS
    <3>1. CASE d = e
      BY <2>2, <3>1
    <3>2. CASE d # e
      <4>1. stage'[d] = stage[d] /\ entry'[d] = entry[d]
        BY <1>1, <3>2, OthersKeep DEF Step
      <4> QED BY <1>0, <4>1 DEF EvaluatorTypes
    <3> QED BY <3>1, <3>2
  <2>5. stage' \in [Evaluators -> Stages]
    BY <1>0, <1>1 DEF Fetch, FetchFails, NextRule, EvaluatorTypes, Stages
  <2>6. todo' \in [Evaluators -> SUBSET Rules] /\ now' \in [Evaluators -> 0 .. clock']
    BY <1>0, <1>1 DEF Fetch, FetchFails, NextRule, EvaluatorTypes, ActiveRules
  <2> QED BY <1>0, <2>1, <2>3, <2>4, <2>5, <2>6 DEF EvaluatorTypes
<1>2. ASSUME NEW e \in Evaluators, Skip(e)
      PROVE  EvaluatorTypes'
  BY <1>0, <1>2 DEF Skip, NextRule, stream, EvaluatorTypes, Stages
<1>3. ASSUME NEW e \in Evaluators, Transition(e)
      PROVE  EvaluatorTypes'
  <2>1. stage[e] = "match" /\ UNCHANGED <<cursor, clock, entry, now>>
    BY <1>3 DEF Transition, stream
  <2>2. PICK r \in todo[e] :
          \/ /\ stage' = [stage EXCEPT ![e] = "dispatch"]
             /\ firing' = [firing EXCEPT ![e] = {r}]
             /\ todo' = [todo EXCEPT ![e] = @ \ {r}]
          \/ NextRule(e, todo[e] \ {r}) /\ UNCHANGED firing
    BY <1>3 DEF Transition
  <2>3. r \in Rules
    BY <1>0, <2>2 DEF EvaluatorTypes
  <2> QED BY <1>0, <2>1, <2>2, <2>3 DEF NextRule, EvaluatorTypes, Stages
<1>4. ASSUME NEW e \in Evaluators, TransitionFails(e) \/ Dispatch(e)
      PROVE  EvaluatorTypes'
  BY <1>0, <1>4 DEF TransitionFails, Dispatch, stream, EvaluatorTypes, Stages
<1>5. ASSUME NEW e \in Evaluators, Log(e) \/ LogFails(e)
      PROVE  EvaluatorTypes'
  BY <1>0, <1>5 DEF Log, LogFails, NextRule, stream, EvaluatorTypes, Stages
<1>6. ASSUME NEW e \in Evaluators, Retry(e)
      PROVE  EvaluatorTypes'
  BY <1>0, <1>6 DEF Retry, EvaluatorTypes, Stages
<1>7. ASSUME NEW e \in Evaluators, Ack(e) \/ Crash(e)
      PROVE  EvaluatorTypes'
  BY <1>0, <1>7 DEF Ack, Crash, Idle, EvaluatorTypes, Stages
<1>8. CASE UNCHANGED <<cursor, clock, evaluators>>
  BY <1>0, <1>8 DEF evaluators, EvaluatorTypes
<1>9. CASE Tick
  BY <1>0, <1>9 DEF Tick, stream, evaluators, EvaluatorTypes
<1>10. ASSUME NEW e \in Evaluators, Step(e)
       PROVE  EvaluatorTypes'
  BY <1>1, <1>2, <1>3, <1>4, <1>5, <1>6, <1>7, <1>8, <1>10 DEF Step, Overrun
<1> QED BY <1>8, <1>9, <1>10 DEF Next, Create, Delete, Publish, vars, stream

(* The status of a rule goes from new to active to deleted.                *)
LEMMA StatusStep ==
  ASSUME TypeOK, [Next]_vars, NEW r \in Rules, row[r].status # "new"
  PROVE  row'[r].status # "new"
<1>0. row \in [Rules -> Rows]
  BY DEF TypeOK, RowsOK
<1>1. ASSUME NEW e \in Evaluators, Step(e)
      PROVE  row'[r].status # "new"
  <2>1. ASSUME NEW q \in todo[e], stage[e] # "idle", Update(e, q)
        PROVE  row'[r].status # "new"
    BY <2>1, UpdateLemma DEF TypeOK, EvaluatorsOK
  <2>2. CASE Transition(e)
    BY <2>1, <2>2 DEF Transition
  <2>3. CASE TransitionFails(e)
    BY <2>1, <2>3 DEF TransitionFails
  <2>4. CASE row' = row
    BY <2>4
  <2> QED BY <1>1, <2>2, <2>3, <2>4 DEF Step, Fetch, FetchFails, Skip, Dispatch, Log, LogFails,
             Retry, Ack, Crash, Overrun
<1>2. ASSUME NEW q \in Rules, Create(q) \/ Delete(q)
      PROVE  row'[r].status # "new"
  BY <1>0, <1>2 DEF Create, Delete, Rows, NoRow
<1> QED BY <1>1, <1>2 DEF Next, Publish, Tick, vars

LEMMA HandStep == TypeOK /\ HandOK /\ [Next]_vars => HandOK'
<1> SUFFICES ASSUME TypeOK, HandOK, [Next]_vars, NEW d \in Evaluators
             PROVE  /\ IF stage'[d] \in {"dispatch", "log"}
                       THEN \E r \in Rules : firing'[d] = {r} ELSE firing'[d] = {}
                    /\ firing'[d] \cap todo'[d] = {}
                    /\ \A r \in todo'[d] : row'[r].status # "new"
                    /\ stage'[d] \in {"match", "dispatch", "log"} => now'[d] # 0
  BY DEF HandOK
<1>0. /\ stage \in [Evaluators -> Stages] /\ now \in [Evaluators -> 0 .. clock]
      /\ todo \in [Evaluators -> SUBSET Rules] /\ firing \in [Evaluators -> SUBSET Rules]
      /\ clock \in Nat \ {0}
  BY DEF TypeOK, StreamOK, EvaluatorsOK, Times
<1>1. /\ IF stage[d] \in {"dispatch", "log"}
         THEN \E r \in Rules : firing[d] = {r} ELSE firing[d] = {}
      /\ firing[d] \cap todo[d] = {}
      /\ \A r \in todo[d] : row[r].status # "new"
      /\ stage[d] \in {"match", "dispatch", "log"} => now[d] # 0
  BY DEF HandOK
<1>2. \A r \in todo[d] : row'[r].status # "new"
  BY <1>0, <1>1, StatusStep
<1>3. ASSUME /\ stage'[d] = stage[d] /\ now'[d] = now[d]
             /\ todo'[d] = todo[d] /\ firing'[d] = firing[d]
      PROVE  /\ IF stage'[d] \in {"dispatch", "log"}
                THEN \E r \in Rules : firing'[d] = {r} ELSE firing'[d] = {}
             /\ firing'[d] \cap todo'[d] = {}
             /\ \A r \in todo'[d] : row'[r].status # "new"
             /\ stage'[d] \in {"match", "dispatch", "log"} => now'[d] # 0
  BY <1>1, <1>2, <1>3
<1>4. ASSUME Step(d)
      PROVE  /\ IF stage'[d] \in {"dispatch", "log"}
                THEN \E r \in Rules : firing'[d] = {r} ELSE firing'[d] = {}
             /\ firing'[d] \cap todo'[d] = {}
             /\ \A r \in todo'[d] : row'[r].status # "new"
             /\ stage'[d] \in {"match", "dispatch", "log"} => now'[d] # 0
  <2>1. CASE Fetch(d)
    <3>1. /\ stage'[d] \in {"ack", "match"} /\ firing' = firing /\ todo'[d] = ActiveRules
          /\ now'[d] = clock /\ row' = row /\ stage[d] = "idle"
      BY <1>0, <2>1 DEF Fetch, NextRule
    <3> QED BY <1>0, <1>1, <3>1 DEF ActiveRules
  <2>2. CASE FetchFails(d) \/ TransitionFails(d) \/ LogFails(d)
    <3>1. stage'[d] = "failed" /\ firing'[d] = {} /\ todo' = todo
      BY <1>0, <1>1, <2>2 DEF FetchFails, TransitionFails, LogFails
    <3> QED BY <1>2, <3>1
  <2>3. CASE Skip(d)
    <3>1. /\ stage[d] = "match" /\ stage'[d] \in {"ack", "match"} /\ firing' = firing
          /\ todo'[d] \subseteq todo[d] /\ now' = now
      BY <1>0, <2>3 DEF Skip, NextRule
    <3> QED BY <1>1, <1>2, <3>1
  <2>4. CASE Transition(d)
    <3>1. PICK r \in todo[d] :
            IF Verdict(d, r) = "met" /\ Accepts(r, "met", now[d])
            THEN /\ stage' = [stage EXCEPT ![d] = "dispatch"]
                 /\ firing' = [firing EXCEPT ![d] = {r}]
                 /\ todo' = [todo EXCEPT ![d] = @ \ {r}]
            ELSE NextRule(d, todo[d] \ {r}) /\ UNCHANGED firing
      BY <2>4 DEF Transition
    <3>2. stage[d] = "match" /\ now' = now /\ r \in Rules
      BY <1>0, <2>4 DEF Transition
    <3>3. \/ stage'[d] = "dispatch" /\ firing'[d] = {r} /\ todo'[d] = todo[d] \ {r}
          \/ /\ stage'[d] \in {"ack", "match"} /\ firing' = firing
             /\ todo'[d] = todo[d] \ {r}
      BY <1>0, <3>1 DEF NextRule
    <3> QED BY <1>1, <1>2, <3>2, <3>3
  <2>5. CASE Dispatch(d)
    <3>1. /\ stage[d] = "dispatch" /\ stage'[d] = "log"
          /\ UNCHANGED <<now, todo, firing>>
      BY <1>0, <2>5 DEF Dispatch
    <3> QED BY <1>1, <1>2, <3>1
  <2>6. CASE Log(d)
    <3>1. /\ stage[d] = "log" /\ stage'[d] \in {"ack", "match"} /\ firing'[d] = {}
          /\ todo'[d] = todo[d] /\ now' = now
      BY <1>0, <2>6 DEF Log, NextRule
    <3> QED BY <1>1, <1>2, <3>1
  <2>7. CASE Retry(d)
    <3>1. /\ stage[d] = "failed" /\ stage'[d] = "ack" /\ UNCHANGED <<now, todo, firing>>
      BY <1>0, <2>7 DEF Retry
    <3> QED BY <1>1, <1>2, <3>1
  <2>8. CASE Ack(d) \/ Crash(d)
    <3>1. stage'[d] = "idle" /\ firing'[d] = {} /\ todo'[d] = {}
      BY <1>0, <2>8 DEF Ack, Crash, Idle
    <3> QED BY <3>1
  <2>9. CASE Overrun(d)
    BY <1>3, <2>9 DEF Overrun, evaluators
  <2> QED BY <1>4, <2>1, <2>2, <2>3, <2>4, <2>5, <2>6, <2>7, <2>8, <2>9 DEF Step
<1>5. ASSUME NEW e \in Evaluators, Step(e), e # d
      PROVE  /\ stage'[d] = stage[d] /\ now'[d] = now[d]
             /\ todo'[d] = todo[d] /\ firing'[d] = firing[d]
  BY <1>5, OthersKeep
<1> QED BY <1>3, <1>4, <1>5 DEF Next, Create, Delete, Publish, Tick, evaluators, vars

(* Evaluator e's UPDATE of rule r takes effect.                            *)
Judged(e, r) ==
  stage[e] = "match" /\ r \in todo[e] /\ Verdict(e, r) # "unknown" /\ Update(e, r)

(* An UPDATE that records the crossing, or the return, or nothing.         *)
Fires(e, r) ==
  /\ stage[e] = "match" /\ Verdict(e, r) = "met"
  /\ Accepts(r, "met", now[e])
  /\ row'[r].status = "active" /\ row'[r].met = "met" /\ row'[r].triggered = now[e]
  /\ fired'[r] = Append(fired[r], [event |-> EventOf(e), at |-> now[e]])

Rearms(e, r) ==
  /\ Verdict(e, r) = "unmet" /\ row[r].status = "active"
  /\ row'[r].status = "active" /\ row'[r].met = "unmet"
  /\ row'[r].triggered = row[r].triggered /\ fired'[r] = fired[r]

Refuses(e, r) ==
  ~Accepts(r, Verdict(e, r), now[e]) /\ row'[r] = row[r] /\ fired'[r] = fired[r]

LEMMA UpdateEffect ==
  ASSUME TypeOK, NEW e \in Evaluators, NEW r \in Rules, Judged(e, r)
  PROVE  /\ \A q \in Rules : q # r =>
              row'[q] = row[q] /\ fired'[q] = fired[q] /\ seen'[q] = seen[q]
         /\ seen'[r].verdict = Verdict(e, r)
         /\ Fires(e, r) \/ Rearms(e, r) \/ Refuses(e, r)
<1>0. row \in [Rules -> Rows] /\ DOMAIN fired = Rules /\ DOMAIN seen = Rules
  BY DEF TypeOK, RowsOK, HistoryOK
<1>1. Verdict(e, r) \in {"met", "unmet"}
  BY VerdictType DEF Judged, Verdicts
<1>2. /\ seen'[r].verdict = Verdict(e, r)
      /\ \A q \in Rules : q # r => seen'[q] = seen[q]
  BY <1>0 DEF Judged, Update
<1>3. CASE Accepts(r, Verdict(e, r), now[e])
  <2>1. /\ row' = [row EXCEPT ![r].met = Verdict(e, r),
                              ![r].triggered = IF Verdict(e, r) = "met" THEN now[e] ELSE @]
        /\ fired' = IF Verdict(e, r) = "met"
                    THEN [fired EXCEPT ![r] = Append(@, [event |-> EventOf(e), at |-> now[e]])]
                    ELSE fired
    BY <1>3 DEF Judged, Update, Moved
  <2>2. \A q \in Rules : q # r => row'[q] = row[q] /\ fired'[q] = fired[q]
    BY <1>0, <2>1
  <2>3. row[r].status = "active"
    BY <1>3 DEF Accepts
  <2>4. /\ row'[r].status = "active" /\ row'[r].met = Verdict(e, r)
        /\ row'[r].triggered = IF Verdict(e, r) = "met" THEN now[e] ELSE row[r].triggered
    BY <1>0, <2>1, <2>3 DEF Rows
  <2>5. CASE Verdict(e, r) = "met"
    <3>1. Fires(e, r)
      BY <1>0, <1>3, <2>1, <2>4, <2>5 DEF Fires, Judged
    <3> QED BY <1>2, <2>2, <3>1
  <2>6. CASE Verdict(e, r) = "unmet"
    <3>1. Rearms(e, r)
      BY <1>0, <2>1, <2>3, <2>4, <2>6 DEF Rearms
    <3> QED BY <1>2, <2>2, <3>1
  <2> QED BY <1>1, <2>5, <2>6
<1>4. CASE ~Accepts(r, Verdict(e, r), now[e])
  <2>1. row' = row /\ fired' = fired
    BY <1>4 DEF Judged, Update
  <2> QED BY <1>2, <1>4, <2>1 DEF Refuses
<1> QED BY <1>3, <1>4

(* What a step does to the row and the history of one rule.                *)
LEMMA RuleMoves ==
  ASSUME TypeOK, [Next]_vars, NEW r \in Rules
  PROVE  \/ row'[r] = row[r] /\ fired'[r] = fired[r] /\ seen'[r] = seen[r]
         \/ (Create(r) \/ Delete(r)) /\ fired'[r] = fired[r] /\ seen'[r] = seen[r]
         \/ \E e \in Evaluators : Judged(e, r)
<1>0. row \in [Rules -> Rows]
  BY DEF TypeOK, RowsOK
<1>1. ASSUME NEW q \in Rules, Create(q) \/ Delete(q)
      PROVE  /\ fired' = fired /\ seen' = seen
             /\ q # r => row'[r] = row[r]
  BY <1>0, <1>1 DEF Create, Delete, history
<1>2. ASSUME NEW e \in Evaluators, Step(e)
      PROVE  \/ row'[r] = row[r] /\ fired'[r] = fired[r] /\ seen'[r] = seen[r]
             \/ \E d \in Evaluators : Judged(d, r)
  <2>1. \/ UNCHANGED <<row, fired, seen>>
        \/ \E q \in todo[e] : Judged(e, q)
    <3>1. CASE Transition(e) \/ TransitionFails(e)
      BY <3>1 DEF Transition, TransitionFails, Judged
    <3>2. CASE ~(Transition(e) \/ TransitionFails(e))
      BY <1>2, <3>2 DEF Step, Fetch, FetchFails, Skip, Dispatch, Log, LogFails, Retry, Ack, Crash,
                        Overrun, history
    <3> QED BY <3>1, <3>2
  <2>2. ASSUME NEW q \in todo[e], Judged(e, q), q # r
        PROVE  row'[r] = row[r] /\ fired'[r] = fired[r] /\ seen'[r] = seen[r]
    <3>1. q \in Rules
      BY DEF TypeOK, EvaluatorsOK
    <3> QED BY <2>2, <3>1, UpdateEffect
  <2> QED BY <2>1, <2>2
<1>3. CASE UNCHANGED <<row, history>>
  BY <1>3 DEF history
<1> QED BY <1>1, <1>2, <1>3 DEF Next, Publish, Tick, vars

LEMMA RulesStep == IInv /\ [Next]_vars => RulesOK'
<1> SUFFICES ASSUME IInv, [Next]_vars, NEW r \in Rules PROVE RuleOK(r)'
  BY DEF RulesOK
<1>0. /\ TypeOK /\ HandOK /\ RuleOK(r) /\ row[r] \in Rows /\ row \in [Rules -> Rows]
      /\ Cooldown[r] \in Nat \ {0}
  BY ConstantsAssumption DEF IInv, RulesOK, TypeOK, RowsOK
<1>1. CASE row'[r] = row[r] /\ fired'[r] = fired[r] /\ seen'[r] = seen[r]
  BY <1>0, <1>1 DEF RuleOK
<1>2. CASE (Create(r) \/ Delete(r)) /\ fired'[r] = fired[r] /\ seen'[r] = seen[r]
  <2>1. CASE Create(r)
    <3>1. row[r] = NoRow /\ fired[r] = <<>> /\ row[r].status = "new"
      BY <1>0, <2>1 DEF Create, RuleOK
    <3>2. row'[r].status = "active" /\ row'[r].triggered = 0 /\ DOMAIN fired'[r] = {}
      BY <1>0, <1>2, <2>1, <3>1 DEF Create, NoRow, Rows
    <3> QED BY <1>2, <3>1, <3>2 DEF RuleOK
  <2>2. CASE Delete(r)
    <3>1. row'[r].status = "deleted"
      BY <1>0, <2>2 DEF Delete, NoRow
    <3> QED BY <3>1 DEF RuleOK
  <2> QED BY <1>2, <2>1, <2>2
<1>3. ASSUME NEW e \in Evaluators, Judged(e, r)
      PROVE  RuleOK(r)'
  <2>1. row[r].status # "new" /\ now[e] \in Nat \ {0}
    BY <1>0, <1>3 DEF Judged, HandOK, TypeOK, StreamOK, EvaluatorsOK, Times
  <2>2. Fires(e, r) \/ Rearms(e, r) \/ Refuses(e, r)
    BY <1>0, <1>3, UpdateEffect
  <2>3. CASE Fires(e, r)
    <3> DEFINE f == [event |-> EventOf(e), at |-> now[e]]
    <3>1. /\ row[r].status = "active" /\ row'[r].status = "active" /\ row'[r].met = "met"
          /\ row'[r].triggered = now[e] /\ fired'[r] = Append(fired[r], f)
          /\ row[r].triggered = 0 \/ row[r].triggered + Cooldown[r] <= now[e]
      BY <2>3 DEF Fires, Accepts, Cooled
    <3>2. fired[r] \in Seq(Firing) /\ f \in Firing /\ f.at = now[e]
      <4>1. EventOf(e) \in 1 .. Len(events) /\ Len(events) \in Nat
        BY <1>0, <1>3, Held, LenProperties DEF TypeOK, StreamOK, Judged
      <4> QED BY <1>0, <2>1, <4>1 DEF TypeOK, HistoryOK, Firing
    <3> HIDE DEF f
    <3>3. \A k \in DOMAIN fired[r] : fired[r][k].at <= now[e]
      <4> SUFFICES ASSUME NEW k \in DOMAIN fired[r] PROVE fired[r][k].at <= now[e]
        OBVIOUS
      <4>1. fired[r][k] \in Firing /\ fired[r] # <<>>
        BY <3>2, LenProperties, ElementOfSeq
      <4>2. fired[r][k].at <= row[r].triggered /\ row[r].triggered # 0
        BY <1>0, <3>1, <4>1 DEF RuleOK
      <4> QED BY <1>0, <2>1, <3>1, <4>1, <4>2 DEF Rows, Firing
    <3>4. /\ fired'[r] # <<>>
          /\ \A k \in DOMAIN fired'[r] : fired'[r][k].at <= now[e]
      <4>1. /\ Append(fired[r], f) \in Seq(Firing) /\ Append(fired[r], f) # <<>>
            /\ Len(Append(fired[r], f)) = Len(fired[r]) + 1
            /\ \A k \in 1 .. Len(fired[r]) : Append(fired[r], f)[k] = fired[r][k]
            /\ Append(fired[r], f)[Len(fired[r]) + 1] = f
        BY <3>2, AppendProperties
      <4>2. /\ DOMAIN Append(fired[r], f) = 1 .. Len(fired[r]) + 1
            /\ DOMAIN fired[r] = 1 .. Len(fired[r]) /\ Len(fired[r]) \in Nat
        BY <3>2, <4>1, LenProperties
      <4>3. \A k \in 1 .. Len(fired[r]) + 1 : k \in 1 .. Len(fired[r]) \/ k = Len(fired[r]) + 1
        BY <4>2
      <4> QED BY <2>1, <3>1, <3>2, <3>3, <4>1, <4>2, <4>3
    <3> QED BY <2>1, <3>1, <3>4 DEF RuleOK
  <2>4. CASE Rearms(e, r)
    BY <1>0, <2>4 DEF Rearms, RuleOK
  <2>5. CASE Refuses(e, r)
    BY <1>0, <2>1, <2>5 DEF Refuses, RuleOK
  <2> QED BY <2>2, <2>3, <2>4, <2>5
<1> QED BY <1>0, <1>1, <1>2, <1>3, RuleMoves

LEMMA InvStep == IInv /\ [Next]_vars => IInv'
<1> SUFFICES ASSUME IInv, [Next]_vars PROVE IInv'
  OBVIOUS
<1>1. RowsOK' /\ StreamOK' /\ HistoryOK' /\ EvaluatorTypes' /\ HandOK' /\ RulesOK'
  BY RowsStep, StreamStep, HistoryStep, EvaluatorsStep, HandStep, RulesStep DEF IInv
<1>2. \A e \in Evaluators :
        Cardinality(firing'[e]) = IF stage'[e] \in {"dispatch", "log"} THEN 1 ELSE 0
  <2> SUFFICES ASSUME NEW e \in Evaluators
               PROVE  Cardinality(firing'[e]) = IF stage'[e] \in {"dispatch", "log"} THEN 1 ELSE 0
    OBVIOUS
  <2>1. IF stage'[e] \in {"dispatch", "log"}
        THEN \E r \in Rules : firing'[e] = {r} ELSE firing'[e] = {}
    BY <1>1 DEF HandOK
  <2>2. \A x : Cardinality({x}) = 1
    BY FS_Singleton
  <2>3. Cardinality({}) = 0
    BY FS_EmptySet
  <2> QED BY <2>1, <2>2, <2>3
<1> QED BY <1>1, <1>2 DEF IInv, TypeOK, EvaluatorsOK, EvaluatorTypes

LEMMA InvInit == Init => IInv
<1> SUFFICES ASSUME Init PROVE IInv
  OBVIOUS
<1>1. HandOK
  BY DEF Init, HandOK
<1>2. RulesOK
  BY DEF Init, RulesOK, RuleOK, NoRow
<1> QED BY <1>1, <1>2, TypeInit DEF IInv

(* Every variable keeps its type: an evaluator's entry is one delivered,   *)
(* and it has one rule in hand exactly while it dispatches or logs.        *)
THEOREM TypeCorrect == Spec => []TypeOK
<1>1. IInv => TypeOK
  BY DEF IInv
<1> QED BY <1>1, InvInit, InvStep, PTL DEF Spec

-----------------------------------------------------------------------------
(* The stored state. *)

LEMMA StateStep == IInv /\ StateIsLastVerdict /\ [Next]_vars => StateIsLastVerdict'
<1> SUFFICES ASSUME IInv, StateIsLastVerdict, [Next]_vars, NEW r \in Rules,
                    row'[r].status = "active", row'[r].met # seen'[r].verdict
             PROVE  seen'[r].verdict = "met" /\ row'[r].met = "unmet" /\ fired'[r] # <<>>
  BY DEF StateIsLastVerdict, ActiveRules
<1>0. TypeOK /\ HandOK /\ RuleOK(r) /\ row[r] \in Rows /\ row \in [Rules -> Rows]
  BY DEF IInv, RulesOK, TypeOK, RowsOK
<1>1. CASE row'[r] = row[r] /\ fired'[r] = fired[r] /\ seen'[r] = seen[r]
  BY <1>1 DEF StateIsLastVerdict, ActiveRules
<1>2. CASE (Create(r) \/ Delete(r)) /\ fired'[r] = fired[r] /\ seen'[r] = seen[r]
  <2>1. ~Delete(r)
    BY <1>0 DEF Delete, NoRow
  <2>2. Create(r) /\ row[r] = NoRow /\ seen[r].verdict = "unknown"
    BY <1>0, <1>2, <2>1 DEF Create, RuleOK
  <2>3. row'[r].met = "unknown"
    BY <1>0, <2>2 DEF Create, NoRow, Rows
  <2> QED BY <1>2, <2>2, <2>3
<1>3. ASSUME NEW e \in Evaluators, Judged(e, r)
      PROVE  seen'[r].verdict = "met" /\ row'[r].met = "unmet" /\ fired'[r] # <<>>
  <2>1. seen'[r].verdict = Verdict(e, r) /\ (Fires(e, r) \/ Rearms(e, r) \/ Refuses(e, r))
    BY <1>0, <1>3, UpdateEffect
  <2>2. Refuses(e, r)
    BY <2>1 DEF Fires, Rearms
  <2>3. row'[r] = row[r] /\ fired'[r] = fired[r] /\ ~Accepts(r, Verdict(e, r), now[e])
    BY <2>2 DEF Refuses
  <2>4. Verdict(e, r) = "met" /\ row[r].triggered # 0
    BY <2>1, <2>3 DEF Accepts, Cooled
  <2>5. fired[r] # <<>> /\ row[r].met # "unknown"
    BY <1>0, <2>3, <2>4 DEF RuleOK
  <2> QED BY <1>0, <2>1, <2>3, <2>4, <2>5 DEF Rows, Verdicts
<1> QED BY <1>0, <1>1, <1>2, <1>3, RuleMoves

(* The stored state is the last verdict on the rule, except that a         *)
(* crossing inside the cooldown stays unrecorded.                          *)
THEOREM StateTheorem == Spec => []StateIsLastVerdict
<1>1. Init => StateIsLastVerdict
  BY DEF Init, StateIsLastVerdict, ActiveRules, NoRow
<1> QED BY <1>1, InvInit, InvStep, StateStep, PTL DEF Spec

-----------------------------------------------------------------------------
(* Transitions, the alerts in hand and the alerts sent.  Every step does   *)
(* one of five things to those of one rule.                                *)

Quiet(r) ==
  /\ Pending(r)' = Pending(r) /\ alerts'[r] = alerts[r] /\ fired'[r] = fired[r]
  /\ faults'["crash"] >= faults["crash"] /\ faults'["database"] >= faults["database"]

\* Evaluator e records a transition and has its alert in hand ...
Starts(e, r) ==
  /\ Fires(e, r) /\ e \notin Pending(r) /\ Pending(r)' = Pending(r) \cup {e}
  /\ alerts'[r] = alerts[r] /\ faults' = faults

\* ... or records it and does not learn that it did.
Misses(e, r) ==
  /\ Fires(e, r) /\ Pending(r)' = Pending(r) /\ alerts'[r] = alerts[r]
  /\ faults'["crash"] = faults["crash"] /\ faults'["database"] = faults["database"] + 1

\* It sends the alert, or dies with it.
Sends(e, r) ==
  /\ e \in Pending(r) /\ Pending(r)' = Pending(r) \ {e} /\ fired'[r] = fired[r]
  /\ alerts'[r] = Append(alerts[r], [event |-> EventOf(e), at |-> now[e]])
  /\ faults' = faults

Drops(e, r) ==
  /\ e \in Pending(r) /\ Pending(r)' = Pending(r) \ {e} /\ fired'[r] = fired[r]
  /\ alerts'[r] = alerts[r]
  /\ faults'["crash"] = faults["crash"] + 1 /\ faults'["database"] = faults["database"]

LEMMA AlertMoves ==
  ASSUME IInv, [Next]_vars, NEW r \in Rules
  PROVE  /\ \A e \in Pending(r)' : now'[e] = now[e]
         /\ Quiet(r) \/ \E e \in Evaluators :
              Starts(e, r) \/ Misses(e, r) \/ Sends(e, r) \/ Drops(e, r)
<1>0. /\ TypeOK /\ HandOK /\ faults["crash"] \in Nat /\ faults["database"] \in Nat
      /\ faults["slow"] \in Nat
  BY DEF IInv, TypeOK, HistoryOK, FaultKinds
<1>1. /\ stage \in [Evaluators -> Stages] /\ now \in [Evaluators -> 0 .. clock]
      /\ todo \in [Evaluators -> SUBSET Rules] /\ firing \in [Evaluators -> SUBSET Rules]
      /\ alerts \in [Rules -> Seq(Firing)]
  BY <1>0 DEF TypeOK, EvaluatorsOK, HistoryOK
<1>2. CASE UNCHANGED <<evaluators, history>>
  BY <1>0, <1>2 DEF evaluators, history, Quiet, Pending
<1>3. ASSUME NEW e \in Evaluators, Step(e)
      PROVE  /\ \A d \in Pending(r)' : now'[d] = now[d]
             /\ \/ Quiet(r)
                \/ Starts(e, r) \/ Misses(e, r) \/ Sends(e, r) \/ Drops(e, r)
  <2>1. /\ \A d \in Evaluators : d # e =>
             now'[d] = now[d] /\ (d \in Pending(r)' <=> d \in Pending(r))
        /\ Pending(r) \subseteq Evaluators /\ Pending(r)' \subseteq Evaluators
    BY <1>0, <1>3, OthersKeep DEF Pending
  <2>2. /\ e \in Pending(r) <=> stage[e] = "dispatch" /\ r \in firing[e]
        /\ e \in Pending(r)' <=> stage'[e] = "dispatch" /\ r \in firing'[e]
    BY DEF Pending
  <2>3. ASSUME e \notin Pending(r), e \notin Pending(r)'
        PROVE  /\ Pending(r)' = Pending(r)
               /\ \A d \in Pending(r)' : now'[d] = now[d]
    BY <2>1, <2>3
  <2>4. CASE Fetch(e) \/ Skip(e) \/ Log(e) \/ Retry(e) \/ Ack(e)
    <3>1. stage[e] # "dispatch" /\ stage'[e] # "dispatch" /\ UNCHANGED history
      BY <1>1, <2>4 DEF Fetch, Skip, Log, Retry, Ack, NextRule, Idle
    <3> QED BY <1>0, <2>2, <2>3, <3>1 DEF Quiet, history
  <2>5. CASE FetchFails(e) \/ LogFails(e)
    <3>1. stage[e] # "dispatch" /\ stage'[e] # "dispatch" /\ UNCHANGED <<seen, fired, alerts>>
      BY <1>1, <2>5 DEF FetchFails, LogFails
    <3>2. Spend("database")
      BY <2>5 DEF FetchFails, LogFails
    <3>3. faults'["crash"] >= faults["crash"] /\ faults'["database"] >= faults["database"]
      BY <1>0, <3>2, SpendLemma DEF FaultKinds
    <3> QED BY <2>2, <2>3, <3>1, <3>3 DEF Quiet
  <2>6. CASE Overrun(e)
    <3>1. faults'["crash"] >= faults["crash"] /\ faults'["database"] >= faults["database"]
      BY <1>0, <2>6, SpendLemma DEF Overrun, FaultKinds
    <3> QED BY <2>6, <3>1 DEF Overrun, evaluators, Quiet, Pending
  <2>7. CASE Transition(e)
    <3>1. PICK q \in todo[e] :
            /\ Verdict(e, q) # "unknown" /\ Update(e, q)
            /\ IF Verdict(e, q) = "met" /\ Accepts(q, "met", now[e])
               THEN /\ stage' = [stage EXCEPT ![e] = "dispatch"]
                    /\ firing' = [firing EXCEPT ![e] = {q}]
               ELSE NextRule(e, todo[e] \ {q}) /\ UNCHANGED firing
      BY <2>7 DEF Transition
    <3>2. /\ q \in Rules /\ Judged(e, q) /\ stage[e] = "match"
          /\ UNCHANGED <<alerts, faults, now>>
      BY <1>1, <2>7, <3>1 DEF Transition, Judged
    <3>3. /\ \A p \in Rules : p # q => fired'[p] = fired[p]
          /\ Fires(e, q) \/ Rearms(e, q) \/ Refuses(e, q)
      BY <1>0, <3>2, UpdateEffect
    <3>4. e \notin Pending(r)
      BY <2>2, <3>2
    <3>5. CASE Verdict(e, q) = "met" /\ Accepts(q, "met", now[e])
      <4>1. Fires(e, q)
        BY <3>3, <3>5 DEF Rearms, Refuses
      <4>2. e \in Pending(r)' <=> r = q
        BY <1>1, <2>2, <3>1, <3>5
      <4>3. CASE r = q
        <5>1. Pending(r)' = Pending(r) \cup {e}
          BY <2>1, <4>2, <4>3
        <5> QED BY <3>2, <3>4, <4>1, <4>3, <5>1 DEF Starts
      <4>4. CASE r # q
        BY <1>0, <2>3, <3>2, <3>3, <3>4, <4>2, <4>4 DEF Quiet
      <4> QED BY <4>3, <4>4
    <3>6. CASE ~(Verdict(e, q) = "met" /\ Accepts(q, "met", now[e]))
      <4>1. stage'[e] # "dispatch"
        BY <1>1, <3>1, <3>6 DEF NextRule
      <4>2. fired'[q] = fired[q]
        BY <3>3, <3>6 DEF Fires, Rearms, Refuses
      <4> QED BY <1>0, <2>2, <2>3, <3>2, <3>3, <3>4, <4>1, <4>2 DEF Quiet
    <3> QED BY <3>5, <3>6
  <2>8. CASE TransitionFails(e)
    <3>1. PICK q \in todo[e] :
            Verdict(e, q) # "unknown" /\ (Update(e, q) \/ UNCHANGED <<row, seen, fired>>)
      BY <2>8 DEF TransitionFails
    <3>2. /\ q \in Rules /\ stage[e] = "match" /\ stage'[e] = "failed" /\ UNCHANGED <<alerts, now>>
          /\ faults'["crash"] = faults["crash"] /\ faults'["database"] = faults["database"] + 1
      <4>1. Spend("database")
        BY <2>8 DEF TransitionFails
      <4>2. /\ faults'["crash"] = faults["crash"] /\ faults'["database"] = faults["database"] + 1
        BY <1>0, <4>1, SpendLemma DEF FaultKinds
      <4> QED BY <1>1, <2>8, <3>1, <4>2 DEF TransitionFails
    <3>3. Pending(r)' = Pending(r)
      BY <2>2, <2>3, <3>2
    <3>4. CASE UNCHANGED <<row, seen, fired>>
      BY <1>0, <3>2, <3>3, <3>4 DEF Quiet
    <3>5. CASE Update(e, q)
      <4>1. Judged(e, q)
        BY <3>1, <3>2, <3>5 DEF Judged
      <4>2. /\ \A p \in Rules : p # q => fired'[p] = fired[p]
            /\ Fires(e, q) \/ Rearms(e, q) \/ Refuses(e, q)
        BY <1>0, <3>2, <4>1, UpdateEffect
      <4>3. CASE r = q /\ Fires(e, q)
        BY <3>2, <3>3, <4>3 DEF Misses
      <4>4. CASE ~(r = q /\ Fires(e, q))
        <5>1. fired'[r] = fired[r]
          BY <4>2, <4>4 DEF Rearms, Refuses
        <5> QED BY <1>0, <3>2, <3>3, <5>1 DEF Quiet
      <4> QED BY <3>2, <4>3, <4>4
    <3> QED BY <3>1, <3>2, <3>4, <3>5
  <2>9. CASE Dispatch(e)
    <3>1. PICK q \in Rules : firing[e] = {q}
      BY <1>0, <2>9 DEF Dispatch, HandOK
    <3>2. /\ alerts' = [alerts EXCEPT ![q] =
                          Append(@, [event |-> EventOf(e), at |-> now[e]])]
          /\ stage[e] = "dispatch" /\ stage'[e] = "log"
          /\ UNCHANGED <<firing, fired, faults, now>>
      BY <1>1, <2>9, <3>1 DEF Dispatch
    <3>3. CASE q = r
      <4>1. e \in Pending(r) /\ e \notin Pending(r)'
        BY <2>2, <3>1, <3>2, <3>3
      <4>2. Pending(r)' = Pending(r) \ {e}
        BY <2>1, <4>1
      <4> QED BY <1>1, <3>2, <3>3, <4>1, <4>2 DEF Sends
    <3>4. CASE q # r
      <4>1. e \notin Pending(r) /\ e \notin Pending(r)'
        BY <2>2, <3>1, <3>2, <3>4
      <4>2. Pending(r)' = Pending(r) /\ alerts'[r] = alerts[r]
        BY <1>1, <2>3, <3>2, <3>4, <4>1
      <4> QED BY <1>0, <3>2, <4>2 DEF Quiet
    <3> QED BY <3>2, <3>3, <3>4
  <2>10. CASE Crash(e)
    <3>1. /\ stage'[e] = "idle" /\ UNCHANGED <<fired, alerts>>
          /\ faults'["crash"] = faults["crash"] + 1 /\ faults'["database"] = faults["database"]
      <4>1. Spend("crash")
        BY <2>10 DEF Crash
      <4>2. /\ faults'["crash"] = faults["crash"] + 1 /\ faults'["database"] = faults["database"]
        BY <1>0, <4>1, SpendLemma DEF FaultKinds
      <4> QED BY <1>1, <2>10, <4>2 DEF Crash, Idle
    <3>2. e \notin Pending(r)'
      BY <2>2, <3>1
    <3>3. \A d \in Pending(r)' : now'[d] = now[d]
      BY <2>1, <3>2
    <3>4. CASE e \in Pending(r)
      <4>1. Pending(r)' = Pending(r) \ {e}
        BY <2>1, <3>2
      <4> QED BY <3>1, <3>3, <3>4, <4>1 DEF Drops
    <3>5. CASE e \notin Pending(r)
      BY <1>0, <2>3, <3>1, <3>2, <3>5 DEF Quiet
    <3> QED BY <3>3, <3>4, <3>5
  <2> QED BY <1>3, <2>4, <2>5, <2>6, <2>7, <2>8, <2>9, <2>10 DEF Step
<1> QED BY <1>2, <1>3 DEF Next, Create, Delete, Publish, Tick, evaluators, history, vars, Pending

-----------------------------------------------------------------------------
(* The cooldown.  CooldownRespected is not inductive: an evaluator holds   *)
(* its `now' while others record transitions.  The transitions a rule      *)
(* records are a cooldown apart, because the UPDATE compares with the last *)
(* of them; alerts are of transitions, each of another one.                *)

(* An appended transition, and an appended alert.                          *)
LEMMA AppendLemma ==
  ASSUME NEW s \in Seq(Firing), NEW n \in Nat, NEW t \in Nat
  PROVE  LET a == Append(s, [event |-> n, at |-> t])
         IN  /\ a \in Seq(Firing) /\ Len(a) = Len(s) + 1 /\ Len(s) \in Nat
             /\ DOMAIN s = 1 .. Len(s) /\ DOMAIN a = 1 .. Len(s) + 1
             /\ \A k \in DOMAIN s : k \in DOMAIN a /\ a[k] = s[k]
             /\ \A k \in DOMAIN a : k \in DOMAIN s \/ k = Len(s) + 1
             /\ Len(s) + 1 \in DOMAIN a /\ Len(s) + 1 \notin DOMAIN s
             /\ a[Len(s) + 1].event = n /\ a[Len(s) + 1].at = t
<1> DEFINE f == [event |-> n, at |-> t]
           a == Append(s, f)
<1>1. f \in Firing /\ f.event = n /\ f.at = t
  BY DEF Firing
<1> HIDE DEF f
<1>2. /\ a \in Seq(Firing) /\ Len(a) = Len(s) + 1
      /\ (\A k \in 1 .. Len(s) : a[k] = s[k]) /\ a[Len(s) + 1] = f
  BY <1>1, AppendProperties
<1>3. Len(s) \in Nat /\ DOMAIN s = 1 .. Len(s)
  BY LenProperties
<1> HIDE DEF a
<1>4. DOMAIN a = 1 .. Len(s) + 1
  BY <1>2, LenProperties
<1>5. /\ \A k \in 1 .. Len(s) : k \in 1 .. Len(s) + 1
      /\ \A k \in 1 .. Len(s) + 1 : k \in 1 .. Len(s) \/ k = Len(s) + 1
      /\ Len(s) + 1 \in 1 .. Len(s) + 1 /\ Len(s) + 1 \notin 1 .. Len(s)
  BY <1>3
<1>6. /\ a \in Seq(Firing) /\ Len(a) = Len(s) + 1 /\ Len(s) \in Nat
      /\ DOMAIN s = 1 .. Len(s) /\ DOMAIN a = 1 .. Len(s) + 1
      /\ \A k \in DOMAIN s : k \in DOMAIN a /\ a[k] = s[k]
      /\ \A k \in DOMAIN a : k \in DOMAIN s \/ k = Len(s) + 1
      /\ Len(s) + 1 \in DOMAIN a /\ Len(s) + 1 \notin DOMAIN s
      /\ a[Len(s) + 1].event = n /\ a[Len(s) + 1].at = t
  BY <1>1, <1>2, <1>3, <1>4, <1>5
<1> QED BY <1>6 DEF a, f

(* A recorded transition comes a cooldown after all those before it.       *)
LEMMA FiresLate ==
  ASSUME IInv, NEW r \in Rules, NEW e \in Evaluators, Fires(e, r)
  PROVE  \A k \in DOMAIN fired[r] : fired[r][k].at + Cooldown[r] <= now[e]
<1> SUFFICES ASSUME NEW k \in DOMAIN fired[r] PROVE fired[r][k].at + Cooldown[r] <= now[e]
  OBVIOUS
<1>1. /\ row[r].triggered = 0 \/ row[r].triggered + Cooldown[r] <= now[e]
      /\ RuleOK(r) /\ row[r].status = "active"
  BY DEF Fires, Accepts, Cooled, IInv, RulesOK
<1>2. fired[r] \in Seq(Firing) /\ fired[r][k] \in Firing /\ fired[r] # <<>>
  <2>1. fired[r] \in Seq(Firing)
    BY DEF IInv, TypeOK, HistoryOK
  <2>2. DOMAIN fired[r] = 1 .. Len(fired[r]) /\ Len(fired[r]) \in Nat
    BY <2>1, LenProperties
  <2>3. fired[r] # <<>>
    <3>1. Len(fired[r]) # 0
      BY <2>2
    <3> QED BY <3>1, EmptySeq
  <2> QED BY <2>1, <2>2, <2>3, ElementOfSeq
<1>3. row[r].triggered \in Nat /\ Cooldown[r] \in Nat /\ now[e] \in Nat /\ fired[r][k].at \in Nat
  <2>1. fired[r][k].at \in Nat
    BY <1>2 DEF Firing
  <2>2. Cooldown[r] \in Nat
    BY ConstantsAssumption
  <2>3. row[r].triggered \in Nat
    <3>1. row[r] \in Rows
      BY DEF IInv, TypeOK, RowsOK
    <3> QED BY <3>1 DEF Rows, Times
  <2>4. now[e] \in Nat
    BY DEF IInv, TypeOK, StreamOK, EvaluatorsOK, Times
  <2> QED BY <2>1, <2>2, <2>3, <2>4
<1>4. row[r].triggered # 0 /\ fired[r][k].at <= row[r].triggered
  BY <1>1, <1>2 DEF RuleOK
<1> QED BY <1>1, <1>3, <1>4

LEMMA CooldownStep == IInv /\ CooldownOK /\ [Next]_vars => CooldownOK'
<1> SUFFICES ASSUME IInv, CooldownOK, [Next]_vars, NEW r \in Rules
             PROVE  Spaced(r)' /\ Matched(r)'
  BY DEF CooldownOK
<1>0. /\ TypeOK /\ HandOK /\ Spaced(r) /\ Matched(r) /\ Cooldown[r] \in Nat \ {0}
      /\ fired[r] \in Seq(Firing) /\ alerts[r] \in Seq(Firing) /\ Pending(r) \subseteq Evaluators
  BY ConstantsAssumption DEF IInv, CooldownOK, TypeOK, HistoryOK, Pending
<1>1. /\ \A e \in Pending(r)' : now'[e] = now[e]
      /\ Quiet(r) \/ \E e \in Evaluators :
           Starts(e, r) \/ Misses(e, r) \/ Sends(e, r) \/ Drops(e, r)
  BY AlertMoves
<1>2. ASSUME Pending(r)' \subseteq Pending(r), alerts'[r] = alerts[r], fired'[r] = fired[r]
      PROVE  Spaced(r)' /\ Matched(r)'
  BY <1>0, <1>1, <1>2 DEF Spaced, Matched
<1>3. ASSUME NEW e \in Evaluators, Fires(e, r)
      PROVE  /\ Spaced(r)'
             /\ \A j \in DOMAIN fired[r] : j \in DOMAIN fired'[r] /\ fired'[r][j] = fired[r][j]
             /\ \E j \in DOMAIN fired'[r] : fired'[r][j].at = now[e]
             /\ \A j \in DOMAIN fired[r] : fired[r][j].at # now[e]
  <2> DEFINE s == fired[r]
             a == Append(s, [event |-> EventOf(e), at |-> now[e]])
  <2>1. now[e] \in Nat /\ EventOf(e) \in Nat /\ fired'[r] = a
    BY <1>0, <1>3, HandTypes DEF Fires
  <2>2. /\ \A k \in DOMAIN s : k \in DOMAIN a /\ a[k] = s[k]
        /\ \A k \in DOMAIN a : k \in DOMAIN s \/ k = Len(s) + 1
        /\ Len(s) + 1 \in DOMAIN a /\ a[Len(s) + 1].at = now[e]
        /\ DOMAIN s = 1 .. Len(s) /\ Len(s) \in Nat
    BY <1>0, <2>1, AppendLemma
  <2>3. \A k \in DOMAIN s : s[k].at + Cooldown[r] <= now[e] /\ s[k].at \in Nat
    <3> SUFFICES ASSUME NEW k \in DOMAIN s
                 PROVE  s[k].at + Cooldown[r] <= now[e] /\ s[k].at \in Nat
      OBVIOUS
    <3>1. s[k] \in Firing
      BY <1>0, <2>2, ElementOfSeq
    <3> QED BY <1>3, <3>1, FiresLate DEF Firing
  <2>4. \A k \in DOMAIN s : s[k].at # now[e]
    BY <1>0, <2>1, <2>3
  <2> HIDE DEF a
  <2>5. ASSUME NEW j \in DOMAIN a, NEW k \in DOMAIN a, j < k
        PROVE  a[j].at + Cooldown[r] <= a[k].at
    <3>1. j \in DOMAIN s
      BY <2>2, <2>5
    <3>2. CASE k \in DOMAIN s
      BY <1>0, <2>2, <2>5, <3>1, <3>2 DEF Spaced
    <3>3. CASE k = Len(s) + 1
      BY <2>2, <2>3, <3>1, <3>3
    <3> QED BY <2>2, <3>2, <3>3
  <2> QED BY <2>1, <2>2, <2>4, <2>5 DEF Spaced
<1>4. ASSUME NEW e \in Evaluators, Starts(e, r)
      PROVE  Spaced(r)' /\ Matched(r)'
  <2>1. /\ Spaced(r)'
        /\ \A j \in DOMAIN fired[r] : j \in DOMAIN fired'[r] /\ fired'[r][j] = fired[r][j]
        /\ \E j \in DOMAIN fired'[r] : fired'[r][j].at = now[e]
        /\ \A j \in DOMAIN fired[r] : fired[r][j].at # now[e]
    BY <1>3, <1>4 DEF Starts
  <2>2. /\ \A k \in DOMAIN alerts[r] : alerts[r][k].at # now[e]
        /\ \A d \in Pending(r) : now[d] # now[e]
    BY <1>0, <2>1 DEF Matched
  <2>3. /\ alerts'[r] = alerts[r] /\ Pending(r)' = Pending(r) \cup {e}
        /\ \A d \in Pending(r)' : now'[d] = now[d]
    BY <1>1, <1>4 DEF Starts
  <2>4. \A k \in DOMAIN alerts[r] : \E j \in DOMAIN fired'[r] : fired'[r][j].at = alerts[r][k].at
    BY <1>0, <2>1 DEF Matched
  <2>5. \A j, k \in DOMAIN alerts[r] : j # k => alerts[r][j].at # alerts[r][k].at
    BY <1>0 DEF Matched
  <2>6. ASSUME NEW d \in Pending(r)'
        PROVE  /\ \E j \in DOMAIN fired'[r] : fired'[r][j].at = now[d]
               /\ \A k \in DOMAIN alerts[r] : alerts[r][k].at # now[d]
    <3>1. CASE d = e
      BY <2>1, <2>2, <3>1
    <3>2. CASE d \in Pending(r)
      BY <1>0, <2>1, <3>2 DEF Matched
    <3> QED BY <2>3, <3>1, <3>2
  <2>7. \A d, f \in Pending(r)' : d # f => now[d] # now[f]
    BY <1>0, <2>2, <2>3 DEF Matched
  <2> QED BY <2>1, <2>3, <2>4, <2>5, <2>6, <2>7 DEF Matched
<1>5. ASSUME NEW e \in Evaluators, Misses(e, r)
      PROVE  Spaced(r)' /\ Matched(r)'
  <2>1. /\ Spaced(r)'
        /\ \A j \in DOMAIN fired[r] : j \in DOMAIN fired'[r] /\ fired'[r][j] = fired[r][j]
    BY <1>3, <1>5 DEF Misses
  <2>2. /\ alerts'[r] = alerts[r] /\ Pending(r)' = Pending(r)
        /\ \A d \in Pending(r)' : now'[d] = now[d]
    BY <1>1, <1>5 DEF Misses
  <2>3. \A k \in DOMAIN alerts[r] : \E j \in DOMAIN fired'[r] : fired'[r][j].at = alerts[r][k].at
    BY <1>0, <2>1 DEF Matched
  <2>4. \A d \in Pending(r) : /\ \E j \in DOMAIN fired'[r] : fired'[r][j].at = now[d]
                              /\ \A k \in DOMAIN alerts[r] : alerts[r][k].at # now[d]
    BY <1>0, <2>1 DEF Matched
  <2> QED BY <1>0, <2>1, <2>2, <2>3, <2>4 DEF Matched
<1>6. ASSUME NEW e \in Evaluators, Sends(e, r)
      PROVE  Spaced(r)' /\ Matched(r)'
  <2> DEFINE s == alerts[r]
             a == Append(s, [event |-> EventOf(e), at |-> now[e]])
  <2>1. now[e] \in Nat /\ EventOf(e) \in Nat
    BY <1>0, <1>6, HandTypes DEF Sends, Pending
  <2>2. /\ \A k \in DOMAIN s : k \in DOMAIN a /\ a[k] = s[k]
        /\ \A k \in DOMAIN a : k \in DOMAIN s \/ k = Len(s) + 1
        /\ Len(s) + 1 \in DOMAIN a /\ a[Len(s) + 1].at = now[e]
    BY <1>0, <2>1, AppendLemma
  <2>3. /\ e \in Pending(r) /\ Pending(r)' = Pending(r) \ {e} /\ fired'[r] = fired[r]
        /\ alerts'[r] = a /\ \A d \in Pending(r)' : now'[d] = now[d]
    BY <1>1, <1>6 DEF Sends
  <2> HIDE DEF a
  <2>4. /\ \E j \in DOMAIN fired[r] : fired[r][j].at = now[e]
        /\ \A k \in DOMAIN s : s[k].at # now[e]
        /\ \A d \in Pending(r)' : now[d] # now[e]
    BY <1>0, <2>3 DEF Matched
  <2>5. \A k \in DOMAIN a : \E j \in DOMAIN fired[r] : fired[r][j].at = a[k].at
    BY <1>0, <2>2, <2>4 DEF Matched
  <2>6. \A j, k \in DOMAIN a : j # k => a[j].at # a[k].at
    BY <1>0, <2>2, <2>4 DEF Matched
  <2>7. \A d \in Pending(r)' : /\ \E j \in DOMAIN fired[r] : fired[r][j].at = now[d]
                               /\ \A k \in DOMAIN a : a[k].at # now[d]
    BY <1>0, <2>2, <2>3, <2>4 DEF Matched
  <2>8. \A d, f \in Pending(r)' : d # f => now[d] # now[f]
    BY <1>0, <2>3 DEF Matched
  <2>9. Spaced(r)'
    BY <1>0, <2>3 DEF Spaced
  <2> QED BY <2>3, <2>5, <2>6, <2>7, <2>8, <2>9 DEF Matched
<1>7. ASSUME NEW e \in Evaluators, Drops(e, r)
      PROVE  Spaced(r)' /\ Matched(r)'
  BY <1>2, <1>7 DEF Drops
<1>8. CASE Quiet(r)
  BY <1>2, <1>8 DEF Quiet
<1> QED BY <1>1, <1>4, <1>5, <1>6, <1>7, <1>8

(* Two alerts of a rule are at least cooldown_seconds apart, whichever     *)
(* evaluators sent them, and no transition is alerted twice.               *)
THEOREM CooldownTheorem == Spec => []CooldownRespected
<1>1. Init => CooldownOK
  BY DEF Init, CooldownOK, Spaced, Matched, Pending
<1>2. IInv /\ CooldownOK => CooldownRespected
  <2> SUFFICES ASSUME IInv, CooldownOK, NEW r \in Rules,
                      NEW j \in DOMAIN alerts[r], NEW k \in DOMAIN alerts[r], j # k
               PROVE  \/ alerts[r][j].at + Cooldown[r] <= alerts[r][k].at
                      \/ alerts[r][k].at + Cooldown[r] <= alerts[r][j].at
    BY DEF CooldownRespected
  <2>1. Spaced(r) /\ Matched(r)
    BY DEF CooldownOK
  <2>2. PICK x \in DOMAIN fired[r] : fired[r][x].at = alerts[r][j].at
    BY <2>1 DEF Matched
  <2>3. PICK y \in DOMAIN fired[r] : fired[r][y].at = alerts[r][k].at
    BY <2>1 DEF Matched
  <2>4. x # y
    BY <2>1, <2>2, <2>3 DEF Matched
  <2>5. x \in Nat /\ y \in Nat
    <3>1. fired[r] \in Seq(Firing)
      BY DEF IInv, TypeOK, HistoryOK
    <3>2. DOMAIN fired[r] = 1 .. Len(fired[r])
      BY <3>1, LenProperties
    <3> QED BY <3>2
  <2>6. CASE x < y
    BY <2>1, <2>2, <2>3, <2>6 DEF Spaced
  <2>7. CASE y < x
    BY <2>1, <2>2, <2>3, <2>7 DEF Spaced
  <2> QED BY <2>4, <2>5, <2>6, <2>7
<1> QED BY <1>1, <1>2, InvInit, InvStep, CooldownStep, PTL DEF Spec

-----------------------------------------------------------------------------
(* Lost alerts: an evaluator that has recorded a transition sends its      *)
(* alert, dies with it, or did not learn of it.                            *)

LEMMA LostStep == IInv /\ LostOK /\ [Next]_vars => LostOK'
<1> SUFFICES ASSUME IInv, LostOK, [Next]_vars, NEW r \in Rules
             PROVE  /\ IsFiniteSet(Pending(r)')
                    /\ Len(fired'[r]) <= Len(alerts'[r]) + Cardinality(Pending(r)')
                                           + faults'["crash"] + faults'["database"]
  BY DEF LostOK
<1> DEFINE P == Pending(r)     Q == Pending(r)'
           f == Len(fired[r])  a == Len(alerts[r])  p == Cardinality(P)
           c == faults["crash"]  d == faults["database"]
           f1 == Len(fired'[r])  a1 == Len(alerts'[r])  p1 == Cardinality(Q)
           c1 == faults'["crash"]  d1 == faults'["database"]
           Goal == IsFiniteSet(Q) /\ f1 <= a1 + p1 + c1 + d1
<1> SUFFICES Goal
  OBVIOUS
<1>0. /\ TypeOK /\ fired[r] \in Seq(Firing) /\ alerts[r] \in Seq(Firing)
      /\ c \in Nat /\ d \in Nat
  BY DEF IInv, TypeOK, HistoryOK, FaultKinds
<1>1. f \in Nat /\ a \in Nat
  BY <1>0, LenProperties
<1>2. IsFiniteSet(P) /\ p \in Nat /\ f <= a + p + c + d
  <2>1. IsFiniteSet(P) /\ f <= a + p + c + d
    BY DEF LostOK
  <2> QED BY <2>1, FS_CardinalityType
<1>3. c1 \in Nat /\ d1 \in Nat
  <2>1. TypeOK'
    BY InvStep DEF IInv
  <2> QED BY <2>1 DEF TypeOK, HistoryOK, FaultKinds
<1>4. Quiet(r) \/ \E e \in Evaluators :
        Starts(e, r) \/ Misses(e, r) \/ Sends(e, r) \/ Drops(e, r)
  BY AlertMoves
<1>5. ASSUME NEW e \in Evaluators, Fires(e, r)
      PROVE  f1 = f + 1
  <2>1. EventOf(e) \in Nat /\ now[e] \in Nat
    BY <1>0, <1>5, HandTypes DEF Fires
  <2>2. Len(Append(fired[r], [event |-> EventOf(e), at |-> now[e]])) = f + 1
    BY <1>0, <2>1, AppendLemma
  <2> QED BY <1>5, <2>2 DEF Fires
<1>6. CASE Quiet(r)
  <2>1. Q = P /\ p1 = p /\ a1 = a /\ f1 = f /\ c1 >= c /\ d1 >= d
    BY <1>6 DEF Quiet
  <2> HIDE DEF P, Q, f, a, p, c, d, f1, a1, p1, c1, d1
  <2> QED BY <1>0, <1>1, <1>2, <1>3, <2>1
<1>7. ASSUME NEW e \in Evaluators, Starts(e, r)
      PROVE  Goal
  <2>1. e \notin P /\ Q = P \cup {e} /\ a1 = a /\ c1 = c /\ d1 = d /\ f1 = f + 1
    BY <1>5, <1>7 DEF Starts
  <2>2. IsFiniteSet(Q) /\ p1 = p + 1
    BY <1>2, <2>1, FS_AddElement
  <2> HIDE DEF P, Q, f, a, p, c, d, f1, a1, p1, c1, d1
  <2> QED BY <1>0, <1>1, <1>2, <2>1, <2>2
<1>8. ASSUME NEW e \in Evaluators, Misses(e, r)
      PROVE  Goal
  <2>1. Q = P /\ p1 = p /\ a1 = a /\ c1 = c /\ d1 = d + 1 /\ f1 = f + 1
    BY <1>5, <1>8 DEF Misses
  <2> HIDE DEF P, Q, f, a, p, c, d, f1, a1, p1, c1, d1
  <2> QED BY <1>0, <1>1, <1>2, <2>1
<1>9. ASSUME NEW e \in Evaluators, Sends(e, r)
      PROVE  Goal
  <2>1. e \in P /\ Q = P \ {e} /\ f1 = f /\ c1 = c /\ d1 = d
    BY <1>9 DEF Sends
  <2>2. IsFiniteSet(Q) /\ p1 = p - 1
    BY <1>2, <2>1, FS_RemoveElement
  <2>3. a1 = a + 1
    <3>1. EventOf(e) \in Nat /\ now[e] \in Nat
      BY <1>0, <1>9, HandTypes DEF Sends, Pending
    <3>2. Len(Append(alerts[r], [event |-> EventOf(e), at |-> now[e]])) = a + 1
      BY <1>0, <3>1, AppendLemma
    <3> QED BY <1>9, <3>2 DEF Sends
  <2> HIDE DEF P, Q, f, a, p, c, d, f1, a1, p1, c1, d1
  <2> QED BY <1>0, <1>1, <1>2, <2>1, <2>2, <2>3
<1>10. ASSUME NEW e \in Evaluators, Drops(e, r)
       PROVE  Goal
  <2>1. e \in P /\ Q = P \ {e} /\ f1 = f /\ a1 = a /\ c1 = c + 1 /\ d1 = d
    BY <1>10 DEF Drops
  <2>2. IsFiniteSet(Q) /\ p1 = p - 1
    BY <1>2, <2>1, FS_RemoveElement
  <2> HIDE DEF P, Q, f, a, p, c, d, f1, a1, p1, c1, d1
  <2> QED BY <1>0, <1>1, <1>2, <2>1, <2>2
<1> QED BY <1>4, <1>6, <1>7, <1>8, <1>9, <1>10

-----------------------------------------------------------------------------
(* Repeated alerts.  One event has one chance to be alerted for a rule:    *)
(* its entry, then the evaluator that takes it, then the alert or the copy *)
(* put back.  A fault, and nothing else, gives it another.                 *)

LEMMA ChanceFewer ==
  ASSUME NEW S, NEW T, IsFiniteSet(S), T \subseteq S
  PROVE  IsFiniteSet(T) /\ Cardinality(T) \in Nat /\ Cardinality(T) <= Cardinality(S)
BY FS_Subset, FS_CardinalityType

LEMMA ChanceMoved ==
  ASSUME NEW S, NEW T, IsFiniteSet(S), NEW x \in S, NEW y, T \subseteq (S \ {x}) \cup {y}
  PROVE  IsFiniteSet(T) /\ Cardinality(T) \in Nat /\ Cardinality(T) <= Cardinality(S)
<1> DEFINE U == S \ {x}  V == U \cup {y}
<1>1. IsFiniteSet(U) /\ Cardinality(U) = Cardinality(S) - 1
  BY FS_RemoveElement
<1> HIDE DEF U
<1>2. IsFiniteSet(V) /\ Cardinality(V) \in {Cardinality(U), Cardinality(U) + 1}
  BY <1>1, FS_AddElement
<1>3. Cardinality(U) \in Nat /\ Cardinality(S) \in Nat
  BY <1>1, FS_CardinalityType
<1>4. T \subseteq V
  BY DEF U
<1> HIDE DEF V
<1>5. IsFiniteSet(T) /\ Cardinality(T) <= Cardinality(V)
  BY <1>2, <1>4, FS_Subset
<1> QED BY <1>1, <1>2, <1>3, <1>5, FS_CardinalityType

LEMMA ChanceMore ==
  ASSUME NEW S, NEW T, IsFiniteSet(S), NEW y, T \subseteq S \cup {y}
  PROVE  IsFiniteSet(T) /\ Cardinality(T) \in Nat /\ Cardinality(T) <= Cardinality(S) + 1
<1> DEFINE V == S \cup {y}
<1>1. IsFiniteSet(V) /\ Cardinality(V) \in {Cardinality(S), Cardinality(S) + 1}
  BY FS_AddElement
<1> HIDE DEF V
<1>2. IsFiniteSet(T) /\ Cardinality(T) <= Cardinality(V)
  BY <1>1, FS_Subset DEF V
<1>3. Cardinality(S) \in Nat /\ Cardinality(T) \in Nat
  BY <1>2, FS_CardinalityType
<1> QED BY <1>1, <1>2, <1>3

(* A fault adds one to Faults, and nothing takes one away.                 *)
LEMMA FaultsStep ==
  ASSUME TypeOK
  PROVE  /\ Faults \in Nat
         /\ \A k \in FaultKinds : Spend(k) => Faults' = Faults + 1
<1>1. faults["crash"] \in Nat /\ faults["slow"] \in Nat /\ faults["database"] \in Nat
  BY DEF TypeOK, HistoryOK, FaultKinds
<1>2. ASSUME NEW k \in FaultKinds, Spend(k)
      PROVE  Faults' = Faults + 1
  <2>1. /\ faults'[k] = faults[k] + 1
        /\ \A j \in FaultKinds : j # k => faults'[j] = faults[j]
    BY <1>2, SpendLemma
  <2>2. CASE k = "crash"
    BY <1>1, <2>1, <2>2 DEF FaultKinds, Faults
  <2>3. CASE k = "slow"
    BY <1>1, <2>1, <2>3 DEF FaultKinds, Faults
  <2>4. CASE k = "database"
    BY <1>1, <2>1, <2>4 DEF FaultKinds, Faults
  <2> QED BY <2>2, <2>3, <2>4 DEF FaultKinds
<1> QED BY <1>1, <1>2 DEF Faults

(* The stream is only appended to.                                         *)
LEMMA QueueKeeps ==
  ASSUME TypeOK, [Next]_vars, NEW i \in Positions
  PROVE  i \in Positions' /\ queue'[i] = queue[i]
<1>0. Len(queue) \in Nat /\ i \in 1 .. Len(queue)
  BY LenProperties DEF TypeOK, StreamOK, Positions
<1>1. queue' = queue \/ \E q : queue' = Append(queue, q)
  <2>1. ASSUME NEW e \in Evaluators, Step(e)
        PROVE  queue' = queue \/ \E q : queue' = Append(queue, q)
    BY <2>1 DEF Step, Fetch, FetchFails, Skip, Transition, TransitionFails, Dispatch, Log,
                LogFails, Retry, Ack, Crash, Overrun, stream
  <2> QED BY <2>1 DEF Next, Create, Delete, Publish, Tick, stream, vars
<1>2. ASSUME NEW q, queue' = Append(queue, q)
      PROVE  i \in Positions' /\ queue'[i] = queue[i]
  <2> DEFINE S == [event: 1 .. Len(events), retry: 0 .. MaxRetries]
             T == S \cup {q}
  <2>1. queue \in Seq(T) /\ q \in T
    <3>1. queue \in Seq(S)
      BY DEF TypeOK, StreamOK
    <3> HIDE DEF S
    <3> QED BY <3>1, SeqMonotonic
  <2> HIDE DEF T
  <2>2. /\ Len(Append(queue, q)) = Len(queue) + 1
        /\ \A k \in 1 .. Len(queue) : Append(queue, q)[k] = queue[k]
    BY <2>1, AppendProperties
  <2> QED BY <1>0, <1>2, <2>2 DEF Positions
<1> QED BY <1>0, <1>1, <1>2 DEF Positions

LEMMA ChanceStep ==
  ASSUME IInv, [Next]_vars, NEW r \in Rules, NEW n \in DOMAIN events,
         IsFiniteSet(Chances(r, n)), Cardinality(Chances(r, n)) <= 1 + Faults
  PROVE  IsFiniteSet(Chances(r, n)') /\ Cardinality(Chances(r, n)') <= 1 + Faults'
<1> DEFINE A == AlertsOf(r, n)  M == Candidates(r, n)  D == Due(n)  S == Chances(r, n)
           B == AlertsOf(r, n)' N == Candidates(r, n)' E == Due(n)' T == Chances(r, n)'
           Bounded == IsFiniteSet(T) /\ Cardinality(T) <= 1 + Faults'
<1> SUFFICES Bounded
  OBVIOUS
<1>0. /\ TypeOK /\ HandOK /\ IsFiniteSet(S) /\ Cardinality(S) \in Nat
      /\ Cardinality(S) <= 1 + Faults /\ Faults \in Nat
      /\ S = Tagged(A, M, D) /\ T = Tagged(B, N, E)
      /\ stage \in [Evaluators -> Stages] /\ entry \in [Evaluators -> 0 .. cursor]
      /\ todo \in [Evaluators -> SUBSET Rules] /\ firing \in [Evaluators -> SUBSET Rules]
  BY FS_CardinalityType, FaultsStep DEF IInv, Chances, TypeOK, EvaluatorsOK
<1>1. ASSUME T \subseteq S, Faults' \in {Faults, Faults + 1}
      PROVE  Bounded
  <2> HIDE DEF S, T
  <2>1. IsFiniteSet(S) /\ T \subseteq S
    BY <1>0, <1>1
  <2>2. IsFiniteSet(T) /\ Cardinality(T) \in Nat /\ Cardinality(T) <= Cardinality(S)
    BY <2>1, ChanceFewer
  <2> QED BY <1>0, <1>1, <2>2
<1>2. ASSUME NEW x \in S, NEW y, T \subseteq (S \ {x}) \cup {y}, Faults' \in {Faults, Faults + 1}
      PROVE  Bounded
  <2> HIDE DEF S, T
  <2>1. IsFiniteSet(S) /\ T \subseteq (S \ {x}) \cup {y}
    BY <1>0, <1>2
  <2>2. IsFiniteSet(T) /\ Cardinality(T) \in Nat /\ Cardinality(T) <= Cardinality(S)
    BY <2>1, ChanceMoved
  <2> QED BY <1>0, <1>2, <2>2
<1>3. ASSUME NEW y, T \subseteq S \cup {y}, Faults' = Faults + 1
      PROVE  Bounded
  <2> HIDE DEF S, T
  <2>1. IsFiniteSet(S) /\ T \subseteq S \cup {y}
    BY <1>0, <1>3
  <2>2. IsFiniteSet(T) /\ Cardinality(T) \in Nat /\ Cardinality(T) <= Cardinality(S) + 1
    BY <2>1, ChanceMore
  <2> QED BY <1>0, <1>3, <2>2
<1> HIDE DEF Bounded
<1>4. ASSUME B \subseteq A, N \subseteq M, E \subseteq D, Faults' \in {Faults, Faults + 1}
      PROVE  Bounded
  <2>1. T \subseteq S
    <3> HIDE DEF A, M, D, B, N, E, S, T
    <3> QED BY <1>0, <1>4 DEF Tagged
  <2> QED BY <1>1, <1>4, <2>1
<1>5. alerts'[r] = alerts[r] => B = A
  BY DEF AlertsOf
<1>6. UNCHANGED <<queue, cursor, orphans>> => E = D
  BY DEF Due, Positions
<1>7. \A i \in Positions : i \in Positions' /\ queue'[i] = queue[i]
  BY <1>0, QueueKeeps
<1>8. ASSUME NEW d \in Evaluators, stage[d] # "idle", entry'[d] = entry[d]
      PROVE  EventOf(d)' = EventOf(d)
  <2>1. entry[d] \in Positions
    BY <1>0, <1>8, Held
  <2> QED BY <1>7, <1>8, <2>1 DEF EventOf
<1>9. ASSUME NEW e \in Evaluators, Step(e), NEW d \in Evaluators, d # e
      PROVE  d \in N <=> d \in M
  <2>1. /\ stage'[d] = stage[d] /\ entry'[d] = entry[d] /\ todo'[d] = todo[d]
        /\ firing'[d] = firing[d]
    BY <1>0, <1>9, OthersKeep
  <2>2. CASE stage[d] = "idle"
    BY <2>1, <2>2 DEF Candidates, MayAlert
  <2>3. CASE stage[d] # "idle"
    BY <1>8, <2>1, <2>3 DEF Candidates, MayAlert
  <2> QED BY <2>2, <2>3
<1>10. N \subseteq Evaluators /\ M \subseteq Evaluators
  BY DEF Candidates
<1> HIDE DEF N, M
<1>11. ASSUME NEW e \in Evaluators, Step(e)
       PROVE  /\ N \subseteq M \cup {e}
              /\ (e \in N => e \in M) => N \subseteq M
              /\ e \notin N => N \subseteq M \ {e}
  BY <1>9, <1>10, <1>11
<1>12. Cardinality(S) \in Nat
  BY <1>0
\* The entry an evaluator takes becomes the evaluator's.
<1>13. ASSUME NEW e \in Evaluators, Fetch(e) \/ FetchFails(e)
       PROVE  Bounded
  <2>1. Take(e) /\ stage[e] = "idle" /\ UNCHANGED <<queue, alerts>>
    BY <1>13 DEF Fetch, FetchFails, history
  <2>2. Faults' \in {Faults, Faults + 1}
    BY <1>0, <1>13, FaultsStep DEF Fetch, FetchFails, history, Faults, FaultKinds
  <2> DEFINE i == entry'[e]
  <2>3. /\ i \in Positions /\ (i > cursor \/ i \in orphans)
        /\ i \notin orphans' /\ ~(i > cursor') /\ orphans' \subseteq orphans /\ cursor' >= cursor
    <3>1. cursor \in Nat /\ orphans \subseteq 1 .. cursor /\ Len(queue) \in Nat
      BY <1>0, LenProperties DEF TypeOK, StreamOK
    <3>2. CASE cursor < Len(queue) /\ cursor' = cursor + 1
               /\ entry' = [entry EXCEPT ![e] = cursor + 1] /\ UNCHANGED orphans
      <4>1. i = cursor + 1
        BY <1>0, <3>2
      <4> QED BY <3>1, <3>2, <4>1 DEF Positions
    <3>3. ASSUME NEW j \in orphans, entry' = [entry EXCEPT ![e] = j], orphans' = orphans \ {j},
                 UNCHANGED cursor
          PROVE  /\ i \in Positions /\ (i > cursor \/ i \in orphans)
                 /\ i \notin orphans' /\ ~(i > cursor') /\ orphans' \subseteq orphans
                 /\ cursor' >= cursor
      <4>1. i = j
        BY <1>0, <3>3
      <4>2. j \in 1 .. cursor /\ cursor <= Len(queue)
        BY <1>0, <3>1 DEF TypeOK, StreamOK
      <4> QED BY <3>1, <3>3, <4>1, <4>2 DEF Positions
    <3> QED BY <2>1, <3>2, <3>3 DEF Take
  <2>4. E \subseteq D \ {i}
    <3>1. cursor \in Nat /\ cursor' \in Nat /\ Positions \subseteq Nat
      BY <1>0, <2>1, TakeLemma, LenProperties DEF TypeOK, StreamOK, Positions
    <3> QED BY <2>1, <2>3, <3>1 DEF Due, Positions
  <2>5. e \in N => i \in D
    BY <2>1, <2>3 DEF N, Candidates, MayAlert, EventOf, Due
  <2>6. B = A /\ N \subseteq M \cup {e} /\ (e \notin N => N \subseteq M)
    BY <1>5, <1>11, <1>13, <2>1 DEF Step
  <2>7. CASE e \notin N
    BY <1>4, <2>2, <2>4, <2>6, <2>7
  <2>8. CASE e \in N
    <3>1. <<"entry", i>> \in S /\ T \subseteq (S \ {<<"entry", i>>}) \cup {<<"evaluator", e>>}
      <4> HIDE DEF A, D, B, E, S, T, i
      <4> QED BY <1>0, <2>4, <2>5, <2>6, <2>8 DEF Tagged
    <3> QED BY <1>2, <2>2, <3>1
  <2> QED BY <2>7, <2>8
\* Matching and logging leave it, and a database error may renew it.
<1>14. ASSUME NEW e \in Evaluators, Skip(e) \/ Transition(e) \/ Log(e)
       PROVE  Bounded
  <2>1. /\ UNCHANGED <<queue, cursor, orphans, alerts>> /\ Faults' = Faults
        /\ entry' = entry /\ stage[e] # "idle"
    BY <1>14 DEF Skip, Transition, Log, stream, history, Faults
  <2>2. e \in N => e \in M
    <3>1. EventOf(e)' = EventOf(e)
      BY <1>8, <2>1
    <3>2. CASE Skip(e) \/ Log(e)
      <4>1. /\ stage[e] \in {"match", "log"} /\ stage'[e] \in {"ack", "match"}
            /\ todo'[e] \subseteq todo[e]
        BY <1>0, <3>2 DEF Skip, Log, NextRule
      <4> QED BY <2>1, <3>1, <4>1 DEF N, M, Candidates, MayAlert
    <3>3. CASE Transition(e)
      <4>1. PICK q \in todo[e] :
              IF Verdict(e, q) = "met" /\ Accepts(q, "met", now[e])
              THEN /\ stage' = [stage EXCEPT ![e] = "dispatch"]
                   /\ firing' = [firing EXCEPT ![e] = {q}]
                   /\ todo' = [todo EXCEPT ![e] = @ \ {q}]
              ELSE NextRule(e, todo[e] \ {q}) /\ UNCHANGED firing
        BY <3>3 DEF Transition
      <4>2. stage[e] = "match" /\ firing[e] = {}
        BY <1>0, <3>3 DEF Transition, HandOK
      <4>3. /\ stage'[e] \in {"ack", "match", "dispatch"}
            /\ todo'[e] \subseteq todo[e] /\ firing'[e] \subseteq todo[e]
        BY <1>0, <4>1, <4>2 DEF NextRule
      <4> QED BY <2>1, <3>1, <4>2, <4>3 DEF N, M, Candidates, MayAlert
    <3> QED BY <1>14, <3>2, <3>3
  <2> QED BY <1>4, <1>5, <1>6, <1>11, <1>14, <2>1, <2>2 DEF Step
<1>15. ASSUME NEW e \in Evaluators, TransitionFails(e) \/ LogFails(e)
       PROVE  Bounded
  <2>1. UNCHANGED <<queue, cursor, orphans, alerts>> /\ Faults' = Faults + 1
    BY <1>0, <1>15, FaultsStep DEF TransitionFails, LogFails, stream, FaultKinds
  <2>2. B = A /\ E = D /\ N \subseteq M \cup {e}
    BY <1>5, <1>6, <1>11, <1>15, <2>1 DEF Step
  <2>3. T \subseteq S \cup {<<"evaluator", e>>}
    <3> HIDE DEF A, D, B, E, S, T
    <3> QED BY <1>0, <2>2 DEF Tagged
  <2> QED BY <1>3, <2>1, <2>3
\* The evaluator's becomes the alert, or the copy of the entry.
<1>16. ASSUME NEW e \in Evaluators, Dispatch(e)
       PROVE  Bounded
  <2> DEFINE s == alerts[r]
             k == Len(s) + 1
  <2>1. /\ UNCHANGED <<queue, cursor, orphans, entry, todo, firing>> /\ Faults' = Faults
        /\ stage[e] = "dispatch" /\ stage'[e] = "log"
    BY <1>0, <1>16 DEF Dispatch, stream, Faults
  <2>2. PICK q \in Rules : /\ firing[e] = {q}
                           /\ alerts' = [alerts EXCEPT ![q] =
                                           Append(@, [event |-> EventOf(e), at |-> now[e]])]
    <3>1. PICK q \in Rules : firing[e] = {q}
      BY <1>0, <2>1 DEF HandOK
    <3>2. alerts' = [alerts EXCEPT ![q] = Append(@, [event |-> EventOf(e), at |-> now[e]])]
      BY <1>16, <3>1 DEF Dispatch
    <3> QED BY <3>1, <3>2
  <2>3. E = D /\ EventOf(e)' = EventOf(e)
    BY <1>6, <1>8, <2>1
  <2>4. CASE q # r
    <3>1. alerts'[r] = alerts[r]
      BY <1>0, <2>2, <2>4 DEF TypeOK, HistoryOK
    <3>2. e \in N => e \in M
      BY <2>1, <2>2, <2>3 DEF N, M, Candidates, MayAlert
    <3> QED BY <1>4, <1>5, <1>11, <1>16, <2>1, <2>3, <3>1, <3>2 DEF Step
  <2>5. CASE q = r
    <3>1. alerts'[r] = Append(s, [event |-> EventOf(e), at |-> now[e]]) /\ s \in Seq(Firing)
      BY <1>0, <2>2, <2>5 DEF TypeOK, HistoryOK
    <3>2. EventOf(e) \in Nat /\ now[e] \in Nat
      BY <1>0, <2>1, HandTypes
    <3>3. /\ \A j \in DOMAIN s : alerts'[r][j] = s[j]
          /\ \A j \in DOMAIN alerts'[r] : j \in DOMAIN s \/ j = k
          /\ alerts'[r][k].event = EventOf(e)
      BY <3>1, <3>2, AppendLemma
    <3>4. B \subseteq A \cup (IF EventOf(e) = n THEN {k} ELSE {})
      BY <3>3 DEF AlertsOf
    <3>5. e \notin N
      BY <1>0, <2>1, <2>2, <2>5 DEF N, Candidates, MayAlert, HandOK
    <3>6. N \subseteq M \ {e}
      BY <1>11, <1>16, <3>5 DEF Step
    <3>7. CASE EventOf(e) # n
      BY <1>4, <2>1, <2>3, <3>4, <3>6, <3>7
    <3>8. CASE EventOf(e) = n
      <4>1. e \in M
        BY <2>1, <2>2, <2>5, <3>8 DEF M, Candidates, MayAlert
      <4>2. <<"evaluator", e>> \in S /\ T \subseteq (S \ {<<"evaluator", e>>}) \cup {<<"alert", k>>}
        <5> HIDE DEF A, D, B, E, S, T, k
        <5> QED BY <1>0, <2>3, <3>4, <3>6, <3>8, <4>1 DEF Tagged
      <4> QED BY <1>2, <2>1, <4>2
    <3> QED BY <3>7, <3>8
  <2> QED BY <2>4, <2>5
<1>17. ASSUME NEW e \in Evaluators, Retry(e)
       PROVE  Bounded
  <2> DEFINE k == Len(queue) + 1
             copy == [queue[entry[e]] EXCEPT !.retry = @ + 1]
  <2>1. /\ UNCHANGED <<cursor, orphans, entry, alerts>> /\ Faults' = Faults
        /\ stage[e] = "failed" /\ stage'[e] = "ack"
        /\ queue' = IF queue[entry[e]].retry < MaxRetries THEN Append(queue, copy) ELSE queue
    BY <1>0, <1>17 DEF Retry, history, Faults
  <2>2. e \notin N
    BY <2>1 DEF N, Candidates, MayAlert
  <2>3. B = A /\ N \subseteq M \ {e}
    BY <1>5, <1>11, <1>17, <2>1, <2>2 DEF Step
  <2>4. CASE queue' = queue
    BY <1>4, <1>6, <2>1, <2>3, <2>4
  <2>5. CASE queue' = Append(queue, copy) /\ queue[entry[e]].retry < MaxRetries
    <3>1. /\ queue[entry[e]] \in [event: 1 .. Len(events), retry: 0 .. MaxRetries]
          /\ Len(events) \in Nat /\ MaxRetries \in Nat
      BY <1>0, <2>1, Held, LenProperties, ConstantsAssumption DEF TypeOK, StreamOK
    <3>2. /\ copy \in [event: 1 .. Len(events), retry: 0 .. MaxRetries]
          /\ copy.event = EventOf(e)
      BY <2>5, <3>1 DEF EventOf
    <3> HIDE DEF copy
    <3>3. Len(queue') = Len(queue) + 1 /\ queue'[k] = copy
      BY <1>0, <2>5, <3>1, <3>2, StreamAppend
    <3>4. \A i \in Positions' : i \in Positions \/ i = k
      <4>1. Len(queue) \in Nat
        BY <1>0, LenProperties DEF TypeOK, StreamOK
      <4> QED BY <3>3, <4>1 DEF Positions
    <3>5. E \subseteq D \cup (IF EventOf(e) = n THEN {k} ELSE {})
      BY <1>7, <2>1, <3>2, <3>3, <3>4 DEF Due
    <3>6. CASE EventOf(e) # n
      BY <1>4, <2>1, <2>3, <3>5, <3>6
    <3>7. CASE EventOf(e) = n
      <4>1. e \in M
        BY <2>1, <3>7 DEF M, Candidates, MayAlert
      <4>2. <<"evaluator", e>> \in S /\ T \subseteq (S \ {<<"evaluator", e>>}) \cup {<<"entry", k>>}
        <5> HIDE DEF A, D, B, E, S, T, k
        <5> QED BY <1>0, <2>3, <3>5, <3>7, <4>1 DEF Tagged
      <4> QED BY <1>2, <2>1, <4>2
    <3> QED BY <3>6, <3>7
  <2> QED BY <2>1, <2>4, <2>5
<1>18. ASSUME NEW e \in Evaluators, Ack(e)
       PROVE  Bounded
  <2>1. /\ UNCHANGED <<queue, cursor, alerts>> /\ orphans' \subseteq orphans /\ Faults' = Faults
        /\ stage'[e] = "idle"
    BY <1>0, <1>18 DEF Ack, Idle, history, Faults
  <2>2. B = A /\ E \subseteq D
    BY <1>5, <2>1 DEF Due, Positions
  <2>3. e \notin N
    BY <2>1 DEF N, Candidates, MayAlert
  <2> QED BY <1>4, <1>11, <1>18, <2>1, <2>2, <2>3 DEF Step
\* A crash or an overrun has the entry delivered again.
<1>19. ASSUME NEW e \in Evaluators, Crash(e) \/ Overrun(e)
       PROVE  Bounded
  <2> DEFINE i == entry[e]
  <2>1. UNCHANGED <<queue, cursor, alerts>> /\ orphans' = orphans \cup {i} /\ Faults' = Faults + 1
    BY <1>0, <1>19, FaultsStep DEF Crash, Overrun, FaultKinds
  <2>2. e \in N => e \in M
    <3>1. CASE Crash(e)
      BY <1>0, <3>1 DEF Crash, Idle, N, Candidates, MayAlert
    <3>2. CASE Overrun(e)
      BY <3>2 DEF Overrun, evaluators, N, M, Candidates, MayAlert, EventOf
    <3> QED BY <1>19, <3>1, <3>2
  <2>3. B = A /\ E \subseteq D \cup {i}
    BY <1>5, <2>1 DEF Due, Positions
  <2>4. N \subseteq M
    BY <1>11, <1>19, <2>2 DEF Step
  <2>5. T \subseteq S \cup {<<"entry", i>>}
    <3> HIDE DEF A, D, B, E, S, T, i
    <3> QED BY <1>0, <2>3, <2>4 DEF Tagged
  <2> QED BY <1>3, <2>1, <2>5
\* The rest does not touch the event.
<1>20. CASE UNCHANGED <<stream, evaluators, history>>
  BY <1>4, <1>5, <1>6, <1>20
     DEF stream, evaluators, history, Faults, N, M, Candidates, MayAlert, EventOf
<1>21. ASSUME NEW p \in Snapshots, Publish(p)
       PROVE  Bounded
  <2>1. /\ UNCHANGED <<cursor, orphans, evaluators, history>> /\ Faults' = Faults
        /\ queue' = Append(queue, [event |-> Len(events) + 1, retry |-> 0])
    BY <1>21 DEF Publish, history, Faults
  <2>2. Len(events) \in Nat /\ n \in 1 .. Len(events) /\ MaxRetries \in Nat /\ Len(queue) \in Nat
    BY <1>0, LenProperties, ConstantsAssumption DEF TypeOK, StreamOK
  <2> DEFINE q == [event |-> Len(events) + 1, retry |-> 0]
  <2>3. /\ q \in [event: 1 .. Len(events) + 1, retry: 0 .. MaxRetries]
        /\ q.event # n /\ Len(events) + 1 \in Nat /\ Len(events) <= Len(events) + 1
    BY <2>2
  <2> HIDE DEF q
  <2>4. Len(queue') = Len(queue) + 1 /\ queue'[Len(queue) + 1] = q
    BY <1>0, <2>1, <2>3, StreamAppend DEF q
  <2>5. \A i \in Positions' : i \in Positions \/ i = Len(queue) + 1
    BY <2>2, <2>4 DEF Positions
  <2>6. E \subseteq D
    BY <1>7, <2>1, <2>3, <2>4, <2>5 DEF Due
  <2>7. \A d \in Evaluators : stage[d] # "idle" => EventOf(d)' = EventOf(d)
    BY <1>8, <2>1 DEF evaluators
  <2>8. N \subseteq M
    BY <2>1, <2>7 DEF N, M, Candidates, MayAlert, evaluators
  <2> QED BY <1>4, <1>5, <2>1, <2>6, <2>8 DEF history
<1>22. ASSUME NEW e \in Evaluators, Step(e)
       PROVE  Bounded
  BY <1>13, <1>14, <1>15, <1>16, <1>17, <1>18, <1>19, <1>22 DEF Step
<1> QED BY <1>20, <1>21, <1>22 DEF Next, Create, Delete, Tick, vars

(* An event just published has one chance: its entry.                      *)
LEMMA ChanceFirst ==
  ASSUME IInv, RepeatsOK, NEW s \in Snapshots, Publish(s), NEW r \in Rules,
         NEW n, n = Len(events) + 1
  PROVE  IsFiniteSet(Chances(r, n)') /\ Cardinality(Chances(r, n)') <= 1 + Faults'
<1> DEFINE k == Len(queue) + 1  T == Chances(r, n)'
<1>a. TypeOK /\ Next
  BY DEF IInv, Next
<1>0. /\ TypeOK /\ Len(events) \in Nat /\ Len(queue) \in Nat /\ MaxRetries \in Nat
      /\ DOMAIN events = 1 .. Len(events)
      /\ UNCHANGED <<cursor, orphans, evaluators, history>>
      /\ queue' = Append(queue, [event |-> n, retry |-> 0])
  BY <1>a, LenProperties, ConstantsAssumption DEF TypeOK, StreamOK, Publish
<1>1. AlertsOf(r, n)' = {}
  <2>1. n \notin DOMAIN events
    BY <1>0
  <2> QED BY <1>0, <2>1 DEF AlertsOf, RepeatsOK, history
<1>2. Candidates(r, n)' = {}
  <2>1. ASSUME NEW e \in Evaluators, stage'[e] # "idle"
        PROVE  EventOf(e)' # n
    <3>1. stage[e] # "idle" /\ entry'[e] = entry[e]
      BY <1>0, <2>1 DEF evaluators
    <3>2. entry[e] \in Positions /\ EventOf(e) \in 1 .. Len(events)
      BY <1>0, <3>1, Held
    <3>3. queue'[entry[e]] = queue[entry[e]]
      BY <1>a, <3>2, QueueKeeps
    <3>4. EventOf(e)' = EventOf(e)
      BY <3>1, <3>3 DEF EventOf
    <3> QED BY <1>0, <3>2, <3>4
  <2> QED BY <2>1 DEF Candidates, MayAlert
<1>3. Due(n)' \subseteq {k}
  <2> SUFFICES ASSUME NEW i \in Positions', i # k PROVE queue'[i].event # n
    BY DEF Due
  <2>1. i \in Positions
    <3> DEFINE q == [event |-> n, retry |-> 0]
    <3>1. q \in [event: 1 .. n, retry: 0 .. MaxRetries] /\ n \in Nat /\ Len(events) <= n
      BY <1>0
    <3> HIDE DEF q
    <3>2. Len(Append(queue, q)) = Len(queue) + 1
      BY <1>0, <3>1, StreamAppend
    <3>3. Len(queue') = Len(queue) + 1
      BY <1>0, <3>2 DEF q
    <3> QED BY <1>0, <3>3 DEF Positions
  <2>2. queue'[i] = queue[i]
    BY <1>a, <2>1, QueueKeeps
  <2>3. queue[i] \in [event: 1 .. Len(events), retry: 0 .. MaxRetries]
    BY <1>0, <2>1, ElementOfSeq DEF TypeOK, StreamOK, Positions
  <2>4. queue[i].event \in 1 .. Len(events)
    BY <2>3
  <2>5. n \notin 1 .. Len(events)
    BY <1>0
  <2> QED BY <2>2, <2>4, <2>5
<1>4. T \subseteq {<<"entry", k>>}
  <2> DEFINE A == AlertsOf(r, n)'  M == Candidates(r, n)'  D == Due(n)'
  <2>1. T = Tagged(A, M, D)
    BY DEF Chances
  <2> HIDE DEF A, M, D, T, k
  <2>2. A = {} /\ M = {} /\ D \subseteq {k}
    BY <1>1, <1>2, <1>3 DEF A, M, D
  <2> QED BY <2>1, <2>2 DEF Tagged
<1> HIDE DEF T, k
<1>5. IsFiniteSet({<<"entry", k>>}) /\ Cardinality({<<"entry", k>>}) = 1
  BY FS_Singleton
<1>6. IsFiniteSet(T) /\ Cardinality(T) <= 1 /\ Cardinality(T) \in Nat
  BY <1>4, <1>5, ChanceFewer
<1>7. Faults \in Nat /\ Faults' = Faults
  BY <1>0, FaultsStep DEF history, Faults
<1>8. IsFiniteSet(T) /\ Cardinality(T) <= 1 + Faults'
  BY <1>6, <1>7
<1> QED BY <1>8 DEF T

LEMMA RepeatsStep == IInv /\ RepeatsOK /\ [Next]_vars => RepeatsOK'
<1> SUFFICES ASSUME IInv, RepeatsOK, [Next]_vars, NEW r \in Rules
             PROVE  /\ \A k \in DOMAIN alerts'[r] : alerts'[r][k].event \in DOMAIN events'
                    /\ \A n \in DOMAIN events' :
                         /\ IsFiniteSet(Chances(r, n)')
                         /\ Cardinality(Chances(r, n)') <= 1 + Faults'
  BY DEF RepeatsOK
<1>0. /\ TypeOK /\ alerts[r] \in Seq(Firing) /\ Len(events) \in Nat
      /\ DOMAIN events = 1 .. Len(events)
  BY LenProperties DEF IInv, TypeOK, HistoryOK, StreamOK
<1>1. \/ events' = events
      \/ \E s \in Snapshots : Publish(s)
  <2>1. ASSUME NEW e \in Evaluators, Step(e)
        PROVE  events' = events
    BY <2>1 DEF Step, Fetch, FetchFails, Skip, Transition, TransitionFails, Dispatch, Log,
                LogFails, Retry, Ack, Crash, Overrun, stream
  <2> QED BY <2>1 DEF Next, Create, Delete, Tick, stream, vars
<1>2. ASSUME NEW s \in Snapshots, Publish(s)
      PROVE  DOMAIN events' = DOMAIN events \cup {Len(events) + 1}
  <2>1. events' \in Seq(Snapshots) /\ Len(events') = Len(events) + 1
    BY <1>0, <1>2, AppendProperties DEF Publish, TypeOK, StreamOK
  <2>2. DOMAIN events' = 1 .. Len(events) + 1
    BY <2>1, LenProperties
  <2> QED BY <1>0, <2>2
<1>3. \A k \in DOMAIN alerts'[r] : alerts'[r][k].event \in DOMAIN events'
  <2>1. DOMAIN events \subseteq DOMAIN events'
    BY <1>1, <1>2
  <2>2. \A k \in DOMAIN alerts[r] : alerts[r][k].event \in DOMAIN events
    BY DEF RepeatsOK
  <2>3. Quiet(r) \/ \E e \in Evaluators : Starts(e, r) \/ Misses(e, r) \/ Sends(e, r) \/ Drops(e, r)
    BY AlertMoves
  <2>4. CASE alerts'[r] = alerts[r]
    BY <2>1, <2>2, <2>4
  <2>5. ASSUME NEW e \in Evaluators, Sends(e, r)
        PROVE  \A k \in DOMAIN alerts'[r] : alerts'[r][k].event \in DOMAIN events'
    <3>1. stage[e] # "idle" /\ alerts'[r] = Append(alerts[r], [event |-> EventOf(e), at |-> now[e]])
      BY <2>5 DEF Sends, Pending
    <3>2. EventOf(e) \in DOMAIN events /\ EventOf(e) \in Nat /\ now[e] \in Nat
      BY <1>0, <3>1, Held, HandTypes
    <3>3. /\ \A k \in DOMAIN alerts[r] : alerts'[r][k] = alerts[r][k]
          /\ \A k \in DOMAIN alerts'[r] : k \in DOMAIN alerts[r] \/ k = Len(alerts[r]) + 1
          /\ alerts'[r][Len(alerts[r]) + 1].event = EventOf(e)
      BY <1>0, <3>1, <3>2, AppendLemma
    <3> QED BY <2>1, <2>2, <3>2, <3>3
  <2> QED BY <2>3, <2>4, <2>5 DEF Quiet, Starts, Misses, Drops
<1>4. ASSUME NEW n \in DOMAIN events'
      PROVE  IsFiniteSet(Chances(r, n)') /\ Cardinality(Chances(r, n)') <= 1 + Faults'
  <2>1. CASE n \in DOMAIN events
    BY <2>1, ChanceStep DEF RepeatsOK
  <2>2. CASE n \notin DOMAIN events
    <3>1. PICK s \in Snapshots : Publish(s)
      BY <1>1, <1>4, <2>2
    <3>2. n = Len(events) + 1
      BY <1>2, <1>4, <2>2, <3>1
    <3> QED BY <3>1, <3>2, ChanceFirst
  <2> QED BY <2>1, <2>2
<1> QED BY <1>3, <1>4

(* Every transition to TRUE is alerted, is about to be, or was lost to a   *)
(* crash or a database error; and an event is alerted once for a rule, and *)
(* again at most once per fault.                                           *)
THEOREM AlertsTheorem == Spec => []AlertsFollowTransitions
<1>1. Init => LostOK
  <2> SUFFICES ASSUME Init, NEW r \in Rules
               PROVE  /\ IsFiniteSet(Pending(r))
                      /\ Len(fired[r]) <= Len(alerts[r]) + Cardinality(Pending(r))
                                             + faults["crash"] + faults["database"]
    BY DEF LostOK
  <2>1. Pending(r) = {}
    BY DEF Init, Pending
  <2>2. Len(fired[r]) = 0 /\ Len(alerts[r]) = 0 /\ faults["crash"] = 0 /\ faults["database"] = 0
    BY EmptySeq DEF Init, FaultKinds
  <2> QED BY <2>1, <2>2, FS_EmptySet
<1>2. Init => RepeatsOK
  BY DEF Init, RepeatsOK
<1>3. IInv /\ LostOK => LostAlertsNeedFaults
  BY DEF LostOK, LostAlertsNeedFaults
<1>4. IInv /\ RepeatsOK => RepeatedAlertsNeedFaults
  <2> SUFFICES ASSUME IInv, RepeatsOK, NEW r \in Rules, NEW n \in DOMAIN events
               PROVE  Cardinality(AlertsOf(r, n)) <= 1 + Faults
    BY DEF RepeatedAlertsNeedFaults
  <2> DEFINE A == AlertsOf(r, n)  S == Chances(r, n)
             W == {<<"alert", k>> : k \in A}
  <2>1. IsFiniteSet(S) /\ Cardinality(S) <= 1 + Faults /\ Faults \in Nat
    <3>1. Faults \in Nat
      BY FaultsStep DEF IInv
    <3> QED BY <3>1 DEF RepeatsOK
  <2>2. W \subseteq S
    BY DEF Chances, Tagged
  <2> HIDE DEF S, A
  <2>3. IsFiniteSet(W) /\ Cardinality(W) <= Cardinality(S) /\ Cardinality(W) \in Nat
    BY <2>1, <2>2, FS_Subset, FS_CardinalityType
  <2> DEFINE F == [w \in W |-> w[2]]
  <2>4. F \in Surjection(W, A)
    <3>1. F \in [W -> A]
      OBVIOUS
    <3>2. ASSUME NEW k \in A
          PROVE  \E w \in W : F[w] = k
      <4>1. <<"alert", k>> \in W
        OBVIOUS
      <4>2. F[<<"alert", k>>] = k
        BY <4>1
      <4> QED BY <4>1, <4>2
    <3> QED BY <3>1, <3>2 DEF Surjection
  <2> HIDE DEF F, W
  <2>5. IsFiniteSet(A) /\ Cardinality(A) <= Cardinality(W)
    BY <2>3, <2>4, FS_Surjection
  <2>6. Cardinality(S) \in Nat /\ Cardinality(A) \in Nat
    BY <2>1, <2>5, FS_CardinalityType
  <2> QED BY <2>1, <2>3, <2>5, <2>6 DEF A
<1>5. LostAlertsNeedFaults /\ RepeatedAlertsNeedFaults => AlertsFollowTransitions
  BY DEF AlertsFollowTransitions
<1> QED BY <1>1, <1>2, <1>3, <1>4, <1>5, InvInit, InvStep, LostStep, RepeatsStep, PTL DEF Spec

=============================================================================
