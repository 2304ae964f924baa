--------------------------- MODULE AlertEvaluation ---------------------------
(***************************************************************************)
(* Alert rules on one symbol: the API that creates and deletes them, and   *)
(* the evaluators of the group cg:alert_evaluation, which match each       *)
(* priced-chain event against the active rules, record the transition in   *)
(* one conditional UPDATE, dispatch the alert and log it                   *)
(* (domains/notifications).                                                *)
(*                                                                         *)
(* The stream is what DurableStream says of it: entries are delivered in   *)
(* order, an entry nobody acknowledged is delivered again, and an entry    *)
(* whose handler raised is copied to the tail.  An evaluator holds one     *)
(* entry at a time.                                                        *)
(***************************************************************************)
EXTENDS Naturals, Sequences, FiniteSets

CONSTANTS Rules,       \* the ids of the rules users create
          Condition,   \* condition_type of each rule
          Threshold,   \* threshold of each rule
          Cooldown,    \* cooldown_seconds of each rule
          Evaluators,  \* the processes that run NotificationStreamSubscriber
          Snapshots,   \* the snapshots process_event can take from an event
          NoValue,     \* a snapshot value the event does not carry
          MaxRetries,  \* retries of an event whose handler raises
          MaxEvents,   \* bound on the events the pricing subscriber publishes
          MaxTime,     \* bound on the clock
          MaxFaults    \* bound on the faults of one behaviour

FaultKinds == {"crash", "slow", "database"}
Conditions == {"ABOVE_PRICE", "BELOW_PRICE", "IV_SPIKE"}

ASSUME ConstantsAssumption ==
  /\ Condition \in [Rules -> Conditions]
  /\ Threshold \in [Rules -> Nat]
  /\ Cooldown \in [Rules -> Nat \ {0}]
  /\ Snapshots \subseteq [spot: Nat \cup {NoValue}, iv: Nat \cup {NoValue}]
  /\ NoValue \notin Nat
  /\ MaxRetries \in Nat /\ MaxEvents \in Nat /\ MaxTime \in Nat /\ MaxFaults \in Nat

VARIABLES
  row,      \* the AlertRules row of each rule
  clock,    \* the time
  events,   \* the snapshots published, in order
  queue,    \* the stream: deliveries of events and copies for a retry
  cursor,   \* the last entry delivered for the first time
  orphans,  \* entries to be delivered again: nobody acknowledged them in time
  stage,    \* where each evaluator is in evaluate_tick_event
  entry,    \* the entry it evaluates
  now,      \* its `now'
  todo,     \* the fetched rules it has not matched yet
  firing,   \* the rule whose alert it dispatches: a set of at most one
  seen,     \* history: the last verdict on each rule and the event it is of
  fired,    \* history: the transitions to TRUE of each rule
  alerts,   \* history: the alerts dispatched for each rule
  faults    \* history: faults of each kind so far, at most MaxFaults in all

stream     == <<events, queue, cursor, orphans>>
evaluators == <<stage, entry, now, todo, firing>>
history    == <<seen, fired, alerts, faults>>
vars       == <<row, clock, stream, evaluators, history>>

Verdicts == {"unknown", "unmet", "met"}
Stages   == {"idle", "match", "dispatch", "log", "failed", "ack"}
Times    == 1 .. MaxTime + 1
Positions == 1 .. Len(queue)

\* triggered = 0 is last_triggered_at NULL, met = "unknown" last_condition_met NULL.
Rows    == [status: {"new", "active", "deleted"}, met: Verdicts, triggered: Nat]
Firing  == [event: Nat, at: Nat]
NoRow   == [status |-> "new", met |-> "unknown", triggered |-> 0]

RowsOK == row \in [Rules -> Rows]

StreamOK ==
  /\ clock \in Times
  /\ events \in Seq(Snapshots) /\ Len(events) <= MaxEvents
  /\ queue \in Seq([event: 1 .. Len(events), retry: 0 .. MaxRetries])
  /\ cursor \in 0 .. Len(queue)
  /\ orphans \subseteq 1 .. cursor

EvaluatorsOK ==
  /\ stage \in [Evaluators -> Stages]
  /\ entry \in [Evaluators -> 0 .. cursor]
  /\ \A e \in Evaluators : stage[e] # "idle" => entry[e] # 0
  /\ now \in [Evaluators -> 0 .. clock]
  /\ todo \in [Evaluators -> SUBSET Rules]
  /\ firing \in [Evaluators -> SUBSET Rules]
  /\ \A e \in Evaluators :
       Cardinality(firing[e]) = IF stage[e] \in {"dispatch", "log"} THEN 1 ELSE 0

HistoryOK ==
  /\ seen \in [Rules -> [verdict: Verdicts, event: 0 .. Len(events)]]
  /\ fired \in [Rules -> Seq(Firing)]
  /\ alerts \in [Rules -> Seq(Firing)]
  /\ faults \in [FaultKinds -> Nat]

TypeOK == RowsOK /\ StreamOK /\ EvaluatorsOK /\ HistoryOK

Init ==
  /\ row = [r \in Rules |-> NoRow]
  /\ clock = 1
  /\ events = <<>> /\ queue = <<>> /\ cursor = 0 /\ orphans = {}
  /\ stage = [e \in Evaluators |-> "idle"]
  /\ entry = [e \in Evaluators |-> 0]
  /\ now = [e \in Evaluators |-> 0]
  /\ todo = [e \in Evaluators |-> {}]
  /\ firing = [e \in Evaluators |-> {}]
  /\ seen = [r \in Rules |-> [verdict |-> "unknown", event |-> 0]]
  /\ fired = [r \in Rules |-> <<>>]
  /\ alerts = [r \in Rules |-> <<>>]
  /\ faults = [k \in FaultKinds |-> 0]

Faults == faults["crash"] + faults["slow"] + faults["database"]

Spend(k) ==
  /\ Faults < MaxFaults
  /\ faults' = [faults EXCEPT ![k] = @ + 1]

-----------------------------------------------------------------------------
(* RuleMatcherDomainService.match on the snapshot of process_event. *)
Value(r, s) == IF Condition[r] = "IV_SPIKE" THEN s.iv ELSE s.spot

Holds(r, v) == CASE Condition[r] = "ABOVE_PRICE" -> v > Threshold[r]
                 [] Condition[r] = "BELOW_PRICE" -> v < Threshold[r]
                 [] Condition[r] = "IV_SPIKE"    -> v >= Threshold[r]

Match(r, s) == IF Value(r, s) = NoValue THEN "unknown"
               ELSE IF Holds(r, Value(r, s)) THEN "met" ELSE "unmet"

\* Mutant of Cooled: one second too early.
CooledEarly(r, t) == row[r].triggered = 0 \/ row[r].triggered + Cooldown[r] <= t + 1

Cooled(r, t) == row[r].triggered = 0 \/ row[r].triggered + Cooldown[r] <= t

\* Mutant of Accepts: the cooldown also holds back the re-arming.
AcceptsCooled(r, v, t) == row[r].status = "active" /\ row[r].met # v /\ Cooled(r, t)

\* The WHERE clause of try_transition.
Accepts(r, v, t) ==
  /\ row[r].status = "active"
  /\ row[r].met # v
  /\ v = "met" => Cooled(r, t)

\* Its SET clause.
Moved(r, v, t) ==
  [row EXCEPT ![r].met = v, ![r].triggered = IF v = "met" THEN t ELSE @]

EventOf(e)    == queue[entry[e]].event
Verdict(e, r) == Match(r, events[EventOf(e)])
ActiveRules   == {r \in Rules : row[r].status = "active"}

-----------------------------------------------------------------------------
(* The API. *)

\* POST /alerts: save_rule under a new id.
Create(r) ==
  /\ row[r].status = "new"
  /\ row' = [row EXCEPT ![r].status = "active"]
  /\ UNCHANGED <<clock, stream, evaluators, history>>

\* DELETE /alerts/{id} by the owner: the row is gone.
Delete(r) ==
  /\ row[r].status = "active"
  /\ row' = [row EXCEPT ![r] = [NoRow EXCEPT !.status = "deleted"]]
  /\ UNCHANGED <<clock, stream, evaluators, history>>

(* The pricing subscriber's XADD to options.priced. *)
Publish(s) ==
  /\ Len(events) < MaxEvents
  /\ events' = Append(events, s)
  /\ queue' = Append(queue, [event |-> Len(events) + 1, retry |-> 0])
  /\ UNCHANGED <<row, clock, cursor, orphans, evaluators, history>>

-----------------------------------------------------------------------------
(* One evaluation of an entry by evaluator e. *)

NextRule(e, rest) ==
  /\ todo' = [todo EXCEPT ![e] = rest]
  /\ stage' = [stage EXCEPT ![e] = IF rest = {} THEN "ack" ELSE "match"]

\* Mutant of Idle: the alert in hand survives.
IdleFiring(e) ==
  /\ stage' = [stage EXCEPT ![e] = "idle"]
  /\ entry' = [entry EXCEPT ![e] = 0]
  /\ now' = [now EXCEPT ![e] = 0]
  /\ todo' = [todo EXCEPT ![e] = {}]
  /\ UNCHANGED firing

Idle(e) ==
  /\ stage' = [stage EXCEPT ![e] = "idle"]
  /\ entry' = [entry EXCEPT ![e] = 0]
  /\ now' = [now EXCEPT ![e] = 0]
  /\ todo' = [todo EXCEPT ![e] = {}]
  /\ firing' = [firing EXCEPT ![e] = {}]

\* Mutant of Take: any entry, as if every reader had its own group.
TakeAny(e) ==
  /\ \E i \in Positions : entry' = [entry EXCEPT ![e] = i]
  /\ UNCHANGED <<cursor, orphans>>

\* The loop hands over an entry, new or reclaimed.
Take(e) ==
  \/ /\ cursor < Len(queue)
     /\ cursor' = cursor + 1
     /\ entry' = [entry EXCEPT ![e] = cursor + 1]
     /\ UNCHANGED orphans
  \/ \E i \in orphans :
       /\ entry' = [entry EXCEPT ![e] = i]
       /\ orphans' = orphans \ {i}
       /\ UNCHANGED cursor

\* get_active_rules_by_symbol, then `now'.
Fetch(e) ==
  /\ stage[e] = "idle"
  /\ Take(e)
  /\ NextRule(e, ActiveRules)
  /\ now' = [now EXCEPT ![e] = clock]
  /\ UNCHANGED <<row, clock, events, queue, firing, history>>

FetchFails(e) ==
  /\ stage[e] = "idle"
  /\ Take(e) /\ Spend("database")
  /\ stage' = [stage EXCEPT ![e] = "failed"]
  /\ UNCHANGED <<row, clock, events, queue, now, todo, firing, seen, fired, alerts>>

\* The snapshot lacks the value the rule needs.
Skip(e) ==
  /\ stage[e] = "match"
  /\ \E r \in todo[e] : Verdict(e, r) = "unknown" /\ NextRule(e, todo[e] \ {r})
  /\ UNCHANGED <<row, clock, stream, entry, now, firing, history>>

\* What the conditional UPDATE leaves in the database, and what is noted of it.
Update(e, r) ==
  LET v == Verdict(e, r)
      t == now[e]
  IN  /\ seen' = [seen EXCEPT ![r] = [verdict |-> v, event |-> EventOf(e)]]
      /\ IF Accepts(r, v, t)
         THEN /\ row' = Moved(r, v, t)
              /\ fired' = IF v = "met"
                          THEN [fired EXCEPT ![r] = Append(@, [event |-> EventOf(e), at |-> t])]
                          ELSE fired
         ELSE UNCHANGED <<row, fired>>

\* try_transition returns; a change to TRUE is to be dispatched.
Transition(e) ==
  /\ stage[e] = "match"
  /\ \E r \in todo[e] :
       /\ Verdict(e, r) # "unknown"
       /\ Update(e, r)
       /\ IF Verdict(e, r) = "met" /\ Accepts(r, "met", now[e])
          THEN /\ stage' = [stage EXCEPT ![e] = "dispatch"]
               /\ firing' = [firing EXCEPT ![e] = {r}]
               /\ todo' = [todo EXCEPT ![e] = @ \ {r}]
          ELSE NextRule(e, todo[e] \ {r}) /\ UNCHANGED firing
  /\ UNCHANGED <<clock, stream, entry, now, alerts, faults>>

\* try_transition raises: the UPDATE failed, or committed and its reply was lost.
TransitionFails(e) ==
  /\ stage[e] = "match" /\ Spend("database")
  /\ \E r \in todo[e] :
       /\ Verdict(e, r) # "unknown"
       /\ Update(e, r) \/ UNCHANGED <<row, seen, fired>>
  /\ stage' = [stage EXCEPT ![e] = "failed"]
  /\ UNCHANGED <<clock, stream, entry, now, todo, firing, alerts>>

\* Mutant of Dispatch: the rule is looked up again first.
DispatchActive(e) ==
  /\ stage[e] = "dispatch"
  /\ \E r \in firing[e] :
       alerts' = IF row[r].status = "active"
                 THEN [alerts EXCEPT ![r] = Append(@, [event |-> EventOf(e), at |-> now[e]])]
                 ELSE alerts
  /\ stage' = [stage EXCEPT ![e] = "log"]
  /\ UNCHANGED <<row, clock, stream, entry, now, todo, firing, seen, fired, faults>>

\* Every channel of the rule has been tried; a channel's failure does not raise.
Dispatch(e) ==
  /\ stage[e] = "dispatch"
  /\ \E r \in firing[e] :
       alerts' = [alerts EXCEPT ![r] = Append(@, [event |-> EventOf(e), at |-> now[e]])]
  /\ stage' = [stage EXCEPT ![e] = "log"]
  /\ UNCHANGED <<row, clock, stream, entry, now, todo, firing, seen, fired, faults>>

\* log_notification_event returns.
Log(e) ==
  /\ stage[e] = "log"
  /\ NextRule(e, todo[e])
  /\ firing' = [firing EXCEPT ![e] = {}]
  /\ UNCHANGED <<row, clock, stream, entry, now, history>>

LogFails(e) ==
  /\ stage[e] = "log" /\ Spend("database")
  /\ stage' = [stage EXCEPT ![e] = "failed"]
  /\ firing' = [firing EXCEPT ![e] = {}]
  /\ UNCHANGED <<row, clock, stream, entry, now, todo, seen, fired, alerts>>

\* The handler raised: a copy at the tail of the stream, or the dead-letter stream.
Retry(e) ==
  /\ stage[e] = "failed"
  /\ LET q == queue[entry[e]]
     IN  queue' = IF q.retry < MaxRetries
                  THEN Append(queue, [q EXCEPT !.retry = @ + 1]) ELSE queue
  /\ stage' = [stage EXCEPT ![e] = "ack"]
  /\ UNCHANGED <<row, clock, events, cursor, orphans, entry, now, todo, firing, history>>

Ack(e) ==
  /\ stage[e] = "ack"
  /\ orphans' = orphans \ {entry[e]}
  /\ Idle(e)
  /\ UNCHANGED <<row, clock, events, queue, cursor, history>>

-----------------------------------------------------------------------------
(* The environment. *)

\* The process dies and is restarted; its entry becomes idle.
Crash(e) ==
  /\ stage[e] # "idle" /\ Spend("crash")
  /\ orphans' = orphans \cup {entry[e]}
  /\ Idle(e)
  /\ UNCHANGED <<row, clock, events, queue, cursor, seen, fired, alerts>>

\* e holds its entry longer than min_idle_ms, so another evaluator may claim it.
Overrun(e) ==
  /\ stage[e] # "idle" /\ entry[e] \notin orphans /\ Spend("slow")
  /\ orphans' = orphans \cup {entry[e]}
  /\ UNCHANGED <<row, clock, events, queue, cursor, evaluators, seen, fired, alerts>>

Tick ==
  /\ clock <= MaxTime
  /\ clock' = clock + 1
  /\ UNCHANGED <<row, stream, evaluators, history>>

Step(e) ==
  \/ Fetch(e) \/ FetchFails(e) \/ Skip(e) \/ Transition(e) \/ TransitionFails(e)
  \/ Dispatch(e) \/ Log(e) \/ LogFails(e) \/ Retry(e) \/ Ack(e) \/ Crash(e) \/ Overrun(e)

Next ==
  \/ \E r \in Rules : Create(r) \/ Delete(r)
  \/ \E s \in Snapshots : Publish(s)
  \/ \E e \in Evaluators : Step(e)
  \/ Tick

Spec == Init /\ [][Next]_vars

-----------------------------------------------------------------------------
Pending(r)   == {e \in Evaluators : stage[e] = "dispatch" /\ r \in firing[e]}
AlertsOf(r, n) == {k \in DOMAIN alerts[r] : alerts[r][k].event = n}

(* Two alerts of a rule are at least cooldown_seconds apart, whichever     *)
(* evaluators sent them and however long one of them held its `now', and   *)
(* no transition is alerted twice.                                         *)
CooldownRespected ==
  \A r \in Rules : \A j, k \in DOMAIN alerts[r] :
    j # k => \/ alerts[r][j].at + Cooldown[r] <= alerts[r][k].at
             \/ alerts[r][k].at + Cooldown[r] <= alerts[r][j].at

(* Every transition to TRUE is alerted, is about to be, or was lost to a   *)
(* crash or a database error: two evaluators, a claim of a slow one's      *)
(* entry or a deletion lose none.                                          *)
LostAlertsNeedFaults ==
  \A r \in Rules :
    Len(fired[r]) <=
      Len(alerts[r]) + Cardinality(Pending(r)) + faults["crash"] + faults["database"]

(* An event is alerted once for a rule, and again at most once per crash,  *)
(* overrun or database error, which have it delivered again.               *)
RepeatedAlertsNeedFaults ==
  \A r \in Rules : \A n \in DOMAIN events : Cardinality(AlertsOf(r, n)) <= 1 + Faults

(* Alerts and recorded transitions correspond, up to the faults there were.*)
AlertsFollowTransitions == LostAlertsNeedFaults /\ RepeatedAlertsNeedFaults

(* The stored state is the last verdict on the rule, except that a         *)
(* crossing inside the cooldown stays unrecorded.                          *)
StateIsLastVerdict ==
  \A r \in ActiveRules :
    row[r].met # seen[r].verdict =>
      seen[r].verdict = "met" /\ row[r].met = "unmet" /\ fired[r] # <<>>

(* notification_subscriber.py: "Redelivery is safe because a rule fires    *)
(* only on a recorded state transition."  No event is alerted twice.       *)
RedeliveryIsSafe ==
  \A r \in Rules : \A n \in DOMAIN events : Cardinality(AlertsOf(r, n)) <= 1
=============================================================================
