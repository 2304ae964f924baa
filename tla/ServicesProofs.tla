--------------------------- MODULE ServicesProofs ---------------------------
(***************************************************************************)
(* Proofs about the components of MCServices, for every instance: the read *)
(* model, the poll slot, the Groww token, the delivery of an alert, a      *)
(* browser tab and its socket.                                             *)
(***************************************************************************)
EXTENDS MCServices, FiniteSetTheorems, TLAPS

-----------------------------------------------------------------------------
(* The read model. *)

Working == {"raw", "compare", "hash", "persist", "publish"}
Entry   == [version : 1 .. market, retry : 0 .. MaxRetries]

\* A task that fetched has a chain, and the subscriber handles an entry.
ChainsOK ==
  /\ \A t \in Tasks : stage[t] \in Working => fetched[t] # 0
  /\ pricing # "idle" => stream # <<>>

TypeInv == TypeOK /\ ChainsOK

\* The types by the part that changes them.
TasksOK ==
  /\ stage \in [Tasks -> {"idle", "fetch"} \cup Working]
  /\ fetched \in [Tasks -> 0 .. market] /\ age \in [Tasks -> 0 .. TaskTime]
  /\ \A t \in Tasks : stage[t] \in Working => fetched[t] # 0

KeysOK ==
  /\ raw \in 0 .. market
  /\ hash \in 0 .. market /\ hashLife \in 0 .. HashTtl /\ (hash = 0 <=> hashLife = 0)

PricerOK ==
  /\ stream \in Seq(Entry) /\ (pricing # "idle" => stream # <<>>)
  /\ pricing \in {"idle", "price", "announce", "notify"} /\ effort \in 0 .. PricingTime
  /\ priced \in 0 .. market /\ life \in 0 .. PricedTtl /\ (priced = 0 <=> life = 0)
  /\ announced \in 0 .. market

RestOfReadModelOK ==
  market \in Versions /\ polled \in BOOLEAN /\ lag \in Nat /\ failures \in 0 .. MaxFailures

LEMMA TypeParts == TypeInv <=> TasksOK /\ KeysOK /\ PricerOK /\ RestOfReadModelOK
BY DEF TypeInv, TypeOK, ChainsOK, TasksOK, KeysOK, PricerOK, RestOfReadModelOK, Working, Entry

LEMMA TypeStep == TypeInv /\ [Next]_vars => TypeInv'
<1> SUFFICES ASSUME TypeInv, [Next]_vars PROVE TypeInv'
  OBVIOUS
<1>0. TasksOK /\ KeysOK /\ PricerOK /\ RestOfReadModelOK
  BY TypeParts
<1>1. ASSUME TasksOK', KeysOK', PricerOK', RestOfReadModelOK' PROVE TypeInv'
  BY <1>1 DEF TypeInv, TypeOK, ChainsOK, TasksOK, KeysOK, PricerOK, RestOfReadModelOK, Working, Entry
<1> USE ConstantsAssumption DEF celery, keys, pricer
\* What leaves a part alone.
<1>2. /\ UNCHANGED <<market, celery>> => TasksOK'
      /\ UNCHANGED <<market, keys>> => KeysOK'
      /\ UNCHANGED <<market, pricer>> => PricerOK'
  BY <1>0 DEF TasksOK, KeysOK, PricerOK, Entry
<1>3. ASSUME NEW t \in Tasks, NEW s \in {"idle", "fetch"} \cup Working, Goto(t, s),
             UNCHANGED <<market, fetched, age>>, s \in Working => fetched[t] # 0
      PROVE  TasksOK'
  BY <1>0, <1>3 DEF TasksOK, Goto
<1>4. ASSUME NEW t \in Tasks, End(t), UNCHANGED market PROVE TasksOK'
  BY <1>0, <1>4 DEF TasksOK, End, Goto, RestOfReadModelOK, Versions, Working
<1>5. ASSUME NEW t \in Tasks, stage[t] \in Working
      PROVE  fetched[t] \in 1 .. market
  BY <1>0, <1>5 DEF TasksOK, RestOfReadModelOK, Versions
<1>6. ASSUME NEW t \in Tasks, Start(t) PROVE TypeInv'
  <2>1. RestOfReadModelOK'
    BY <1>0, <1>6 DEF Start, RestOfReadModelOK
  <2>2. TasksOK'
    BY <1>3, <1>6 DEF Start, Working
  <2> QED BY <1>1, <1>2, <1>6, <2>1, <2>2 DEF Start
<1>7. ASSUME NEW t \in Tasks, Fetch(t) PROVE TypeInv'
  <2>1. TasksOK'
    BY <1>0, <1>7 DEF Fetch, Goto, TasksOK, RestOfReadModelOK, Versions, Working
  <2> QED BY <1>0, <1>1, <1>2, <1>7, <2>1 DEF Fetch, RestOfReadModelOK
<1>8. ASSUME NEW t \in Tasks, StoreRaw(t) PROVE TypeInv'
  <2>1. fetched[t] \in 1 .. market
    BY <1>5, <1>8 DEF StoreRaw, Working
  <2>2. TasksOK'
    BY <1>3, <1>8, <2>1 DEF StoreRaw, Working
  <2>3. KeysOK'
    BY <1>0, <1>8, <2>1 DEF StoreRaw, KeysOK, RestOfReadModelOK, Versions
  <2> QED BY <1>0, <1>1, <1>2, <1>8, <2>2, <2>3 DEF StoreRaw, RestOfReadModelOK
<1>9. ASSUME NEW t \in Tasks, Compare(t) PROVE TypeInv'
  <2>1. fetched[t] \in 1 .. market
    BY <1>5, <1>9 DEF Compare, Working
  <2>2. TasksOK'
    BY <1>3, <1>4, <1>9, <2>1 DEF Compare, Working
  <2> QED BY <1>0, <1>1, <1>2, <1>9, <2>2 DEF Compare, RestOfReadModelOK
<1>10. ASSUME NEW t \in Tasks, StoreHash(t) PROVE TypeInv'
  <2>1. fetched[t] \in 1 .. market
    BY <1>5, <1>10 DEF StoreHash, Working
  <2>2. TasksOK'
    BY <1>3, <1>10, <2>1 DEF StoreHash, Working
  <2>3. KeysOK'
    BY <1>0, <1>10, <2>1 DEF StoreHash, KeysOK, RestOfReadModelOK, Versions
  <2> QED BY <1>0, <1>1, <1>2, <1>10, <2>2, <2>3 DEF StoreHash, RestOfReadModelOK
<1>11. ASSUME NEW t \in Tasks, Persist(t) PROVE TypeInv'
  <2>1. fetched[t] \in 1 .. market
    BY <1>5, <1>11 DEF Persist, Working
  <2>2. TasksOK'
    BY <1>3, <1>11, <2>1 DEF Persist, Working
  <2> QED BY <1>0, <1>1, <1>2, <1>11, <2>2 DEF Persist, RestOfReadModelOK
<1>12. ASSUME NEW t \in Tasks, Publish(t) PROVE TypeInv'
  <2>1. [version |-> fetched[t], retry |-> 0] \in Entry
    BY <1>5, <1>12 DEF Publish, Working, Entry
  <2>2. stream' \in Seq(Entry) /\ stream' # <<>>
    BY <1>0, <1>12, <2>1 DEF Publish, PricerOK
  <2>3. PricerOK'
    BY <1>0, <1>12, <2>2 DEF Publish, PricerOK, Entry
  <2> QED BY <1>0, <1>1, <1>2, <1>4, <1>12, <2>3 DEF Publish, RestOfReadModelOK
<1>13. ASSUME NEW t \in Tasks, TaskFails(t) PROVE TypeInv'
  BY <1>0, <1>1, <1>2, <1>4, <1>13 DEF TaskFails, RestOfReadModelOK
<1>14. CASE Take
  BY <1>0, <1>1, <1>2, <1>14 DEF Take, RestOfReadModelOK, PricerOK, Entry
<1>15. CASE Price
  <2>1. Head(stream) \in Entry
    BY <1>0, <1>15 DEF Price, PricerOK
  <2>2. Head(stream).version \in 1 .. market
    BY <2>1 DEF Entry
  <2>3. PricerOK'
    BY <1>0, <1>15, <2>2 DEF Price, PricerOK, Entry, RestOfReadModelOK, Versions
  <2> QED BY <1>0, <1>1, <1>2, <1>15, <2>3 DEF Price, RestOfReadModelOK
<1>16. CASE Announce
  <2>1. Head(stream) \in Entry
    BY <1>0, <1>16 DEF Announce, PricerOK
  <2>2. Head(stream).version \in 0 .. market
    BY <1>0, <2>1 DEF Entry, RestOfReadModelOK, Versions
  <2>3. PricerOK'
    BY <1>0, <1>16, <2>2 DEF Announce, PricerOK, Entry
  <2> QED BY <1>0, <1>1, <1>2, <1>16, <2>3 DEF Announce, RestOfReadModelOK
<1>17. CASE Notify
  <2>1. stream' \in Seq(Entry)
    BY <1>0, <1>17 DEF Notify, PricerOK
  <2>2. PricerOK'
    BY <1>0, <1>17, <2>1 DEF Notify, PricerOK, Entry
  <2> QED BY <1>0, <1>1, <1>2, <1>17, <2>2 DEF Notify, RestOfReadModelOK
<1>18. CASE HandlerFails
  <2>1. Head(stream) \in Entry /\ Tail(stream) \in Seq(Entry)
    BY <1>0, <1>18 DEF HandlerFails, PricerOK
  <2>2. ASSUME Head(stream).retry < MaxRetries
        PROVE  [Head(stream) EXCEPT !.retry = Head(stream).retry + 1] \in Entry
    <3>1. Head(stream).retry \in 0 .. MaxRetries
      BY <2>1 DEF Entry
    <3>2. Head(stream).retry + 1 \in 0 .. MaxRetries
      BY <2>2, <3>1
    <3> QED BY <2>1, <3>2 DEF Entry
  <2>3. stream' \in Seq(Entry)
    <3>1. CASE Head(stream).retry < MaxRetries
      BY <1>18, <2>1, <2>2, <3>1 DEF HandlerFails
    <3>2. CASE ~(Head(stream).retry < MaxRetries)
      BY <1>18, <2>1, <3>2 DEF HandlerFails
    <3> QED BY <3>1, <3>2
  <2>4. PricerOK'
    BY <1>0, <1>18, <2>3 DEF HandlerFails, PricerOK, Entry
  <2> QED BY <1>0, <1>1, <1>2, <1>18, <2>4 DEF HandlerFails, RestOfReadModelOK
<1>19. CASE Move
  <2>1. market' = market + 1 /\ market' \in Versions /\ market \in Nat
    BY <1>0, <1>19 DEF Move, RestOfReadModelOK, Versions
  <2>2. 0 .. market \subseteq 0 .. market' /\ 1 .. market \subseteq 1 .. market'
    BY <2>1
  <2>3. TasksOK'
    BY <1>0, <1>19, <2>2 DEF Move, TasksOK
  <2>4. KeysOK'
    BY <1>0, <1>19, <2>2 DEF Move, KeysOK
  <2>5. \A e \in Entry : e \in Entry'
    BY <2>2 DEF Entry
  <2>6. stream \in Seq(Entry')
    BY <1>0, <2>5 DEF PricerOK
  <2>7. PricerOK'
    BY <1>0, <1>19, <2>2, <2>6 DEF Move, PricerOK
  <2> QED BY <1>0, <1>1, <1>19, <2>1, <2>3, <2>4, <2>7 DEF Move, RestOfReadModelOK
<1>20. CASE Tick
  <2>1. TasksOK'
    <3>1. \A t \in Tasks : (IF stage[t] = "idle" THEN 0 ELSE age[t] + 1) \in 0 .. TaskTime
      BY <1>0, <1>20 DEF Tick, TasksOK
    <3>2. age' \in [Tasks -> 0 .. TaskTime]
      BY <1>20, <3>1 DEF Tick
    <3> QED BY <1>0, <1>20, <3>2 DEF Tick, TasksOK
  <2>2. KeysOK'
    BY <1>0, <1>20 DEF Tick, KeysOK, Down, RestOfReadModelOK, Versions
  <2>3. PricerOK'
    BY <1>0, <1>20 DEF Tick, PricerOK, Down, RestOfReadModelOK, Versions, Entry
  <2>4. RestOfReadModelOK'
    <3>1. lag' \in Nat
      BY <1>0, <1>20 DEF Tick, RestOfReadModelOK
    <3> QED BY <1>0, <1>20, <3>1 DEF Tick, RestOfReadModelOK, Versions
  <2> QED BY <1>1, <2>1, <2>2, <2>3, <2>4
<1>21. CASE UNCHANGED vars
  BY <1>0, <1>1, <1>2, <1>21 DEF vars, RestOfReadModelOK
<1> QED BY <1>6, <1>7, <1>8, <1>9, <1>10, <1>11, <1>12, <1>13, <1>14, <1>15, <1>16, <1>17, <1>18,
           <1>19, <1>20, <1>21 DEF Next, TaskStep

LEMMA TypeInit == Init => TypeInv
<1> SUFFICES ASSUME Init PROVE TypeInv
  OBVIOUS
<1>1. TasksOK
  BY ConstantsAssumption DEF Init, TasksOK, Working
<1>2. KeysOK /\ RestOfReadModelOK
  <2>1. 1 \in 1 .. MaxVersion /\ 0 \in 0 .. MaxFailures /\ 0 \in 0 .. 1 /\ 0 \in 0 .. HashTtl
    BY ConstantsAssumption
  <2> QED BY <2>1 DEF Init, KeysOK, RestOfReadModelOK, Versions
<1>3. PricerOK
  BY ConstantsAssumption DEF Init, PricerOK, Entry
<1> QED BY <1>1, <1>2, <1>3, TypeParts

LEMMA TypeInvariant == Spec => []TypeInv
BY TypeInit, TypeStep, PTL DEF Spec

-----------------------------------------------------------------------------
(* The priced chain does not expire. *)

\* The poll that finds no hash, or the task it started, is still to come to it.
PollIsComing ==
  hash = 0 => ~polled \/ \E t \in Tasks : stage[t] \in {"fetch", "raw", "compare", "hash"}

\* The next pricing comes before the priced chain expires: its entry is being
\* handled, waits for the subscriber, or will be published by a task; or the hash
\* makes the tasks come to that in time once it expires.
BeingPriced  == pricing = "price" /\ PricingTime < life + effort
NextInStream ==
  \/ pricing = "idle" /\ stream # <<>> /\ PricingTime < life
  \/ pricing \in {"announce", "notify"} /\ Len(stream) > 1 /\ 2 * PricingTime < life + effort
OnItsWay(t)  == stage[t] \in {"persist", "publish"} /\ TaskTime + PricingTime < life + age[t]
HashInTime   == hash # 0 /\ hashLife + 2 * TaskTime + PricingTime < life
PollInTime   == hash = 0 /\ ~polled /\ 2 * TaskTime + PricingTime < life
TaskInTime(t) ==
  /\ hash = 0 /\ stage[t] \in {"fetch", "raw", "compare", "hash"}
  /\ 2 * TaskTime + PricingTime < life + age[t]

PricedInTime ==
  \/ BeingPriced \/ NextInStream \/ HashInTime \/ PollInTime
  \/ \E t \in Tasks : OnItsWay(t) \/ TaskInTime(t)

FreshInv ==
  failures = 0 =>
    /\ PollIsComing
    /\ pricing \in {"announce", "notify"} => PricedTtl <= life + effort
    /\ announced # 0 \/ pricing \in {"announce", "notify"} => PricedInTime

LEMMA FreshTypes ==
  ASSUME TypeInv
  PROVE  /\ life \in 0 .. PricedTtl /\ effort \in 0 .. PricingTime /\ hashLife \in 0 .. HashTtl
         /\ \A t \in Tasks : age[t] \in 0 .. TaskTime
         /\ HashTtl \in Nat \ {0} /\ PricedTtl \in Nat \ {0}
         /\ TaskTime \in Nat \ {0} /\ PricingTime \in Nat \ {0}
         /\ (priced = 0 <=> life = 0) /\ (hash = 0 <=> hashLife = 0)
         /\ stream \in Seq(Entry) /\ (pricing # "idle" => stream # <<>>)
         /\ \A t \in Tasks : stage[t] \in Working => fetched[t] # 0
         /\ stage \in [Tasks -> {"idle", "fetch"} \cup Working] /\ age \in [Tasks -> 0 .. TaskTime]
         /\ failures \in Nat
BY ConstantsAssumption, TypeParts DEF TasksOK, KeysOK, PricerOK, RestOfReadModelOK

\* What one step of a task does to the others, and what it leaves alone.
LEMMA TaskMoves ==
  ASSUME TypeInv, NEW t \in Tasks, TaskStep(t), failures' = failures
  PROVE  /\ \A u \in Tasks \ {t} : stage'[u] = stage[u] /\ age'[u] = age[u]
         /\ UNCHANGED <<pricing, effort, life, announced>>
         /\ \/ /\ stage[t] = "idle" /\ ~polled /\ stage'[t] = "fetch" /\ age'[t] = age[t]
               /\ UNCHANGED <<hash, hashLife, stream>>
            \/ /\ stage[t] \in {"fetch", "raw"} /\ stage'[t] \in {"raw", "compare"}
               /\ age'[t] = age[t] /\ UNCHANGED <<polled, hash, hashLife, stream>>
            \/ /\ stage[t] = "compare" /\ (hash = 0 => stage'[t] = "hash" /\ age'[t] = age[t])
               /\ UNCHANGED <<polled, hash, hashLife, stream>>
            \/ /\ stage[t] = "hash" /\ stage'[t] = "persist" /\ age'[t] = age[t]
               /\ hash' # 0 /\ UNCHANGED <<polled, stream>>
            \/ /\ stage[t] = "persist" /\ stage'[t] = "publish" /\ age'[t] = age[t]
               /\ UNCHANGED <<polled, hash, hashLife, stream>>
            \/ /\ stage[t] = "publish" /\ \E e : stream' = Append(stream, e)
               /\ UNCHANGED <<polled, hash, hashLife>>
<1> USE DEF keys, pricer
<1>1. CASE Start(t)
  BY <1>1, FreshTypes DEF Start, Goto
<1>2. CASE Fetch(t)
  BY <1>2, FreshTypes DEF Fetch, Goto
<1>3. CASE StoreRaw(t)
  BY <1>3, FreshTypes DEF StoreRaw, Goto
<1>4. CASE Compare(t)
  <2>1. fetched[t] # 0
    BY <1>4, FreshTypes DEF Compare, Working
  <2> QED BY <1>4, <2>1, FreshTypes DEF Compare, Goto, End
<1>5. CASE StoreHash(t)
  <2>1. fetched[t] # 0
    BY <1>5, FreshTypes DEF StoreHash, Working
  <2> QED BY <1>5, <2>1, FreshTypes DEF StoreHash, Goto
<1>6. CASE Persist(t)
  BY <1>6, FreshTypes DEF Persist, Goto
<1>7. CASE Publish(t)
  BY <1>7, FreshTypes DEF Publish, Goto, End
<1>8. CASE TaskFails(t)
  BY <1>8, FreshTypes DEF TaskFails
<1> QED BY <1>1, <1>2, <1>3, <1>4, <1>5, <1>6, <1>7, <1>8 DEF TaskStep

\* What a failure, or no step, does.
LEMMA FailuresStay ==
  ASSUME TypeInv, [Next]_vars, failures' = 0
  PROVE  /\ failures = 0
         /\ \/ \E t \in Tasks : TaskStep(t)
            \/ Take \/ Price \/ Announce \/ Notify \/ Move \/ Tick \/ UNCHANGED vars
<1>1. failures \in Nat
  BY FreshTypes
<1>2. ~HandlerFails
  <2>1. HandlerFails => failures' = failures + 1
    BY DEF HandlerFails
  <2> QED BY <1>1, <2>1
<1>3. ASSUME NEW t \in Tasks, TaskStep(t) PROVE failures = 0
  BY <1>1, <1>3 DEF TaskStep, Start, Fetch, StoreRaw, Compare, StoreHash, Persist, Publish, TaskFails
<1>4. \/ \E t \in Tasks : TaskStep(t)
      \/ Take \/ Price \/ Announce \/ Notify \/ Move \/ Tick \/ UNCHANGED vars
  BY <1>2 DEF Next
<1>5. Take \/ Price \/ Announce \/ Notify \/ Move \/ Tick \/ UNCHANGED vars => failures = 0
  BY DEF Take, Price, Announce, Notify, Move, Tick, vars
<1> QED BY <1>3, <1>4, <1>5

LEMMA PollStep ==
  ASSUME TypeInv, [Next]_vars, failures' = 0, PollIsComing
  PROVE  PollIsComing'
<1>1. failures = 0
  BY FailuresStay
<1>2. ASSUME NEW t \in Tasks, TaskStep(t) PROVE PollIsComing'
  BY <1>1, <1>2, TaskMoves DEF PollIsComing
<1>3. CASE Take \/ Price \/ Announce \/ Notify \/ Move \/ UNCHANGED vars
  BY <1>3 DEF PollIsComing, Take, Price, Announce, Notify, Move, vars, celery, keys, pricer
<1>4. CASE Tick
  BY <1>4 DEF Tick, PollIsComing
<1> QED BY <1>2, <1>3, <1>4, FailuresStay

LEMMA RenewedStep ==
  ASSUME TypeInv, TypeInv', [Next]_vars, failures' = 0,
         pricing \in {"announce", "notify"} => PricedTtl <= life + effort,
         pricing' \in {"announce", "notify"}
  PROVE  PricedTtl <= life' + effort'
<1>1. failures = 0
  BY FailuresStay
<1>2. ASSUME NEW t \in Tasks, TaskStep(t) PROVE PricedTtl <= life' + effort'
  BY <1>1, <1>2, TaskMoves
<1>3. CASE Take \/ Announce \/ Notify \/ Move \/ UNCHANGED vars
  BY <1>3 DEF Take, Announce, Notify, Move, vars, celery, keys, pricer
<1>4. CASE Price
  BY <1>4, FreshTypes DEF Price
<1>5. CASE Tick
  BY <1>5, FreshTypes DEF Tick, Down
<1> QED BY <1>2, <1>3, <1>4, <1>5, FailuresStay

LEMMA PricedStep ==
  ASSUME TypeInv, TypeInv', [Next]_vars, failures' = 0, Cycle <= PricedTtl,
         2 * PricingTime < PricedTtl, PollIsComing,
         pricing \in {"announce", "notify"} => PricedTtl <= life + effort,
         ~Price => PricedInTime
  PROVE  PricedInTime'
<1>0. failures = 0
  BY FailuresStay
<1>1. /\ life \in Nat /\ effort \in Nat /\ effort <= PricingTime /\ hashLife \in Nat /\ hashLife <= HashTtl
      /\ \A t \in Tasks : age[t] \in Nat /\ age[t] <= TaskTime
      /\ HashTtl \in Nat /\ PricedTtl \in Nat /\ TaskTime \in Nat /\ PricingTime \in Nat
      /\ HashTtl + 1 + 2 * TaskTime + PricingTime <= PricedTtl
  BY FreshTypes DEF Cycle
<1>9. /\ stream \in Seq(Entry) /\ (pricing # "idle" => stream # <<>>)
      /\ pricing \in {"idle", "price", "announce", "notify"}
  BY TypeParts DEF PricerOK
<1>2. ASSUME NEW t \in Tasks, TaskStep(t) PROVE PricedInTime'
  <2>0. PricedInTime
    BY <1>0, <1>2, TaskMoves DEF Price
  <2>1. /\ \A u \in Tasks \ {t} : stage'[u] = stage[u] /\ age'[u] = age[u]
        /\ UNCHANGED <<pricing, effort, life, announced>>
        /\ \/ /\ stage[t] = "idle" /\ ~polled /\ stage'[t] = "fetch" /\ age'[t] = age[t]
               /\ UNCHANGED <<hash, hashLife, stream>>
           \/ /\ stage[t] \in {"fetch", "raw"} /\ stage'[t] \in {"raw", "compare"}
               /\ age'[t] = age[t] /\ UNCHANGED <<polled, hash, hashLife, stream>>
           \/ /\ stage[t] = "compare" /\ (hash = 0 => stage'[t] = "hash" /\ age'[t] = age[t])
              /\ UNCHANGED <<polled, hash, hashLife, stream>>
           \/ /\ stage[t] = "hash" /\ stage'[t] = "persist" /\ age'[t] = age[t]
              /\ hash' # 0 /\ UNCHANGED <<polled, stream>>
           \/ /\ stage[t] = "persist" /\ stage'[t] = "publish" /\ age'[t] = age[t]
              /\ UNCHANGED <<polled, hash, hashLife, stream>>
           \/ /\ stage[t] = "publish" /\ \E e : stream' = Append(stream, e)
              /\ UNCHANGED <<polled, hash, hashLife>>
    BY <1>0, <1>2, TaskMoves
  <2>2. Len(stream) \in Nat /\ (stream # <<>> <=> Len(stream) > 0)
    BY <1>9
  <2>3. ASSUME NEW e, stream' = Append(stream, e) PROVE stream' # <<>> /\ Len(stream') = Len(stream) + 1
    BY <1>9, <2>3
  <2>4. CASE BeingPriced
    BY <2>1, <2>4 DEF BeingPriced, PricedInTime
  <2>5. CASE NextInStream
    <3>1. stream # <<>> => stream' # <<>>
      BY <2>1, <2>3
    <3>2. Len(stream) > 1 => Len(stream') > 1
      BY <2>1, <2>2, <2>3
    <3> QED BY <2>1, <2>5, <3>1, <3>2 DEF NextInStream, PricedInTime
  <2>6. ASSUME NEW u \in Tasks, OnItsWay(u) PROVE PricedInTime'
    <3>1. CASE u # t \/ stage[t] = "persist"
      <4>1. OnItsWay(u)'
        BY <2>1, <2>6, <3>1 DEF OnItsWay
      <4> QED BY <4>1 DEF PricedInTime
    <3>2. CASE u = t /\ stage[t] = "publish"
      <4>1. PricingTime < life
        <5>1. age[t] \in Nat /\ age[t] <= TaskTime /\ TaskTime + PricingTime < life + age[t]
          BY <1>1, <2>6, <3>2 DEF OnItsWay
        <5> QED BY <1>1, <5>1
      <4>2. stream' # <<>> /\ Len(stream') = Len(stream) + 1
        BY <2>1, <2>3, <3>2
      <4>3. pricing = "idle" => NextInStream'
        BY <2>1, <4>1, <4>2 DEF NextInStream
      <4>4. pricing = "price" => BeingPriced'
        BY <1>1, <2>1, <4>1 DEF BeingPriced
      <4>5. pricing \in {"announce", "notify"} => NextInStream'
        <5> SUFFICES ASSUME pricing \in {"announce", "notify"} PROVE NextInStream'
          OBVIOUS
        <5>1. Len(stream') > 1
          BY <1>9, <2>2, <4>2
        <5>2. 2 * PricingTime < life + effort
          BY <1>1
        <5> QED BY <2>1, <5>1, <5>2 DEF NextInStream
      <4> QED BY <1>9, <4>3, <4>4, <4>5 DEF PricedInTime
    <3> QED BY <2>6, <3>1, <3>2 DEF OnItsWay
  <2>7. ASSUME stage[t] = "hash", 
               HashInTime \/ PollInTime \/ \E u \in Tasks : TaskInTime(u)
        PROVE  PricedInTime'
    <3>1. TaskTime + PricingTime < life
      BY <1>1, <2>7 DEF HashInTime, PollInTime, TaskInTime
    <3>2. OnItsWay(t)'
      BY <1>1, <2>1, <2>7, <3>1 DEF OnItsWay
    <3> QED BY <3>2 DEF PricedInTime
  <2>8. CASE HashInTime /\ stage[t] # "hash"
    <3>1. HashInTime'
      BY <2>1, <2>8 DEF HashInTime
    <3> QED BY <3>1 DEF PricedInTime
  <2>9. CASE PollInTime /\ stage[t] # "hash"
    <3>1. CASE stage[t] = "idle"
      <4>1. TaskInTime(t)'
        BY <1>1, <2>1, <2>9, <3>1 DEF PollInTime, TaskInTime
      <4> QED BY <4>1 DEF PricedInTime
    <3>2. CASE stage[t] # "idle"
      <4>1. PollInTime'
        BY <2>1, <2>9, <3>2 DEF PollInTime
      <4> QED BY <4>1 DEF PricedInTime
    <3> QED BY <3>1, <3>2
  <2>10. ASSUME NEW u \in Tasks, TaskInTime(u), stage[t] # "hash" PROVE PricedInTime'
    <3>1. TaskInTime(u)'
      BY <2>1, <2>10 DEF TaskInTime
    <3> QED BY <3>1 DEF PricedInTime
  <2> QED BY <2>0, <2>4, <2>5, <2>6, <2>7, <2>8, <2>9, <2>10 DEF PricedInTime
<1>3. CASE Take
  <2>1. /\ pricing = "idle" /\ pricing' = "price" /\ effort' = 0
        /\ UNCHANGED <<life, hash, hashLife, polled, stage, age>>
    BY <1>3 DEF Take, celery, keys
  <2>2. PricedInTime
    BY <2>1 DEF Price
  <2> QED BY <1>1, <2>1, <2>2
          DEF PricedInTime, BeingPriced, NextInStream, HashInTime, PollInTime, TaskInTime, OnItsWay
<1>4. CASE Price
  <2>1. life' = PricedTtl /\ UNCHANGED <<hash, hashLife, polled, stage, age>>
    BY <1>4 DEF Price, celery, keys
  <2>2. CASE hash # 0
    BY <1>1, <2>1, <2>2 DEF PricedInTime, HashInTime
  <2>3. CASE hash = 0 /\ ~polled
    BY <1>1, <2>1, <2>3 DEF PricedInTime, PollInTime
  <2>4. CASE hash = 0 /\ polled
    <3>1. PICK t \in Tasks : stage[t] \in {"fetch", "raw", "compare", "hash"}
      BY <2>4 DEF PollIsComing
    <3>2. 2 * TaskTime + PricingTime < PricedTtl + age[t]
      <4>1. age[t] \in Nat
        BY <1>1
      <4> QED BY <1>1, <4>1
    <3>3. TaskInTime(t)'
      BY <2>1, <2>4, <3>1, <3>2 DEF TaskInTime
    <3> QED BY <3>3 DEF PricedInTime
  <2> QED BY <2>2, <2>3, <2>4
<1>5. CASE Announce
  <2>1. /\ pricing = "announce" /\ pricing' = "notify"
        /\ UNCHANGED <<stream, effort, life, hash, hashLife, polled, stage, age>>
    BY <1>5 DEF Announce, celery, keys
  <2>2. PricedInTime
    BY <2>1 DEF Price
  <2> QED BY <2>1, <2>2
          DEF PricedInTime, BeingPriced, NextInStream, HashInTime, PollInTime, TaskInTime, OnItsWay
<1>6. CASE Notify
  <2>1. /\ pricing = "notify" /\ pricing' = "idle" /\ stream' = Tail(stream)
        /\ UNCHANGED <<life, hash, hashLife, polled, stage, age>>
    BY <1>6 DEF Notify, celery, keys
  <2>2. PricedInTime
    BY <2>1 DEF Price
  <2>3. Len(stream) > 1 => stream' # <<>>
    <3>1. stream \in Seq(Entry) /\ stream # <<>>
      BY <1>9, <2>1
    <3>2. Len(stream') = Len(stream) - 1
      BY <2>1, <3>1
    <3>3. Len(stream) \in Nat
      BY <3>1
    <3>4. Len(<<>>) = 0
      OBVIOUS
    <3> QED BY <3>2, <3>3, <3>4
  <2> QED BY <1>1, <2>1, <2>2, <2>3
          DEF PricedInTime, BeingPriced, NextInStream, HashInTime, PollInTime, TaskInTime, OnItsWay
<1>7. CASE Move \/ UNCHANGED vars
  <2>1. UNCHANGED <<pricing, stream, effort, life, hash, hashLife, polled, stage, age>>
    BY <1>7 DEF Move, vars, celery, keys, pricer
  <2>2. PricedInTime
    <3>1. ~Price
      BY <2>1 DEF Price
    <3> QED BY <3>1
  <2> QED BY <2>1, <2>2
          DEF PricedInTime, BeingPriced, NextInStream, HashInTime, PollInTime, TaskInTime, OnItsWay
<1>8. CASE Tick
  <2>1. /\ polled /\ ~polled'
        /\ \A t \in Tasks : stage[t] # "idle" => age[t] < TaskTime /\ age'[t] = age[t] + 1
        /\ pricing # "idle" => effort < PricingTime /\ effort' = effort + 1
        /\ pricing = "idle" => stream = <<>>
        /\ hashLife' = Down(hashLife) /\ hash' = IF hashLife <= 1 THEN 0 ELSE hash
        /\ life' = Down(life) /\ UNCHANGED <<stage, stream, pricing>>
    BY <1>8 DEF Tick
  <2>2. PricedInTime
    BY <2>1 DEF Price
  <2>3. CASE BeingPriced
    BY <1>1, <2>1, <2>3 DEF BeingPriced, PricedInTime, Down
  <2>4. CASE NextInStream
    BY <1>1, <2>1, <2>4 DEF NextInStream, PricedInTime, Down
  <2>5. ASSUME NEW t \in Tasks, OnItsWay(t) PROVE PricedInTime'
    <3>1. /\ stage'[t] = stage[t] /\ stage[t] \in {"persist", "publish"}
          /\ TaskTime + PricingTime < life + age[t]
      BY <2>1, <2>5 DEF OnItsWay
    <3>2. age[t] < TaskTime /\ age'[t] = age[t] + 1
      BY <2>1, <3>1
    <3>3. life' = life - 1
      BY <1>1, <2>1, <3>1, <3>2 DEF Down
    <3>4. TaskTime + PricingTime < life' + age'[t]
      <4>1. age[t] \in Nat
        BY <1>1
      <4> QED BY <1>1, <3>1, <3>2, <3>3, <4>1
    <3>5. OnItsWay(t)'
      BY <3>1, <3>4 DEF OnItsWay
    <3> QED BY <3>5 DEF PricedInTime
  <2>6. CASE HashInTime
    <3>1. CASE hashLife <= 1
      BY <1>1, <2>1, <2>6, <3>1, FreshTypes DEF HashInTime, PollInTime, PricedInTime, Down
    <3>2. CASE hashLife > 1
      <4>1. hashLife' = hashLife - 1 /\ hash' = hash
        BY <1>1, <2>1, <3>2 DEF Down
      <4>2. life' = life - 1
        BY <1>1, <2>1, <2>6 DEF HashInTime, Down
      <4> QED BY <1>1, <2>6, <4>1, <4>2 DEF HashInTime, PricedInTime
    <3> QED BY <1>1, <3>1, <3>2
  <2>7. ASSUME NEW t \in Tasks, TaskInTime(t) PROVE PricedInTime'
    <3>1. hash' = 0
      BY <2>1, <2>7 DEF TaskInTime
    <3>2. TaskInTime(t)'
      BY <1>1, <2>1, <2>7, <3>1 DEF TaskInTime, Down
    <3> QED BY <3>2 DEF PricedInTime
  <2>8. ~PollInTime
    BY <2>1 DEF PollInTime
  <2> QED BY <2>2, <2>3, <2>4, <2>5, <2>6, <2>7, <2>8 DEF PricedInTime
<1> QED BY <1>2, <1>3, <1>4, <1>5, <1>6, <1>7, <1>8, FailuresStay

(* Once a chain was priced it stays in the cache while nothing fails, as   *)
(* long as a whole cycle (its hash expires, a poll finds the chain again   *)
(* and two tasks and a pricing take their time) and two pricings in a row  *)
(* are shorter than its TTL.                                               *)
THEOREM FreshTheorem ==
  ASSUME Cycle <= PricedTtl, 2 * PricingTime < PricedTtl
  PROVE  Spec => []FreshWithoutFailures
<1>1. Init => FreshInv
  BY DEF Init, FreshInv, PollIsComing
<1>2. TypeInv /\ TypeInv' /\ FreshInv /\ [Next]_vars => FreshInv'
  <2> SUFFICES ASSUME TypeInv, TypeInv', FreshInv, [Next]_vars, failures' = 0 PROVE FreshInv'
    BY DEF FreshInv
  <2>1. failures = 0 /\ (pricing \in {"announce", "notify"} => PricedTtl <= life + effort)
        /\ PollIsComing
    BY FailuresStay DEF FreshInv
  <2>2. PollIsComing'
    BY <2>1, PollStep
  <2>3. pricing' \in {"announce", "notify"} => PricedTtl <= life' + effort'
    BY <2>1, RenewedStep
  <2>4. ASSUME announced' # 0 \/ pricing' \in {"announce", "notify"} PROVE PricedInTime'
    <3>1. announced # 0 \/ pricing \in {"announce", "notify"} \/ Price
      <4>1. ASSUME NEW t \in Tasks, TaskStep(t) PROVE UNCHANGED <<pricing, announced>>
        BY <2>1, <4>1, TaskMoves
      <4>2. ASSUME Take \/ Announce \/ Notify \/ Move \/ Tick \/ UNCHANGED vars
            PROVE  announced # 0 \/ pricing \in {"announce", "notify"}
        BY <2>4, <4>2 DEF Take, Announce, Notify, Move, Tick, vars, pricer
      <4> QED BY <2>4, <4>1, <4>2, FailuresStay
    <3> QED BY <2>1, <3>1, PricedStep DEF FreshInv
  <2> QED BY <2>2, <2>3, <2>4 DEF FreshInv
<1>3. TypeInv /\ FreshInv => FreshWithoutFailures
  <2> SUFFICES ASSUME TypeInv, PricedInTime PROVE life # 0
    BY FreshTypes DEF FreshInv, FreshWithoutFailures
  <2>1. /\ life \in Nat /\ effort \in Nat /\ effort <= PricingTime /\ hashLife \in Nat
        /\ \A t \in Tasks : age[t] \in Nat /\ age[t] <= TaskTime
        /\ TaskTime \in Nat /\ PricingTime \in Nat
    BY FreshTypes
  <2> QED BY <2>1 DEF PricedInTime, BeingPriced, NextInStream, OnItsWay, HashInTime, PollInTime,
                      TaskInTime
<1> QED BY <1>1, <1>2, <1>3, TypeInvariant, PTL DEF Spec

-----------------------------------------------------------------------------
(* The keys catch up with the market. *)

Running == {t \in Tasks : stage[t] # "idle"}

\* A task that did not fetch yet has no chain, and who does nothing takes no time.
IdleOK ==
  /\ \A t \in Tasks : stage[t] \in {"idle", "fetch"} => fetched[t] = 0
  /\ \A t \in Tasks : stage[t] = "idle" => age[t] = 0
  /\ pricing = "idle" => effort = 0

\* No more is waiting for the subscriber, or on its way to it, than it handles in
\* time: the tasks were started in different intervals.
QueueOK ==
  /\ IsFiniteSet(Running)
  /\ Len(stream) + Cardinality(Running) + (IF polled THEN 0 ELSE 1) <= Waiting + effort
  /\ \A t, u \in Running : age[t] = age[u] => t = u
  /\ \A t \in Running : age[t] = 0 => polled

\* What is still to come, within a time, when no task holds an old chain.
NoneOld  == \A t \in Tasks : fetched[t] \in {0, market}
ToPoll   == IF polled THEN 1 ELSE 0
RawIn(r) ==
  \/ raw = market
  \/ \E t \in Tasks : stage[t] \in {"fetch", "raw"} /\ TaskTime <= r + age[t]
  \/ ToPoll + TaskTime <= r
PricedIn ==
  /\ priced = market /\ \A i \in 1 .. Len(stream) : stream[i].version = market
  /\ \E k \in Nat : k < life /\ RawIn(k)
EntryIn(r) ==
  \E i \in 1 .. Len(stream) :
    /\ \A j \in i .. Len(stream) : stream[j].version = market
    /\ i <= r + effort
    /\ i = 1 => pricing \in {"idle", "price"}
TaskIn(r) ==
  \E t \in Tasks :
    \/ stage[t] \in {"hash", "persist", "publish"} /\ TaskTime + Waiting <= r + age[t]
    \/ /\ hash # market /\ stage[t] \in {"fetch", "raw", "compare"}
       /\ 2 * TaskTime + Waiting <= r + age[t]
PollIn(r) == hash # market /\ ToPoll + 2 * TaskTime + Waiting <= r
HashIn(r) == hash = market /\ hashLife + 2 * TaskTime + Waiting <= r

\* The keys follow within r: at first tasks may hold an old chain, later none does.
Mixed(r) ==
  Course <= r /\ \A t \in Tasks : fetched[t] \notin {0, market} => TaskTime + Course <= r + age[t]
Clear(r) ==
  NoneOld /\ RawIn(r) /\ (PricedIn \/ EntryIn(r) \/ TaskIn(r) \/ PollIn(r) \/ HashIn(r))
Soon(r) == Mixed(r) \/ Clear(r)

InTime == \E r \in Nat : lag + r <= (TaskTime + Course) * (1 + failures) /\ Soon(r)

LagInv == IdleOK /\ QueueOK /\ InTime

LEMMA LagTypes ==
  ASSUME TypeInv
  PROVE  /\ market \in Nat \ {0} /\ raw \in Nat /\ hash \in Nat /\ hashLife \in Nat
         /\ hashLife <= HashTtl /\ (hash = 0 <=> hashLife = 0)
         /\ HashTtl \in Nat \ {0} /\ PricedTtl \in Nat \ {0} /\ TaskTime \in Nat \ {0}
         /\ PricingTime \in Nat \ {0}
         /\ stage \in [Tasks -> {"idle", "fetch"} \cup Working]
         /\ fetched \in [Tasks -> 0 .. market] /\ age \in [Tasks -> 0 .. TaskTime]
         /\ \A t \in Tasks : fetched[t] \in Nat /\ age[t] \in Nat /\ age[t] <= TaskTime
         /\ \A t \in Tasks : stage[t] \in Working => fetched[t] # 0
         /\ stream \in Seq(Entry) /\ Len(stream) \in Nat
         /\ (pricing # "idle" => stream # <<>>) /\ (stream # <<>> <=> Len(stream) # 0)
         /\ pricing \in {"idle", "price", "announce", "notify"}
         /\ effort \in Nat /\ effort <= PricingTime
         /\ priced \in Nat /\ life \in Nat /\ (priced = 0 <=> life = 0)
         /\ polled \in BOOLEAN /\ lag \in Nat /\ failures \in Nat
         /\ Waiting \in Nat /\ Waiting = TaskTime + 1 + failures
         /\ Course \in Nat /\ Course = HashTtl + 2 * TaskTime + Waiting
<1>1. TasksOK /\ KeysOK /\ PricerOK /\ RestOfReadModelOK
  BY TypeParts
<1>2. market \in Nat \ {0} /\ failures \in Nat
  BY <1>1, ConstantsAssumption DEF RestOfReadModelOK, Versions
<1>3. /\ stream \in Seq(Entry) /\ Len(stream) \in Nat /\ (stream # <<>> <=> Len(stream) # 0)
  BY <1>1 DEF PricerOK
<1> QED BY <1>1, <1>2, <1>3, ConstantsAssumption
        DEF TasksOK, KeysOK, PricerOK, RestOfReadModelOK, Waiting, Course

LEMMA LagNumbers ==
  ASSUME TypeInv
  PROVE  /\ market \in Nat \ {0} /\ hashLife \in Nat /\ hashLife <= HashTtl /\ life \in Nat
         /\ HashTtl \in Nat \ {0} /\ PricedTtl \in Nat \ {0} /\ TaskTime \in Nat \ {0}
         /\ effort \in Nat /\ effort <= PricingTime /\ failures \in Nat /\ lag \in Nat
         /\ Waiting \in Nat \ {0} /\ Course = HashTtl + 2 * TaskTime + Waiting
         /\ Waiting = TaskTime + 1 + failures
         /\ Len(stream) \in Nat
<1>1. /\ market \in Nat \ {0} /\ hashLife \in Nat /\ hashLife <= HashTtl /\ life \in Nat
      /\ HashTtl \in Nat \ {0} /\ PricedTtl \in Nat \ {0} /\ TaskTime \in Nat \ {0}
      /\ effort \in Nat /\ effort <= PricingTime /\ failures \in Nat /\ lag \in Nat
      /\ Course = HashTtl + 2 * TaskTime + Waiting /\ Waiting = TaskTime + 1 + failures
      /\ Len(stream) \in Nat
  BY LagTypes
<1> QED BY <1>1

\* What a step of a task does that does not fail.
TaskMoved(t) ==
  /\ \A u \in Tasks \ {t} : stage'[u] = stage[u] /\ age'[u] = age[u] /\ fetched'[u] = fetched[u]
  /\ UNCHANGED <<market, pricing, effort, priced, life, announced, lag, failures>>
  /\ stage'[t] = "idle" \/ age'[t] = age[t]
  /\ \/ /\ stage[t] = "idle" /\ ~polled /\ polled' /\ stage'[t] = "fetch"
        /\ fetched'[t] = fetched[t] /\ UNCHANGED <<keys, stream>>
     \/ /\ stage[t] = "fetch" /\ stage'[t] = "raw" /\ fetched'[t] = market
        /\ UNCHANGED <<polled, keys, stream>>
     \/ /\ stage[t] = "raw" /\ stage'[t] = "compare" /\ raw' = fetched[t]
        /\ fetched'[t] = fetched[t] /\ UNCHANGED <<polled, hash, hashLife, stream>>
     \/ /\ stage[t] = "compare" /\ hash = fetched[t] /\ stage'[t] = "idle"
        /\ fetched'[t] = 0 /\ age'[t] = 0 /\ UNCHANGED <<polled, keys, stream>>
     \/ /\ stage[t] = "compare" /\ hash # fetched[t] /\ stage'[t] = "hash"
        /\ fetched'[t] = fetched[t] /\ UNCHANGED <<polled, keys, stream>>
     \/ /\ stage[t] = "hash" /\ stage'[t] = "persist" /\ hash' = fetched[t]
        /\ fetched'[t] = fetched[t] /\ UNCHANGED <<polled, raw, stream>>
     \/ /\ stage[t] = "persist" /\ stage'[t] = "publish"
        /\ fetched'[t] = fetched[t] /\ UNCHANGED <<polled, keys, stream>>
     \/ /\ stage[t] = "publish" /\ stage'[t] = "idle" /\ fetched'[t] = 0 /\ age'[t] = 0
        /\ stream' = Append(stream, [version |-> fetched[t], retry |-> 0])
        /\ UNCHANGED <<polled, keys>>

LEMMA MovedByStep ==
  ASSUME TypeInv, NEW t \in Tasks, TaskStep(t), ~TaskFails(t)
  PROVE  TaskMoved(t)
<1>1. CASE Start(t)
  BY <1>1, LagTypes DEF Start, Goto, TaskMoved, keys, pricer
<1>2. CASE Fetch(t)
  BY <1>2, LagTypes DEF Fetch, Goto, TaskMoved, keys, pricer
<1>3. CASE StoreRaw(t)
  BY <1>3, LagTypes DEF StoreRaw, Goto, TaskMoved, keys, pricer
<1>4. CASE Compare(t)
  <2>1. CASE hash = fetched[t]
    BY <1>4, <2>1, LagTypes DEF Compare, Goto, End, TaskMoved, keys, pricer
  <2>2. CASE hash # fetched[t]
    BY <1>4, <2>2, LagTypes DEF Compare, Goto, TaskMoved, keys, pricer
  <2> QED BY <2>1, <2>2
<1>5. CASE StoreHash(t)
  BY <1>5, LagTypes DEF StoreHash, Goto, TaskMoved, keys, pricer
<1>6. CASE Persist(t)
  BY <1>6, LagTypes DEF Persist, Goto, TaskMoved, keys, pricer
<1>7. CASE Publish(t)
  BY <1>7, LagTypes DEF Publish, Goto, End, TaskMoved, keys, pricer
<1> QED BY <1>1, <1>2, <1>3, <1>4, <1>5, <1>6, <1>7 DEF TaskStep

\* The kinds of steps.
LEMMA LagSteps ==
  ASSUME TypeInv, [Next]_vars
  PROVE  \/ \E t \in Tasks : TaskMoved(t) \/ TaskFails(t)
         \/ Take \/ Price \/ Announce \/ Notify \/ HandlerFails \/ Move \/ Tick \/ UNCHANGED vars
BY MovedByStep DEF Next


LEMMA IdleStep ==
  ASSUME TypeInv, [Next]_vars, IdleOK
  PROVE  IdleOK'
<1>1. ASSUME NEW t \in Tasks, TaskMoved(t) PROVE IdleOK'
  <2>1. \A u \in Tasks : /\ stage'[u] \in {"idle", "fetch"} => fetched'[u] = 0
                         /\ stage'[u] = "idle" => age'[u] = 0
    <3> TAKE u \in Tasks
    <3>1. CASE u = t
      BY <1>1, <3>1 DEF TaskMoved, IdleOK
    <3>2. CASE u # t
      BY <1>1, <3>2 DEF TaskMoved, IdleOK
    <3> QED BY <3>1, <3>2
  <2> QED BY <1>1, <2>1 DEF TaskMoved, IdleOK
<1>2. ASSUME NEW t \in Tasks, TaskFails(t) PROVE IdleOK'
  BY <1>2, LagTypes DEF TaskFails, End, Goto, IdleOK, pricer
<1>3. CASE Tick
  BY <1>3, LagTypes DEF Tick, IdleOK
<1>4. CASE Take \/ Price \/ Announce \/ Notify \/ HandlerFails \/ Move \/ UNCHANGED vars
  BY <1>4 DEF Take, Price, Announce, Notify, HandlerFails, Move, vars, celery, pricer, IdleOK
<1> QED BY <1>1, <1>2, <1>3, <1>4, LagSteps

\* A task that ends was one of those at work.
LEMMA OneLess ==
  ASSUME TypeInv, QueueOK, NEW t \in Running, stage'[t] = "idle",
         \A u \in Tasks \ {t} : stage'[u] = stage[u]
  PROVE  /\ Running' = Running \ {t} /\ IsFiniteSet(Running')
         /\ Cardinality(Running') \in Nat /\ Cardinality(Running) \in Nat
         /\ Cardinality(Running') = Cardinality(Running) - 1
<1>1. Running' = Running \ {t} /\ t \in Running
  BY DEF Running
<1>2. IsFiniteSet(Running)
  BY DEF QueueOK
<1>3. IsFiniteSet(Running \ {t}) /\ Cardinality(Running \ {t}) = Cardinality(Running) - 1
  BY <1>1, <1>2, FS_RemoveElement
<1> QED BY <1>1, <1>2, <1>3, FS_CardinalityType

LEMMA QueueStep ==
  ASSUME TypeInv, [Next]_vars, IdleOK, IdleOK', TypeInv', QueueOK, PricingTime = 1
  PROVE  QueueOK'
<1>0. /\ IsFiniteSet(Running) /\ Cardinality(Running) \in Nat
      /\ Len(stream) + Cardinality(Running) + (IF polled THEN 0 ELSE 1) <= Waiting + effort
      /\ \A t, u \in Running : age[t] = age[u] => t = u
      /\ \A t \in Running : age[t] = 0 => polled
  BY FS_CardinalityType DEF QueueOK
<1>t. /\ Len(stream) \in Nat /\ effort \in Nat /\ effort <= 1 /\ TaskTime \in Nat /\ failures \in Nat
      /\ polled \in BOOLEAN /\ Waiting = TaskTime + 1 + failures /\ Waiting \in Nat
      /\ Waiting' = TaskTime + 1 + failures'
      /\ stream \in Seq(Entry) /\ (stream # <<>> <=> Len(stream) # 0)
  BY LagTypes DEF Waiting
<1>1. ASSUME NEW t \in Tasks, TaskMoved(t) PROVE QueueOK'
  <2>0. effort' = effort /\ Waiting' = Waiting
    BY <1>1 DEF TaskMoved, Waiting
  <2>1. CASE stage[t] = "idle"
    <3>1. /\ Running' = Running \cup {t} /\ t \notin Running /\ ~polled /\ polled' /\ stream' = stream
          /\ age[t] = 0
          /\ \A u \in Tasks : age'[u] = age[u]
      BY <1>1, <2>1 DEF TaskMoved, Running, IdleOK
    <3>2. IsFiniteSet(Running') /\ Cardinality(Running') = Cardinality(Running) + 1
      BY <1>0, <3>1, FS_AddElement
    <3>3. \A u \in Running : u \in Tasks /\ age[u] # 0
      BY <1>0, <3>1 DEF Running
    <3>4. \A u, v \in Running' : age'[u] = age'[v] => u = v
      BY <1>0, <3>1, <3>3
    <3>5. Len(stream') + Cardinality(Running') + 0 <= Waiting + effort
      BY <1>0, <1>t, <3>1, <3>2
    <3> QED BY <2>0, <3>1, <3>2, <3>4, <3>5 DEF QueueOK
  <2>2. CASE stage[t] # "idle" /\ stage'[t] # "idle"
    <3>1. Running' = Running /\ UNCHANGED <<polled, stream>> /\ \A u \in Running : age'[u] = age[u]
      BY <1>1, <2>2 DEF TaskMoved, Running
    <3> QED BY <1>0, <2>0, <3>1 DEF QueueOK
  <2>3. CASE stage[t] # "idle" /\ stage'[t] = "idle"
    <3>1. t \in Running /\ polled' = polled /\ \A u \in Tasks \ {t} : stage'[u] = stage[u] /\ age'[u] = age[u]
      BY <1>1, <2>3 DEF TaskMoved, Running
    <3>2. Len(stream') <= Len(stream) + 1 /\ Len(stream') \in Nat
      <4>1. stream' = stream \/ \E e : stream' = Append(stream, e)
        BY <1>1, <2>3 DEF TaskMoved
      <4>2. ASSUME NEW e, stream' = Append(stream, e) PROVE Len(stream') = Len(stream) + 1
        BY <1>t, <4>2
      <4> QED BY <1>t, <4>1, <4>2
    <3>3. /\ Running' = Running \ {t} /\ IsFiniteSet(Running')
          /\ Cardinality(Running') \in Nat /\ Cardinality(Running') = Cardinality(Running) - 1
      BY <2>3, <3>1, OneLess
    <3>4. /\ \A u, v \in Running' : age'[u] = age'[v] => u = v
          /\ \A u \in Running' : age'[u] = 0 => polled'
      <4>1. \A u \in Running' : u \in Running /\ age'[u] = age[u]
        BY <3>1, <3>3 DEF Running
      <4> QED BY <1>0, <3>1, <4>1
    <3>5. Len(stream') + Cardinality(Running') + (IF polled' THEN 0 ELSE 1) <= Waiting' + effort'
      BY <1>0, <1>t, <2>0, <3>1, <3>2, <3>3
    <3> QED BY <3>3, <3>4, <3>5 DEF QueueOK
  <2> QED BY <2>1, <2>2, <2>3
<1>2. ASSUME NEW t \in Tasks, TaskFails(t) PROVE QueueOK'
  <2>1. /\ t \in Running /\ UNCHANGED <<polled, stream, effort>> /\ failures' = failures + 1
        /\ stage'[t] = "idle" /\ \A u \in Tasks \ {t} : stage'[u] = stage[u] /\ age'[u] = age[u]
    BY <1>2, LagTypes DEF TaskFails, End, Goto, Running, pricer
  <2>2. /\ Running' = Running \ {t} /\ IsFiniteSet(Running')
        /\ Cardinality(Running') \in Nat /\ Cardinality(Running') = Cardinality(Running) - 1
    BY <2>1, OneLess
  <2>3. \A u \in Running' : u \in Running /\ age'[u] = age[u]
    BY <2>1, <2>2 DEF Running
  <2>4. Len(stream') + Cardinality(Running') + (IF polled' THEN 0 ELSE 1) <= Waiting' + effort'
    BY <1>0, <1>t, <2>1, <2>2
  <2> QED BY <1>0, <2>1, <2>2, <2>3, <2>4 DEF QueueOK
<1>3. CASE Take \/ Price \/ Announce \/ Move \/ UNCHANGED vars
  <2>1. UNCHANGED <<stage, age, polled, stream, failures>> /\ effort' = effort
    BY <1>3 DEF Take, Price, Announce, Move, vars, celery, pricer, IdleOK
  <2>2. Running' = Running /\ Waiting' = Waiting
    BY <2>1 DEF Running, Waiting
  <2> QED BY <1>0, <2>1, <2>2 DEF QueueOK
<1>4. CASE Notify \/ HandlerFails
  <2>1. pricing # "idle" /\ UNCHANGED <<stage, age, polled>> /\ effort' = 0
    BY <1>4 DEF Notify, HandlerFails, celery
  <2>2. Running' = Running
    BY <2>1 DEF Running
  <2>3. Tail(stream) \in Seq(Entry) /\ Len(Tail(stream)) = Len(stream) - 1
    BY <1>t, <2>1, LagTypes
  <2>4. failures' \in Nat /\ Len(stream') + failures <= Len(stream) - 1 + failures' /\ Len(stream') \in Nat
    <3>1. CASE Notify
      BY <1>t, <2>3, <3>1 DEF Notify
    <3>2. CASE HandlerFails
      <4>1. CASE Head(stream).retry < MaxRetries
        <5>1. PICK e : e = [Head(stream) EXCEPT !.retry = @ + 1]
          OBVIOUS
        <5>2. Head(stream) \in Entry
          BY <1>t, <2>1, LagTypes
        <5>3. e \in Entry
          BY <4>1, <5>1, <5>2, ConstantsAssumption DEF Entry
        <5>4. stream' = Tail(stream) \o <<e>> /\ failures' = failures + 1
          BY <3>2, <4>1, <5>1 DEF HandlerFails
        <5>5. Len(stream') = Len(stream) - 1 + 1
          <6>1. <<e>> \in Seq(Entry) /\ Len(<<e>>) = 1
            BY <5>3
          <6>2. Len(Tail(stream) \o <<e>>) = Len(Tail(stream)) + Len(<<e>>)
            BY <2>3, <6>1
          <6> QED BY <2>3, <5>4, <6>1, <6>2
        <5> QED BY <1>t, <5>4, <5>5
      <4>2. CASE ~(Head(stream).retry < MaxRetries)
        <5>1. stream' = Tail(stream) \o <<>> /\ failures' = failures + 1
          BY <3>2, <4>2 DEF HandlerFails
        <5>2. stream' = Tail(stream)
          BY <2>3, <5>1
        <5> QED BY <1>t, <2>3, <5>1, <5>2
      <4> QED BY <4>1, <4>2
    <3> QED BY <1>4, <3>1, <3>2
  <2>5. Len(stream') + Cardinality(Running') + (IF polled' THEN 0 ELSE 1) <= Waiting' + effort'
    BY <1>0, <1>t, <2>1, <2>2, <2>4
  <2> QED BY <1>0, <2>1, <2>2, <2>5 DEF QueueOK
<1>5. CASE Tick
  <2>1. /\ polled /\ ~polled' /\ UNCHANGED <<stage, stream, pricing, failures>>
        /\ \A t \in Running : age[t] < TaskTime /\ age'[t] = age[t] + 1
        /\ pricing # "idle" => effort < 1 /\ effort' = effort + 1
        /\ pricing = "idle" => stream = <<>> /\ effort' = 0
    BY <1>5 DEF Tick, Running
  <2>2. Running' = Running /\ Waiting' = Waiting /\ Running \subseteq Tasks
    BY <2>1 DEF Running, Waiting
  <2>3. \A t \in Running : age[t] \in Nat
    BY <2>2, LagTypes
  <2>4. Len(stream) + Cardinality(Running) + 1 <= Waiting + effort'
    <3>1. CASE pricing # "idle"
      BY <1>0, <1>t, <2>1, <3>1
    <3>2. CASE pricing = "idle"
      <4> DEFINE ages == [t \in Running |-> age[t] + 1]
      <4>1. ages \in Injection(Running, 1 .. TaskTime)
        <5>1. ages \in [Running -> 1 .. TaskTime]
          BY <1>t, <2>1, <2>3
        <5>2. \A t, u \in Running : ages[t] = ages[u] => t = u
          BY <1>0, <2>3
        <5> HIDE DEF ages
        <5> QED BY <5>1, <5>2 DEF Injection, IsInjective
      <4>2. IsFiniteSet(1 .. TaskTime) /\ Cardinality(1 .. TaskTime) <= TaskTime
        <5>1. 1 \in Int /\ TaskTime \in Int
          BY <1>t
        <5>2. IsFiniteSet(1 .. TaskTime)
              /\ Cardinality(1 .. TaskTime) = IF 1 > TaskTime THEN 0 ELSE TaskTime - 1 + 1
          BY <5>1, FS_Interval
        <5> QED BY <1>t, <5>2
      <4>3. Cardinality(Running) <= Cardinality(1 .. TaskTime)
        BY <4>1, <4>2, FS_Injection
      <4>4. Cardinality(1 .. TaskTime) \in Nat
        BY <4>2, FS_CardinalityType
      <4> QED BY <1>0, <1>t, <2>1, <3>2, <4>2, <4>3, <4>4
    <3> QED BY <3>1, <3>2
  <2>5. /\ \A t, u \in Running : age'[t] = age'[u] => t = u
        /\ \A t \in Running : age'[t] # 0
    BY <1>0, <2>1, <2>3
  <2> QED BY <1>0, <2>1, <2>2, <2>4, <2>5 DEF QueueOK
<1> QED BY <1>1, <1>2, <1>3, <1>4, <1>5, LagSteps

\* When no task holds an old chain, a step of a task keeps what is to come in time.
LEMMA RawKept ==
  ASSUME TypeInv, IdleOK, NoneOld, NEW t \in Tasks, TaskMoved(t), NEW r \in Nat, RawIn(r)
  PROVE  NoneOld' /\ RawIn(r)'
<1>1. NoneOld'
  <2>1. \A u \in Tasks : fetched'[u] \in {0, market}
    <3> TAKE u \in Tasks
    <3>1. CASE u = t
      BY <3>1 DEF TaskMoved, NoneOld
    <3>2. CASE u # t
      BY <3>2 DEF TaskMoved, NoneOld
    <3> QED BY <3>1, <3>2
  <2> QED BY <2>1 DEF TaskMoved, NoneOld
<1> SUFFICES RawIn(r)'
  BY <1>1
<1>0. market' = market
  BY DEF TaskMoved
<1>2. CASE raw = market
  <2>1. raw' = market
    BY <1>2, LagTypes DEF TaskMoved, NoneOld, keys, Working
  <2> QED BY <1>0, <2>1 DEF RawIn
<1>3. ASSUME NEW u \in Tasks, stage[u] \in {"fetch", "raw"}, TaskTime <= r + age[u] PROVE RawIn(r)'
  <2>1. CASE u = t /\ stage[t] = "raw"
    <3>1. fetched[t] = market /\ raw' = fetched[t]
      BY <2>1, LagTypes DEF TaskMoved, NoneOld, Working
    <3> QED BY <1>0, <3>1 DEF RawIn
  <2>2. CASE u # t \/ stage[t] # "raw"
    <3>1. stage'[u] \in {"fetch", "raw"} /\ age'[u] = age[u]
      BY <1>3, <2>2 DEF TaskMoved
    <3> QED BY <1>3, <3>1 DEF RawIn
  <2> QED BY <2>1, <2>2
<1>4. CASE ToPoll + TaskTime <= r
  <2>1. CASE stage[t] = "idle"
    <3>1. stage'[t] = "fetch" /\ age'[t] = age[t] /\ age[t] = 0 /\ ~polled
      BY <2>1 DEF TaskMoved, IdleOK
    <3>2. TaskTime <= r + age'[t]
      BY <1>4, <3>1, LagTypes DEF ToPoll
    <3> QED BY <3>1, <3>2 DEF RawIn
  <2>2. CASE stage[t] # "idle"
    <3>1. polled' = polled
      BY <2>2 DEF TaskMoved
    <3> QED BY <1>4, <3>1 DEF RawIn, ToPoll
  <2> QED BY <2>1, <2>2
<1> QED BY <1>2, <1>3, <1>4 DEF RawIn

\* A sequence that ends in chains of now still does after one more.
LEMMA OneMore ==
  ASSUME TypeInv, NEW t \in Tasks, fetched[t] \in 1 .. market, NEW i \in 1 .. Len(stream) + 1,
         \A j \in i .. Len(stream) : stream[j].version = market, fetched[t] = market,
         stream' = Append(stream, [version |-> fetched[t], retry |-> 0])
  PROVE  /\ Len(stream') = Len(stream) + 1
         /\ \A j \in i .. Len(stream') : stream'[j].version = market
<1>1. stream \in Seq(Entry) /\ Len(stream) \in Nat
  BY LagTypes
<1>2. PICK e : e = [version |-> fetched[t], retry |-> 0]
  OBVIOUS
<1>3. e \in Entry /\ e.version = market
  BY <1>2, ConstantsAssumption DEF Entry
<1>4. /\ Len(stream') = Len(stream) + 1 /\ stream'[Len(stream) + 1] = e
      /\ \A j \in 1 .. Len(stream) : stream'[j] = stream[j]
  BY <1>1, <1>2, <1>3
<1>5. ASSUME NEW j \in i .. Len(stream) + 1 PROVE stream'[j].version = market
  <2>1. CASE j = Len(stream) + 1
    BY <1>3, <1>4, <2>1
  <2>2. CASE j # Len(stream) + 1
    BY <1>1, <1>4, <2>2
  <2> QED BY <2>1, <2>2
<1> QED BY <1>4, <1>5

LEMMA ClearTask ==
  ASSUME TypeInv, IdleOK, QueueOK, NEW t \in Tasks, TaskMoved(t), NEW r \in Nat, Clear(r)
  PROVE  Clear(r)'
<1>0. /\ NoneOld /\ RawIn(r) /\ market' = market /\ Waiting' = Waiting
      /\ UNCHANGED <<pricing, effort, priced, life>>
  BY DEF Clear, TaskMoved, Waiting
<1>1. NoneOld' /\ RawIn(r)'
  BY <1>0, RawKept
<1>t. /\ r \in Nat /\ Waiting \in Nat /\ TaskTime \in Nat \ {0} /\ hashLife \in Nat /\ Len(stream) \in Nat
      /\ effort \in Nat
      /\ \A u \in Tasks : age[u] \in Nat /\ age[u] <= TaskTime
      /\ \A u \in Tasks : stage[u] \in Working => fetched[u] = market /\ fetched[u] \in 1 .. market
  <2>1. \A u \in Tasks : stage[u] \in Working => fetched[u] = market
    BY <1>0, LagTypes DEF NoneOld
  <2>2. market \in 1 .. market
    BY LagNumbers
  <2> QED BY <2>1, <2>2, LagTypes
<1>2. CASE PricedIn
  <2>1. PICK k \in Nat : k < life /\ RawIn(k)
    BY <1>2 DEF PricedIn
  <2>2. RawIn(k)'
    BY <1>0, <2>1, RawKept
  <2>3. \A i \in 1 .. Len(stream') : stream'[i].version = market
    <3>1. CASE stage[t] # "publish"
      <4>1. stream' = stream
        BY <3>1 DEF TaskMoved
      <4> QED BY <1>2, <4>1 DEF PricedIn
    <3>2. CASE stage[t] = "publish"
      <4>1. stream' = Append(stream, [version |-> fetched[t], retry |-> 0])
        BY <3>2 DEF TaskMoved
      <4>2. 1 \in 1 .. Len(stream) + 1 /\ fetched[t] = market /\ fetched[t] \in 1 .. market
        BY <1>t, <3>2 DEF Working
      <4> QED BY <1>2, <4>1, <4>2, OneMore DEF PricedIn
    <3> QED BY <3>1, <3>2
  <2>4. PricedIn'
    BY <1>0, <1>2, <2>1, <2>2, <2>3 DEF PricedIn
  <2> QED BY <1>1, <2>4 DEF Clear
<1>3. CASE EntryIn(r)
  <2>1. PICK i \in 1 .. Len(stream) : /\ \A j \in i .. Len(stream) : stream[j].version = market
                                      /\ i <= r + effort
                                      /\ i = 1 => pricing \in {"idle", "price"}
    BY <1>3 DEF EntryIn
  <2>2. i \in 1 .. Len(stream') /\ \A j \in i .. Len(stream') : stream'[j].version = market
    <3>1. CASE stage[t] # "publish"
      <4>1. stream' = stream
        BY <3>1 DEF TaskMoved
      <4> QED BY <2>1, <4>1
    <3>2. CASE stage[t] = "publish"
      <4>1. stream' = Append(stream, [version |-> fetched[t], retry |-> 0])
        BY <3>2 DEF TaskMoved
      <4>2. i \in 1 .. Len(stream) + 1 /\ fetched[t] = market /\ fetched[t] \in 1 .. market
        BY <1>t, <2>1, <3>2 DEF Working
      <4>3. Len(stream') = Len(stream) + 1 /\ \A j \in i .. Len(stream') : stream'[j].version = market
        BY <2>1, <4>1, <4>2, OneMore
      <4> QED BY <1>t, <4>2, <4>3
    <3> QED BY <3>1, <3>2
  <2>3. EntryIn(r)'
    BY <1>0, <2>1, <2>2 DEF EntryIn
  <2> QED BY <1>1, <2>3 DEF Clear
<1>4. ASSUME stage[t] = "publish", TaskTime + Waiting <= r + age[t] PROVE Clear(r)'
  <2>1. stream' = Append(stream, [version |-> fetched[t], retry |-> 0])
    BY <1>4 DEF TaskMoved
  <2>2. Len(stream) + 1 \in 1 .. Len(stream) + 1 /\ fetched[t] = market /\ fetched[t] \in 1 .. market
    BY <1>4, <1>t DEF Working
  <2>3. \A j \in Len(stream) + 1 .. Len(stream) : stream[j].version = market
    BY <1>t
  <2>4. PICK i : i = Len(stream) + 1
    OBVIOUS
  <2>5. Len(stream') = i /\ \A j \in i .. Len(stream') : stream'[j].version = market
    BY <2>1, <2>2, <2>3, <2>4, OneMore
  <2>6. i <= r + effort
    <3>1. t \in Running /\ IsFiniteSet(Running)
      BY <1>4 DEF Running, QueueOK
    <3>2. Cardinality(Running) \in Nat /\ Cardinality(Running) # 0
      BY <3>1, FS_CardinalityType, FS_EmptySet
    <3>3. Len(stream) + Cardinality(Running) <= Waiting + effort
      BY <1>t, <3>2 DEF QueueOK
    <3>4. Waiting <= r
      BY <1>4, <1>t
    <3> QED BY <1>t, <2>4, <3>2, <3>3, <3>4
  <2>7. i = 1 => pricing = "idle"
    BY <1>t, <2>4, LagTypes
  <2>8. EntryIn(r)'
    BY <1>0, <1>t, <2>4, <2>5, <2>6, <2>7 DEF EntryIn
  <2> QED BY <1>1, <2>8 DEF Clear
<1>5. ASSUME NEW u \in Tasks, stage[u] \in {"hash", "persist", "publish"},
             TaskTime + Waiting <= r + age[u], u # t \/ stage[t] # "publish"
      PROVE  Clear(r)'
  <2>1. stage'[u] \in {"hash", "persist", "publish"} /\ age'[u] = age[u]
    BY <1>5 DEF TaskMoved
  <2>2. TaskIn(r)'
    BY <1>0, <1>5, <2>1 DEF TaskIn
  <2> QED BY <1>1, <2>2 DEF Clear
<1>6. ASSUME stage[t] = "hash", TaskTime + Waiting <= r PROVE Clear(r)'
  <2>1. TaskTime + Waiting <= r + age[t]
    BY <1>6, <1>t
  <2> QED BY <1>5, <1>6, <2>1
<1>7. ASSUME NEW u \in Tasks, hash # market, stage[u] \in {"fetch", "raw", "compare"},
             2 * TaskTime + Waiting <= r + age[u]
      PROVE  Clear(r)'
  <2>1. CASE stage[t] = "hash"
    <3>1. TaskTime + Waiting <= r
      <4>1. age[u] \in Nat /\ age[u] <= TaskTime
        BY <1>t
      <4> QED BY <1>7, <1>t, <4>1
    <3> QED BY <1>6, <2>1, <3>1
  <2>2. CASE stage[t] # "hash"
    <3>1. hash' = hash
      BY <2>2 DEF TaskMoved, keys
    <3>2. CASE u = t /\ stage[t] = "compare"
      <4>1. stage'[t] = "hash" /\ age'[t] = age[t]
        BY <1>7, <1>t, <3>2 DEF TaskMoved, Working
      <4>2. TaskTime + Waiting <= r + age'[t]
        <5>1. age[t] \in Nat
          BY <1>t
        <5> QED BY <1>7, <1>t, <3>2, <4>1, <5>1
      <4>3. TaskIn(r)'
        BY <1>0, <4>1, <4>2 DEF TaskIn
      <4> QED BY <1>1, <4>3 DEF Clear
    <3>3. CASE u # t \/ stage[t] # "compare"
      <4>1. stage'[u] \in {"fetch", "raw", "compare"} /\ age'[u] = age[u]
        BY <1>7, <3>3 DEF TaskMoved
      <4>2. TaskIn(r)'
        BY <1>0, <1>7, <3>1, <4>1 DEF TaskIn
      <4> QED BY <1>1, <4>2 DEF Clear
    <3> QED BY <3>2, <3>3
  <2> QED BY <2>1, <2>2
<1>8. CASE TaskIn(r)
  BY <1>4, <1>5, <1>7, <1>8 DEF TaskIn
<1>9. CASE PollIn(r)
  <2>1. CASE stage[t] = "hash"
    <3>1. TaskTime + Waiting <= r
      BY <1>9, <1>t DEF PollIn, ToPoll
    <3> QED BY <1>6, <2>1, <3>1
  <2>2. CASE stage[t] = "idle"
    <3>1. /\ stage'[t] = "fetch" /\ age'[t] = age[t] /\ age[t] = 0 /\ ~polled /\ hash' = hash
      BY <2>2 DEF TaskMoved, IdleOK, keys
    <3>2. 2 * TaskTime + Waiting <= r + age'[t] /\ hash' # market
      BY <1>9, <1>t, <3>1 DEF PollIn, ToPoll
    <3>3. TaskIn(r)'
      BY <1>0, <3>1, <3>2 DEF TaskIn
    <3> QED BY <1>1, <3>3 DEF Clear
  <2>3. CASE stage[t] \notin {"hash", "idle"}
    <3>1. hash' = hash /\ polled' = polled
      BY <2>3 DEF TaskMoved, keys
    <3>2. PollIn(r)'
      BY <1>0, <1>9, <3>1 DEF PollIn, ToPoll
    <3> QED BY <1>1, <3>2 DEF Clear
  <2> QED BY <2>1, <2>2, <2>3
<1>10. CASE HashIn(r)
  <2>1. CASE stage[t] = "hash"
    <3>1. TaskTime + Waiting <= r
      BY <1>10, <1>t DEF HashIn
    <3> QED BY <1>6, <2>1, <3>1
  <2>2. CASE stage[t] # "hash"
    <3>1. hash' = hash /\ hashLife' = hashLife
      BY <2>2 DEF TaskMoved, keys
    <3>2. HashIn(r)'
      BY <1>0, <1>10, <3>1 DEF HashIn
    <3> QED BY <1>1, <3>2 DEF Clear
  <2> QED BY <2>1, <2>2
<1> QED BY <1>2, <1>3, <1>8, <1>9, <1>10 DEF Clear

\* So does a step of the subscriber that does not fail.
LEMMA ClearPricer ==
  ASSUME TypeInv, IdleOK, PricingTime = 1, Cycle <= PricedTtl,
         Take \/ Price \/ Announce \/ Notify, NEW r \in Nat, Clear(r)
  PROVE  Clear(r)'
<1>0. /\ NoneOld /\ RawIn(r) /\ Waiting' = Waiting
      /\ UNCHANGED <<market, polled, stage, fetched, age, raw, hash, hashLife>>
  BY DEF Clear, Take, Price, Announce, Notify, celery, keys, Waiting
<1>1. NoneOld' /\ ToPoll' = ToPoll
  BY <1>0 DEF NoneOld, ToPoll
<1>2. ASSUME NEW k \in Nat, RawIn(k) PROVE RawIn(k)'
  BY <1>0, <1>1, <1>2 DEF RawIn
<1>3. RawIn(r)'
  BY <1>0, <1>2
<1>4. TaskIn(r) \/ PollIn(r) \/ HashIn(r) => (TaskIn(r) \/ PollIn(r) \/ HashIn(r))'
  BY <1>0, <1>1 DEF TaskIn, PollIn, HashIn
<1>t. /\ stream \in Seq(Entry) /\ Len(stream) \in Nat /\ (pricing # "idle" => Len(stream) # 0)
      /\ effort \in Nat /\ effort <= 1
  BY LagTypes
<1>5. ASSUME PricedIn, ~Price PROVE PricedIn'
  <2>1. PICK k \in Nat : k < life /\ RawIn(k)
    BY <1>5 DEF PricedIn
  <2>2. RawIn(k)'
    BY <1>2, <2>1
  <2>3. UNCHANGED <<priced, life>> /\ (stream' = stream \/ Notify)
    BY <1>5 DEF Take, Announce, Notify
  <2>4. \A i \in 1 .. Len(stream') : stream'[i].version = market
    <3>1. CASE stream' = stream
      BY <1>5, <3>1 DEF PricedIn
    <3>2. CASE Notify
      <4>1. stream' = Tail(stream) /\ Len(stream) # 0
        BY <1>t, <3>2 DEF Notify
      <4>2. Len(stream') = Len(stream) - 1 /\ \A i \in 1 .. Len(stream') : stream'[i] = stream[i + 1]
        BY <1>t, <4>1
      <4>3. \A i \in 1 .. Len(stream') : i + 1 \in 1 .. Len(stream)
        BY <1>t, <4>2
      <4> QED BY <1>5, <4>2, <4>3 DEF PricedIn
    <3> QED BY <2>3, <3>1, <3>2
  <2> QED BY <1>0, <1>5, <2>1, <2>2, <2>3, <2>4 DEF PricedIn
<1>6. ASSUME Price, stream[1].version = market, \A i \in 1 .. Len(stream) : stream[i].version = market
      PROVE  PricedIn'
  <2>1. priced' = market /\ life' = PricedTtl /\ stream' = stream
    <3>1. Head(stream) = stream[1]
      BY <1>t, <1>6 DEF Price
    <3> QED BY <1>6, <3>1 DEF Price
  <2>2. TaskTime + 1 \in Nat /\ TaskTime + 1 < PricedTtl
    <3>1. HashTtl + 1 + 2 * TaskTime + 1 <= PricedTtl
      BY DEF Cycle
    <3>2. HashTtl \in Nat /\ TaskTime \in Nat \ {0} /\ PricedTtl \in Nat
      BY ConstantsAssumption
    <3> QED BY <3>1, <3>2
  <2>3. RawIn(TaskTime + 1)'
    <3>1. ToPoll' + TaskTime <= TaskTime + 1
      BY <1>1, LagNumbers DEF ToPoll
    <3> QED BY <3>1 DEF RawIn
  <2>4. \E k \in Nat : k < PricedTtl /\ RawIn(k)'
    BY <2>2, <2>3
  <2> QED BY <1>0, <1>6, <2>1, <2>4 DEF PricedIn
<1>7. CASE PricedIn
  <2>1. CASE Price
    <3>1. 1 \in 1 .. Len(stream)
      BY <1>t, <2>1 DEF Price
    <3>2. PricedIn'
      BY <1>6, <1>7, <2>1, <3>1 DEF PricedIn
    <3> QED BY <1>1, <1>3, <3>2 DEF Clear
  <2> QED BY <1>1, <1>3, <1>5, <1>7, <2>1 DEF Clear
<1>8. CASE EntryIn(r)
  <2>1. PICK i \in 1 .. Len(stream) : /\ \A j \in i .. Len(stream) : stream[j].version = market
                                      /\ i <= r + effort
                                      /\ i = 1 => pricing \in {"idle", "price"}
    BY <1>8 DEF EntryIn
  <2>2. CASE Price /\ i = 1
    <3>1. PricedIn'
      BY <1>6, <2>1, <2>2
    <3> QED BY <1>1, <1>3, <3>1 DEF Clear
  <2>3. CASE Take \/ Announce \/ (Price /\ i # 1)
    <3>1. /\ stream' = stream /\ effort' = effort
          /\ i = 1 => pricing' \in {"idle", "price"}
      BY <2>1, <2>3 DEF Take, Announce, Price, IdleOK
    <3>2. EntryIn(r)'
      BY <1>0, <2>1, <3>1 DEF EntryIn
    <3> QED BY <1>1, <1>3, <3>2 DEF Clear
  <2>4. CASE Notify
    <3>1. /\ stream' = Tail(stream) /\ Len(stream) # 0 /\ pricing = "notify" /\ pricing' = "idle"
          /\ effort' = 0
      BY <1>t, <2>4 DEF Notify
    <3>2. Len(stream') = Len(stream) - 1 /\ \A j \in 1 .. Len(stream') : stream'[j] = stream[j + 1]
      BY <1>t, <3>1
    <3>3. i # 1
      BY <2>1, <3>1
    <3>4. PICK h : h = i - 1
      OBVIOUS
    <3>5. h \in 1 .. Len(stream') /\ h <= r + effort'
      BY <1>t, <2>1, <3>1, <3>2, <3>3, <3>4
    <3>6. \A j \in h .. Len(stream') : stream'[j].version = market
      <4>1. \A j \in h .. Len(stream') : j \in 1 .. Len(stream') /\ j + 1 \in i .. Len(stream)
        BY <1>t, <2>1, <3>2, <3>4, <3>5
      <4> QED BY <2>1, <3>2, <4>1
    <3>7. EntryIn(r)'
      BY <1>0, <3>1, <3>5, <3>6 DEF EntryIn
    <3> QED BY <1>1, <1>3, <3>7 DEF Clear
  <2> QED BY <2>2, <2>3, <2>4
<1> QED BY <1>0, <1>1, <1>3, <1>4, <1>7, <1>8 DEF Clear

\* A tick brings it nearer, unless it has come.
LEMMA ClearTick ==
  ASSUME TypeInv, IdleOK, PricingTime = 1, Tick, ~Current, NEW r \in Nat, Clear(r)
  PROVE  r # 0 /\ Clear(r - 1)'
<1>0. /\ NoneOld /\ RawIn(r) /\ Waiting' = Waiting
      /\ polled /\ ~polled' /\ ToPoll = 1 /\ ToPoll' = 0
      /\ UNCHANGED <<market, stage, fetched, raw, stream, pricing>>
      /\ \A t \in Tasks : stage[t] # "idle" => age[t] < TaskTime /\ age'[t] = age[t] + 1
      /\ pricing # "idle" => effort < 1 /\ effort' = effort + 1
      /\ pricing = "idle" => stream = <<>>
      /\ hashLife' = Down(hashLife) /\ hash' = IF hashLife <= 1 THEN 0 ELSE hash
      /\ life' = Down(life) /\ priced' = IF life <= 1 THEN 0 ELSE priced
  BY DEF Clear, Tick, Waiting, ToPoll
<1>t. /\ market \in Nat \ {0} /\ TaskTime \in Nat \ {0} /\ Waiting \in Nat \ {0}
      /\ \A t \in Tasks : age[t] \in Nat
      /\ hashLife \in Nat /\ (hash = 0 <=> hashLife = 0) /\ life \in Nat /\ effort \in Nat
      /\ Len(stream) \in Nat /\ (stream = <<>> <=> Len(stream) = 0)
  BY LagNumbers, LagTypes
<1>1. NoneOld'
  BY <1>0 DEF NoneOld
<1>2. ASSUME NEW k \in Nat, RawIn(k), raw # market PROVE k # 0 /\ RawIn(k - 1)'
  <2>1. CASE ToPoll + TaskTime <= k
    <3>1. k # 0 /\ ToPoll' + TaskTime <= k - 1
      BY <1>0, <1>t, <2>1
    <3> QED BY <3>1 DEF RawIn
  <2>2. ASSUME NEW t \in Tasks, stage[t] \in {"fetch", "raw"}, TaskTime <= k + age[t]
        PROVE  k # 0 /\ RawIn(k - 1)'
    <3>1. stage'[t] = stage[t] /\ age[t] < TaskTime /\ age'[t] = age[t] + 1 /\ age[t] \in Nat
      BY <1>0, <1>t, <2>2
    <3>2. k # 0 /\ TaskTime <= k - 1 + age'[t]
      BY <1>t, <2>2, <3>1
    <3> QED BY <2>2, <3>1, <3>2 DEF RawIn
  <2> QED BY <1>2, <2>1, <2>2 DEF RawIn
<1>3. RawIn(r - 1)'
  <2>1. CASE raw = market
    BY <1>0, <2>1 DEF RawIn
  <2> QED BY <1>0, <1>2, <2>1
<1>4. CASE PricedIn
  <2>1. PICK k \in Nat : k < life /\ RawIn(k)
    BY <1>4 DEF PricedIn
  <2>2. raw # market
    BY <1>4 DEF PricedIn, Current
  <2>3. r # 0 /\ k # 0 /\ RawIn(k - 1)'
    BY <1>0, <1>2, <2>1, <2>2
  <2>4. k - 1 \in Nat /\ life' = life - 1 /\ priced' = priced /\ k - 1 < life'
    BY <1>0, <1>t, <2>1, <2>3 DEF Down
  <2>5. PricedIn'
    BY <1>0, <1>4, <2>3, <2>4 DEF PricedIn
  <2> QED BY <1>1, <1>3, <2>3, <2>5 DEF Clear
<1>5. CASE EntryIn(r)
  <2>1. PICK i \in 1 .. Len(stream) : /\ \A j \in i .. Len(stream) : stream[j].version = market
                                      /\ i <= r + effort
                                      /\ i = 1 => pricing \in {"idle", "price"}
    BY <1>5 DEF EntryIn
  <2>2. pricing # "idle" /\ effort = 0 /\ effort' = 1
    BY <1>0, <1>t, <2>1
  <2>3. r # 0 /\ i <= r - 1 + effort'
    BY <1>t, <2>1, <2>2
  <2>4. EntryIn(r - 1)'
    BY <1>0, <2>1, <2>3 DEF EntryIn
  <2> QED BY <1>1, <1>3, <2>3, <2>4 DEF Clear
<1>6. CASE TaskIn(r)
  <2>1. PICK t \in Tasks :
          \/ stage[t] \in {"hash", "persist", "publish"} /\ TaskTime + Waiting <= r + age[t]
          \/ /\ hash # market /\ stage[t] \in {"fetch", "raw", "compare"}
             /\ 2 * TaskTime + Waiting <= r + age[t]
    BY <1>6 DEF TaskIn
  <2>2. stage'[t] = stage[t] /\ age[t] < TaskTime /\ age'[t] = age[t] + 1 /\ age[t] \in Nat
    BY <1>0, <1>t, <2>1
  <2>3. r # 0
    BY <1>t, <2>1, <2>2
  <2>4. hash # market => hash' # market
    BY <1>0, <1>t
  <2>5. /\ TaskTime + Waiting <= r + age[t] => TaskTime + Waiting <= r - 1 + age'[t]
        /\ 2 * TaskTime + Waiting <= r + age[t] => 2 * TaskTime + Waiting <= r - 1 + age'[t]
    BY <1>t, <2>2
  <2>6. TaskIn(r - 1)'
    BY <1>0, <2>1, <2>2, <2>4, <2>5 DEF TaskIn
  <2> QED BY <1>1, <1>3, <2>3, <2>6 DEF Clear
<1>7. CASE PollIn(r)
  <2>1. hash' # market
    BY <1>0, <1>7, <1>t DEF PollIn
  <2>2. r # 0 /\ ToPoll' + 2 * TaskTime + Waiting <= r - 1
    BY <1>0, <1>7, <1>t DEF PollIn
  <2>3. PollIn(r - 1)'
    BY <1>0, <2>1, <2>2 DEF PollIn
  <2> QED BY <1>1, <1>3, <2>2, <2>3 DEF Clear
<1>8. CASE HashIn(r)
  <2>1. hash = market /\ hashLife # 0 /\ hashLife + 2 * TaskTime + Waiting <= r
    BY <1>8, <1>t DEF HashIn
  <2>2. r # 0
    BY <1>t, <2>1
  <2>3. CASE hashLife = 1
    <3>1. hash' # market /\ ToPoll' + 2 * TaskTime + Waiting <= r - 1
      BY <1>0, <1>t, <2>1, <2>3
    <3>2. PollIn(r - 1)'
      BY <1>0, <3>1 DEF PollIn
    <3> QED BY <1>1, <1>3, <2>2, <3>2 DEF Clear
  <2>4. CASE hashLife # 1
    <3>1. hash' = market /\ hashLife' = hashLife - 1
      BY <1>0, <1>t, <2>1, <2>4 DEF Down
    <3>2. hashLife' + 2 * TaskTime + Waiting <= r - 1
      BY <1>t, <2>1, <3>1
    <3>3. HashIn(r - 1)'
      BY <1>0, <3>1, <3>2 DEF HashIn
    <3> QED BY <1>1, <1>3, <2>2, <3>3 DEF Clear
  <2> QED BY <2>3, <2>4
<1> QED BY <1>4, <1>5, <1>6, <1>7, <1>8 DEF Clear

\* While a task may hold an old chain: it ends, and what follows takes its course.
LEMMA MixedTick ==
  ASSUME TypeInv, IdleOK, Tick, NEW r \in Nat, Mixed(r)
  PROVE  r # 0 /\ Soon(r - 1)'
<1>0. /\ Waiting' = Waiting /\ Course' = Course /\ ToPoll' = 0
      /\ UNCHANGED <<market, stage, fetched, raw, stream, pricing>>
      /\ \A t \in Tasks : stage[t] # "idle" => age[t] < TaskTime /\ age'[t] = age[t] + 1
      /\ hashLife' = Down(hashLife) /\ hash' = IF hashLife <= 1 THEN 0 ELSE hash
  BY DEF Tick, Waiting, Course, ToPoll
<1>t. /\ TaskTime \in Nat \ {0} /\ Waiting \in Nat \ {0} /\ HashTtl \in Nat \ {0}
      /\ Course = HashTtl + 2 * TaskTime + Waiting /\ hashLife \in Nat /\ hashLife <= HashTtl
      /\ Course <= r /\ market # 0 /\ Course \in Nat
  BY LagNumbers DEF Mixed
<1>1. r # 0
  BY <1>t
<1>2. ASSUME NEW t \in Tasks, fetched[t] \notin {0, market}
      PROVE  Course <= r - 1 /\ TaskTime + Course <= r - 1 + age'[t]
  <2>1. age[t] < TaskTime /\ age'[t] = age[t] + 1 /\ age[t] \in Nat
    BY <1>0, <1>2, LagTypes DEF IdleOK
  <2>2. TaskTime + Course <= r + age[t]
    BY <1>2 DEF Mixed
  <2> QED BY <1>t, <2>1, <2>2
<1>3. CASE \E t \in Tasks : fetched[t] \notin {0, market}
  <2>1. Mixed(r - 1)'
    BY <1>0, <1>2, <1>3 DEF Mixed
  <2> QED BY <1>1, <2>1 DEF Soon
<1>4. CASE \A t \in Tasks : fetched[t] \in {0, market}
  <2>1. NoneOld'
    BY <1>0, <1>4 DEF NoneOld
  <2>2. RawIn(r - 1)'
    <3>1. ToPoll' + TaskTime <= r - 1
      BY <1>0, <1>t
    <3> QED BY <3>1 DEF RawIn
  <2>3. CASE hash' = market
    <3>1. hashLife' + 2 * TaskTime + Waiting <= r - 1
      BY <1>0, <1>t, <2>3 DEF Down
    <3>2. HashIn(r - 1)'
      BY <1>0, <2>3, <3>1 DEF HashIn
    <3> QED BY <1>1, <2>1, <2>2, <3>2 DEF Soon, Clear
  <2>4. CASE hash' # market
    <3>1. ToPoll' + 2 * TaskTime + Waiting <= r - 1
      BY <1>0, <1>t
    <3>2. PollIn(r - 1)'
      BY <1>0, <2>4, <3>1 DEF PollIn
    <3> QED BY <1>1, <2>1, <2>2, <3>2 DEF Soon, Clear
  <2> QED BY <2>3, <2>4
<1> QED BY <1>3, <1>4

\* A step that is no tick, no failure and no move of the market.
LEMMA SoonKept ==
  ASSUME TypeInv, IdleOK, QueueOK, PricingTime = 1, Cycle <= PricedTtl, NEW r \in Nat, Soon(r),
         (\E t \in Tasks : TaskMoved(t)) \/ Take \/ Price \/ Announce \/ Notify
  PROVE  Soon(r)' /\ UNCHANGED <<lag, failures>>
<1>0. UNCHANGED <<market, lag, failures>>
  BY DEF TaskMoved, Take, Price, Announce, Notify
<1>1. Course' = Course
  BY <1>0 DEF Course, Waiting
<1>2. CASE Mixed(r)
  <2>1. \A t \in Tasks : fetched'[t] \notin {0, market}
                           => fetched[t] = fetched'[t] /\ age'[t] = age[t]
    <3> TAKE t \in Tasks
    <3>1. CASE TaskMoved(t)
      BY <3>1 DEF TaskMoved
    <3>2. ASSUME NEW u \in Tasks, TaskMoved(u), u # t PROVE fetched[t] = fetched'[t] /\ age'[t] = age[t]
      BY <3>2 DEF TaskMoved
    <3>3. CASE Take \/ Price \/ Announce \/ Notify
      BY <3>3 DEF Take, Price, Announce, Notify, celery
    <3> QED BY <3>1, <3>2, <3>3
  <2>2. Mixed(r)'
    BY <1>0, <1>1, <1>2, <2>1 DEF Mixed
  <2> QED BY <1>0, <2>2 DEF Soon
<1>3. CASE Clear(r)
  <2>1. Clear(r)'
    BY <1>3, ClearTask, ClearPricer
  <2> QED BY <1>0, <2>1 DEF Soon
<1> QED BY <1>2, <1>3 DEF Soon

LEMMA Products ==
  ASSUME NEW w \in Nat, NEW f \in Nat
  PROVE  w <= w * (1 + f) /\ w * (1 + f) + w + 1 <= (w + 1) * (1 + (f + 1))
<1>1. w * f \in Nat
  OBVIOUS
<1>2. w * (1 + f) = w + w * f
  OBVIOUS
<1>3. (w + 1) * (1 + (f + 1)) = w * f + 2 * w + f + 2
  OBVIOUS
<1> QED BY <1>1, <1>2, <1>3

\* At most the whole way is left, whatever happened.
LEMMA Anew ==
  ASSUME TypeInv
  PROVE  TaskTime + Course \in Nat /\ Soon(TaskTime + Course)
<1>1. \A t \in Tasks : age[t] \in Nat
  BY LagTypes
<1>2. TaskTime \in Nat /\ Course \in Nat
  BY LagNumbers
<1>3. /\ Course <= TaskTime + Course
      /\ \A t \in Tasks : TaskTime + Course <= TaskTime + Course + age[t]
  BY <1>1, <1>2
<1> QED BY <1>2, <1>3 DEF Soon, Mixed

LEMMA InTimeStep ==
  ASSUME TypeInv, TypeInv', [Next]_vars, IdleOK, QueueOK, InTime, PricingTime = 1, Cycle <= PricedTtl
  PROVE  InTime'
<1>t. /\ lag \in Nat /\ failures \in Nat /\ TaskTime \in Nat /\ Course \in Nat
      /\ Course = HashTtl + 2 * TaskTime + TaskTime + 1 + failures
      /\ Course' = HashTtl + 2 * TaskTime + TaskTime + 1 + failures'
      /\ HashTtl \in Nat
  <2>1. /\ Course = HashTtl + 2 * TaskTime + (TaskTime + 1 + failures)
        /\ Course' = HashTtl + 2 * TaskTime + (TaskTime + 1 + failures')
    BY DEF Course, Waiting
  <2>2. /\ lag \in Nat /\ failures \in Nat /\ TaskTime \in Nat /\ HashTtl \in Nat
        /\ Course = HashTtl + 2 * TaskTime + Waiting /\ Waiting \in Nat
    BY LagNumbers
  <2>3. failures' \in Nat
    BY DEF TypeInv, TypeOK
  <2> QED BY <2>1, <2>2, <2>3
<1>a. \A t \in Tasks : age'[t] \in Nat
  BY ConstantsAssumption DEF TypeInv, TypeOK
<1>v. ASSUME NEW v \in Nat, v = (TaskTime + Course)', Course' \in Nat PROVE Soon(v)'
  <2>1. Course' <= v /\ \A t \in Tasks : TaskTime + Course' <= v + age'[t]
    BY <1>t, <1>a, <1>v
  <2> QED BY <2>1 DEF Soon, Mixed
<1>1. PICK r \in Nat : lag + r <= (TaskTime + Course) * (1 + failures) /\ Soon(r)
  BY DEF InTime
<1>2. PICK w \in Nat : w = TaskTime + Course
  BY <1>t
<1>p. w * (1 + failures) \in Nat /\ w <= w * (1 + failures)
  BY <1>t, <1>2, Products
<1>3. ASSUME lag' = 0, failures' = failures PROVE InTime'
  <2>1. PICK v : v = (TaskTime + Course)'
    OBVIOUS
  <2>2. v = w /\ v \in Nat /\ Soon(v)'
    <3>1. v = w /\ v \in Nat /\ Course' \in Nat
      BY <1>t, <1>2, <1>3, <2>1
    <3> QED BY <1>v, <2>1, <3>1
  <2>3. lag' + w <= (TaskTime + Course)' * (1 + failures')
    BY <1>p, <1>2, <1>3, <2>1, <2>2
  <2> QED BY <2>2, <2>3 DEF InTime
<1>4. ASSUME failures' = failures + 1, lag' = lag PROVE InTime'
  <2>1. PICK v : v = (TaskTime + Course)'
    OBVIOUS
  <2>2. v = w + 1 /\ v \in Nat /\ Soon(v)'
    <3>1. v = w + 1 /\ v \in Nat /\ Course' \in Nat
      BY <1>t, <1>2, <1>4, <2>1
    <3> QED BY <1>v, <2>1, <3>1
  <2>3. lag' + v <= (TaskTime + Course)' * (1 + failures')
    <3>1. w * (1 + failures) + w + 1 <= (w + 1) * (1 + (failures + 1))
      BY <1>t, <1>2, Products
    <3>2. lag <= w * (1 + failures)
      BY <1>1, <1>2, <1>t, <1>p
    <3>3. (TaskTime + Course)' * (1 + failures') = (w + 1) * (1 + (failures + 1))
      BY <1>4, <2>1, <2>2
    <3> QED BY <1>t, <1>p, <1>4, <2>2, <3>1, <3>2, <3>3
  <2> QED BY <2>2, <2>3 DEF InTime
<1>5. CASE (\E t \in Tasks : TaskMoved(t)) \/ Take \/ Price \/ Announce \/ Notify
  <2>1. Soon(r)' /\ UNCHANGED <<lag, failures>>
    BY <1>1, <1>5, SoonKept
  <2>2. (TaskTime + Course)' = TaskTime + Course
    BY <2>1 DEF Course, Waiting
  <2> QED BY <1>1, <2>1, <2>2 DEF InTime
<1>6. CASE UNCHANGED vars
  BY <1>6 DEF InTime, Soon, Mixed, Clear, NoneOld, ToPoll, RawIn, PricedIn, EntryIn, TaskIn, PollIn, HashIn,
              Course, Waiting, vars, celery, keys, pricer
<1>7. CASE Tick
  <2>1. CASE Current
    BY <1>3, <1>7, <2>1 DEF Tick
  <2>2. CASE ~Current
    <3>1. lag' = lag + 1 /\ failures' = failures
      BY <1>7, <2>2 DEF Tick
    <3>2. r # 0 /\ Soon(r - 1)'
      <4>1. CASE Mixed(r)
        BY <1>7, <4>1, MixedTick
      <4>2. CASE Clear(r)
        <5>1. r # 0 /\ Clear(r - 1)'
          BY <1>7, <2>2, <4>2, ClearTick
        <5> QED BY <5>1 DEF Soon
      <4> QED BY <1>1, <4>1, <4>2 DEF Soon
    <3>3. (TaskTime + Course)' = TaskTime + Course
      BY <3>1 DEF Course, Waiting
    <3>4. r - 1 \in Nat /\ lag' + (r - 1) = lag + r
      BY <1>t, <3>1, <3>2
    <3> QED BY <1>1, <3>1, <3>2, <3>3, <3>4 DEF InTime
  <2> QED BY <2>1, <2>2
<1>8. CASE Move
  BY <1>3, <1>8 DEF Move
<1>9. ASSUME NEW t \in Tasks, TaskFails(t) PROVE InTime'
  BY <1>4, <1>9 DEF TaskFails
<1>10. CASE HandlerFails
  BY <1>4, <1>10 DEF HandlerFails
<1> QED BY <1>5, <1>6, <1>7, <1>8, <1>9, <1>10, LagSteps

\* What the others do leaves a component alone.
LEMMA ServicesParts ==
  ASSUME [ServicesNext]_allVars
  PROVE  /\ [Next]_vars /\ [Slot!Next]_slotVars /\ [Delivery!Next]_deliveryVars
         /\ [Tab!Next]_tabVars /\ [Socket!Next]_socketVars /\ [Login!Next]_loginVars
BY DEF ServicesNext, allVars

(* The priced chain neither goes away nor falls behind without a reason, as *)
(* long as its TTL covers a whole cycle and an entry is priced within one   *)
(* interval of the poll.                                                    *)
THEOREM TimelyTheorem ==
  ASSUME Cycle <= PricedTtl, PricingTime = 1
  PROVE  ServicesSpec => []ChainIsTimely
<1>1. 2 * PricingTime < PricedTtl
  <2>1. HashTtl + 1 + 2 * TaskTime + 1 <= PricedTtl
    BY DEF Cycle
  <2> QED BY <2>1, ConstantsAssumption
<1>2. Init => TypeInv /\ LagInv
  <2> SUFFICES ASSUME Init PROVE TypeInv /\ LagInv
    OBVIOUS
  <2>1. TypeInv
    BY TypeInit
  <2>2. IdleOK
    BY DEF Init, IdleOK
  <2>3. QueueOK
    <3>1. Running = {}
      BY DEF Init, Running
    <3>2. IsFiniteSet(Running) /\ Cardinality(Running) = 0
      BY <3>1, FS_EmptySet
    <3>3. Len(stream) = 0 /\ effort = 0
      BY DEF Init
    <3>4. Waiting \in Nat \ {0}
      BY <2>1, LagNumbers
    <3> QED BY <3>1, <3>2, <3>3, <3>4 DEF QueueOK
  <2>4. InTime
    <3>1. PICK v \in Nat : v = TaskTime + Course
      BY <2>1, Anew
    <3>2. Soon(v)
      BY <2>1, <3>1, Anew
    <3>3. lag + v <= (TaskTime + Course) * (1 + failures)
      BY <3>1 DEF Init
    <3> QED BY <3>1, <3>2, <3>3 DEF InTime
  <2> QED BY <2>1, <2>2, <2>3, <2>4 DEF LagInv
<1>3. TypeInv /\ LagInv /\ [Next]_vars => LagInv'
  BY TypeStep, IdleStep, QueueStep, InTimeStep DEF LagInv
<1>4. TypeInv /\ LagInv => LagIsBounded
  <2> SUFFICES ASSUME TypeInv, InTime PROVE LagIsBounded
    BY DEF LagInv
  <2>1. PICK r \in Nat : lag + r <= (TaskTime + Course) * (1 + failures)
    BY DEF InTime
  <2>2. PICK v : v = (TaskTime + Course) * (1 + failures)
    OBVIOUS
  <2>3. v \in Nat /\ lag \in Nat
    <3>1. TaskTime + Course \in Nat /\ failures \in Nat /\ lag \in Nat
      BY Anew, LagNumbers
    <3> QED BY <2>2, <3>1
  <2> QED BY <2>1, <2>2, <2>3 DEF LagIsBounded
<1>5. ServicesInit => Init
  BY DEF ServicesInit
<1>6. [ServicesNext]_allVars => [Next]_vars
  BY ServicesParts
<1>7. Spec => []FreshWithoutFailures
  BY <1>1, FreshTheorem
<1>8. FreshWithoutFailures /\ LagIsBounded => ChainIsTimely
  BY DEF ChainIsTimely
<1> QED BY <1>2, <1>3, <1>4, <1>5, <1>6, <1>7, <1>8, TypeInvariant, PTL DEF Spec, ServicesSpec

-----------------------------------------------------------------------------
(* The poll slot. *)

\* How long viewers may have waited once f failures happened and b slots burnt.
WaitLimit(f, b) == Slot!LongestWait * (1 + f + b)
Limit == WaitLimit(slotFailures, burnt)

Held == \E v \in Workers : loop[v] = "claimed"

\* The time until a worker's attempt is asked for and executed, at most: a pass
\* of its loop that comes before its interval is over may put the attempt off
\* by one sleep.
UntilAttempt(w) ==
  IF loop[w] = "asking" THEN sleep[w]
  ELSE IF loop[w] = "asleep" /\ since[w] = Interval THEN sleep[w] + Delay
  ELSE (Interval - since[w]) + Period + 2 * Delay

\* A request is answered within its delay.
FlightOK ==
  \A w \in Workers :
    /\ watched[w] => loop[w] # "none"
    /\ loop[w] \in {"asking", "claimed", "refused"} => since[w] + sleep[w] = Delay

\* A claimed slot lasts longer than its dispatch takes: one loop at a time has one.
HeldOK ==
  /\ \A w \in Workers : loop[w] = "claimed" => slot + Delay >= Ttl + sleep[w]
  /\ \A v, w \in Workers : loop[v] = "claimed" /\ loop[w] = "claimed" => v = w

\* The slot is claimed for dispatches only, so what is left of it tells how
\* recent the last one is.
SlotRecent ==
  slotFailures = 0 => /\ recent + slot + Delay >= Ttl
                      /\ Held => recent + Delay >= Ttl

\* Whoever tries finds the slot free in time, or claimed by a loop about to
\* dispatch; whoever lost it to a dispatch has an interval to wait, and by then
\* it has expired.
Served(w) ==
  /\ \A v \in Workers : loop[v] = "claimed" => unserved[w] + sleep[v] <= Limit
  /\ ~Held => unserved[w] + UntilAttempt(w) + Delay <= Limit
  /\ ~Held /\ slot > 0 => unserved[w] + slot + (Interval + Period + 3 * Delay) <= Limit

WaitsOK ==
  \A w \in Workers : IF watched[w] THEN Served(w) ELSE unserved[w] = 0

SlotInv == Slot!TypeOK /\ FlightOK /\ HeldOK /\ SlotRecent /\ WaitsOK

LEMMA SlotConstants ==
  /\ Interval \in Nat \ {0} /\ Ttl \in 1 .. Interval
  /\ Period \in Nat \ {0} /\ Delay \in 0 .. Ttl - 1 /\ MaxFailures \in Nat /\ MaxBurnt \in Nat
BY ServicesAssumption DEF Slot!ConstantsAssumption

LEMMA WaitLimits ==
  /\ Slot!LongestWait \in Nat /\ Slot!LongestWait = Ttl + (Interval + Period + 3 * Delay)
  /\ \A f, b \in Nat : /\ WaitLimit(f, b) \in Nat /\ WaitLimit(f, b) >= Slot!LongestWait
                       /\ WaitLimit(f + 1, b) = WaitLimit(f, b) + Slot!LongestWait
                       /\ WaitLimit(f, b + 1) = WaitLimit(f, b) + Slot!LongestWait
<1>1. Slot!LongestWait \in Nat /\ Slot!LongestWait = Ttl + (Interval + Period + 3 * Delay)
  BY SlotConstants DEF Slot!LongestWait
<1>2. ASSUME NEW l \in Nat, NEW f \in Nat, NEW b \in Nat
      PROVE  /\ l * (1 + f + b) \in Nat /\ l * (1 + f + b) >= l
             /\ l * (1 + (f + 1) + b) = l * (1 + f + b) + l
             /\ l * (1 + f + (b + 1)) = l * (1 + f + b) + l
  OBVIOUS
<1> QED BY <1>1, <1>2 DEF WaitLimit

(* The end of a pass, whatever it did.                                     *)
LEMMA SlotSleeps ==
  ASSUME Slot!TypeOK, NEW w \in Workers, Slot!Sleep(w)
  PROVE  /\ loop' = [loop EXCEPT ![w] = "asleep"]
         /\ loop' \in [Workers -> Slot!Stages] /\ sleep' \in [Workers -> 0 .. Period + Delay]
         /\ sleep'[w] \in 0 .. Period + Delay
         /\ \A v \in Workers : v # w => sleep'[v] = sleep[v]
<1>1. PICK d \in 0 .. Delay : sleep' = [sleep EXCEPT ![w] = Period + d]
  BY DEF Slot!Sleep
<1>2. Period + d \in 0 .. Period + Delay
  BY SlotConstants
<1>3. sleep \in [Workers -> 0 .. Period + Delay] /\ loop \in [Workers -> Slot!Stages]
  BY DEF Slot!TypeOK
<1>4. loop' = [loop EXCEPT ![w] = "asleep"] /\ "asleep" \in Slot!Stages
  BY DEF Slot!Sleep, Slot!Stages
<1> QED BY <1>1, <1>2, <1>3, <1>4

LEMMA SlotTypeStep == Slot!TypeOK /\ [Slot!Next]_slotVars => Slot!TypeOK'
<1> SUFFICES ASSUME Slot!TypeOK, [Slot!Next]_slotVars PROVE Slot!TypeOK'
  OBVIOUS
<1> USE SlotConstants DEF Slot!TypeOK
<1>0. /\ 0 \in 0 .. Period + Delay /\ Delay \in 0 .. Period + Delay
      /\ Interval \in 0 .. Interval /\ 0 \in 0 .. Interval /\ 0 \in Nat
      /\ {"none", "asleep", "asking", "claimed", "refused"} \subseteq Slot!Stages
      /\ Ttl \in 0 .. Ttl /\ 0 \in 0 .. Ttl
      /\ slotFailures < MaxFailures => slotFailures + 1 \in 0 .. MaxFailures
      /\ burnt < MaxBurnt => burnt + 1 \in 0 .. MaxBurnt
  BY DEF Slot!Stages
<1>1. ASSUME NEW w \in Workers, Slot!Start(w) PROVE Slot!TypeOK'
  <2>1. (IF loop[w] = "none" THEN "asleep" ELSE loop[w]) \in Slot!Stages
    BY <1>0
  <2> QED BY <1>0, <1>1, <2>1 DEF Slot!Start
<1>2. ASSUME NEW w \in Workers, Slot!Leave(w) PROVE Slot!TypeOK'
  BY <1>0, <1>2 DEF Slot!Leave
<1>3. ASSUME NEW w \in Workers, Slot!Stop(w) PROVE Slot!TypeOK'
  <2>1. slot' \in 0 .. Ttl /\ burnt' \in 0 .. MaxBurnt
    BY <1>0, <1>3 DEF Slot!Stop, Slot!Burn
  <2>2. /\ watched' \in [Workers -> BOOLEAN] /\ loop' \in [Workers -> Slot!Stages]
        /\ since' \in [Workers -> 0 .. Interval] /\ sleep' \in [Workers -> 0 .. Period + Delay]
        /\ unserved' \in [Workers -> Nat]
        /\ UNCHANGED <<recent, slotFailures>>
    BY <1>0, <1>3 DEF Slot!Stop
  <2> QED BY <2>1, <2>2
<1>4. ASSUME NEW w \in Workers, Slot!Ask(w) PROVE Slot!TypeOK'
  BY <1>0, <1>4 DEF Slot!Ask
<1>5. ASSUME NEW w \in Workers, Slot!Claim(w) \/ Slot!Refuse(w) PROVE Slot!TypeOK'
  BY <1>0, <1>5 DEF Slot!Claim, Slot!Refuse, Slot!Executed
<1>6. ASSUME NEW w \in Workers,
             \/ Slot!Wait(w) \/ Slot!Poll(w) \/ Slot!Lose(w)
             \/ Slot!PollAnyway(w) \/ Slot!DispatchFails(w)
      PROVE  Slot!TypeOK'
  <2>1. Slot!Sleep(w) /\ UNCHANGED <<watched, since, burnt>>
    BY <1>6 DEF Slot!Wait, Slot!Poll, Slot!Lose, Slot!PollAnyway, Slot!DispatchFails
  <2>2. loop' \in [Workers -> Slot!Stages] /\ sleep' \in [Workers -> 0 .. Period + Delay]
    BY <2>1, SlotSleeps
  <2>3. slot' \in 0 .. Ttl /\ slotFailures' \in 0 .. MaxFailures
    BY <1>0, <1>6
       DEF Slot!Wait, Slot!Poll, Slot!Lose, Slot!PollAnyway, Slot!DispatchFails, Slot!Fail
  <2>4. unserved' \in [Workers -> Nat] /\ recent' \in 0 .. Interval
    BY <1>0, <1>6
       DEF Slot!Wait, Slot!Poll, Slot!Lose, Slot!PollAnyway, Slot!DispatchFails, Slot!Dispatch
  <2> QED BY <2>1, <2>2, <2>3, <2>4
<1>7. ASSUME Slot!Tick PROVE Slot!TypeOK'
  <2>1. since' \in [Workers -> 0 .. Interval] /\ sleep' \in [Workers -> 0 .. Period + Delay]
    BY <1>7 DEF Slot!Tick, Slot!Down, Slot!Up
  <2>2. unserved' \in [Workers -> Nat]
    BY <1>7 DEF Slot!Tick
  <2>3. slot' \in 0 .. Ttl /\ recent' \in 0 .. Interval
    BY <1>7 DEF Slot!Tick, Slot!Down, Slot!Up
  <2> QED BY <1>7, <2>1, <2>2, <2>3 DEF Slot!Tick
<1>8. ASSUME UNCHANGED slotVars PROVE Slot!TypeOK'
  BY <1>8 DEF slotVars
<1> QED BY <1>1, <1>2, <1>3, <1>4, <1>5, <1>6, <1>7, <1>8 DEF Slot!Next, Slot!Step

(* What a step does to a worker's loop, and to nobody else's.              *)
LEMMA SlotStepLocal ==
  ASSUME Slot!TypeOK, NEW w \in Workers, Slot!Step(w)
  PROVE  \A v \in Workers : v # w => /\ watched'[v] = watched[v] /\ loop'[v] = loop[v]
                                     /\ since'[v] = since[v] /\ sleep'[v] = sleep[v]
                                     /\ unserved'[v] = unserved[v] \/ unserved'[v] = 0
<1> USE DEF Slot!TypeOK
<1>1. CASE Slot!Start(w) \/ Slot!Leave(w) \/ Slot!Stop(w) \/ Slot!Ask(w) \/ Slot!Claim(w) \/ Slot!Refuse(w)
  BY <1>1 DEF Slot!Start, Slot!Leave, Slot!Stop, Slot!Ask, Slot!Claim, Slot!Refuse, Slot!Executed
<1>2. CASE Slot!Wait(w) \/ Slot!Poll(w) \/ Slot!Lose(w) \/ Slot!PollAnyway(w) \/ Slot!DispatchFails(w)
  <2>1. /\ Slot!Sleep(w) /\ UNCHANGED <<watched, since>>
        /\ unserved' = unserved \/ unserved' = [v \in Workers |-> 0]
    BY <1>2 DEF Slot!Wait, Slot!Poll, Slot!Lose, Slot!PollAnyway, Slot!DispatchFails, Slot!Dispatch
  <2>2. /\ loop' = [loop EXCEPT ![w] = "asleep"]
        /\ \A v \in Workers : v # w => sleep'[v] = sleep[v]
    BY <2>1, SlotSleeps
  <2> QED BY <2>1, <2>2
<1> QED BY <1>1, <1>2 DEF Slot!Step

LEMMA FlightStep == Slot!TypeOK /\ FlightOK /\ [Slot!Next]_slotVars => FlightOK'
<1> SUFFICES ASSUME Slot!TypeOK, FlightOK, [Slot!Next]_slotVars PROVE FlightOK'
  OBVIOUS
<1> DEFINE Ok(w) == /\ watched[w] => loop[w] # "none"
                    /\ loop[w] \in {"asking", "claimed", "refused"} => since[w] + sleep[w] = Delay
<1>1. ASSUME NEW w \in Workers, Slot!Step(w) PROVE FlightOK'
  <2>1. \A v \in Workers : v # w => Ok(v)'
    BY <1>1, SlotStepLocal DEF FlightOK
  <2>2. CASE Slot!Start(w) \/ Slot!Leave(w) \/ Slot!Stop(w) \/ Slot!Claim(w) \/ Slot!Refuse(w)
    <3>1. Ok(w)'
      BY <2>2 DEF Slot!TypeOK, FlightOK, Slot!Start, Slot!Leave, Slot!Stop, Slot!Claim, Slot!Refuse,
                  Slot!Executed
    <3> QED BY <2>1, <3>1 DEF FlightOK
  <2>3. CASE Slot!Ask(w)
    <3>1. since'[w] = 0 /\ sleep'[w] = Delay /\ loop'[w] = "asking"
      BY <2>3 DEF Slot!Ask, Slot!TypeOK
    <3> QED BY <2>1, <3>1, SlotConstants DEF FlightOK
  <2>4. CASE Slot!Wait(w) \/ Slot!Poll(w) \/ Slot!Lose(w) \/ Slot!PollAnyway(w) \/ Slot!DispatchFails(w)
    <3>1. Slot!Sleep(w)
      BY <2>4 DEF Slot!Wait, Slot!Poll, Slot!Lose, Slot!PollAnyway, Slot!DispatchFails
    <3>2. loop'[w] = "asleep"
      BY <3>1, SlotSleeps DEF Slot!TypeOK
    <3> QED BY <2>1, <3>2 DEF FlightOK
  <2> QED BY <1>1, <2>2, <2>3, <2>4 DEF Slot!Step
<1>2. ASSUME Slot!Tick PROVE FlightOK'
  <2>1. SUFFICES ASSUME NEW w \in Workers PROVE Ok(w)'
    BY DEF FlightOK
  <2>2. /\ watched' = watched /\ loop' = loop
        /\ since'[w] = IF since[w] < Interval THEN since[w] + 1 ELSE Interval
        /\ sleep'[w] = IF sleep[w] = 0 THEN 0 ELSE sleep[w] - 1
        /\ loop[w] # "none" => sleep[w] > 0
        /\ since[w] \in 0 .. Interval /\ sleep[w] \in 0 .. Period + Delay
    BY <1>2 DEF Slot!Tick, Slot!Up, Slot!Down, Slot!TypeOK
  <2> QED BY <2>2, SlotConstants DEF FlightOK
<1>3. CASE UNCHANGED slotVars
  BY <1>3 DEF slotVars, FlightOK
<1> QED BY <1>1, <1>2, <1>3 DEF Slot!Next

(* A claimed slot has not expired.                                         *)
LEMMA SlotHeld == Slot!TypeOK /\ HeldOK /\ Held => slot > 0
<1> SUFFICES ASSUME Slot!TypeOK, HeldOK, NEW v \in Workers, loop[v] = "claimed" PROVE slot > 0
  BY DEF Held
<1>1. slot + Delay >= Ttl + sleep[v] /\ sleep[v] \in Nat /\ slot \in Nat
  BY SlotConstants DEF HeldOK, Slot!TypeOK
<1> QED BY <1>1, SlotConstants

(* Who holds the slot after a step.                                        *)
LEMMA HeldBy ==
  ASSUME Slot!TypeOK, NEW w \in Workers, Slot!Step(w)
  PROVE  /\ Slot!Claim(w) => Held'
         /\ loop'[w] = "claimed" => loop[w] = "claimed" \/ Slot!Claim(w)
         /\ Held' => Held \/ Slot!Claim(w)
         /\ loop[w] # "claimed" /\ Held => Held'
         /\ Slot!Start(w) \/ Slot!Leave(w) => (Held <=> Held')
<1>1. \A v \in Workers : v # w => loop'[v] = loop[v]
  BY SlotStepLocal
<1>2. CASE Slot!Claim(w)
  <2>1. loop'[w] = "claimed" /\ loop[w] = "asking"
    BY <1>2 DEF Slot!Claim, Slot!Executed, Slot!TypeOK
  <2>2. ~Slot!Start(w) /\ ~Slot!Leave(w)
    BY <1>2, <2>1 DEF Slot!Claim, Slot!Executed, Slot!Start, Slot!Leave, Slot!TypeOK
  <2> QED BY <1>1, <1>2, <2>1, <2>2 DEF Held
<1>3. CASE Slot!Start(w) \/ Slot!Leave(w)
  <2>1. loop'[w] = "claimed" <=> loop[w] = "claimed"
    BY <1>3 DEF Slot!Start, Slot!Leave, Slot!TypeOK
  <2>2. ~Slot!Claim(w)
    BY <1>3 DEF Slot!Claim, Slot!Executed, Slot!Start, Slot!Leave, Slot!TypeOK
  <2> QED BY <1>1, <2>1, <2>2 DEF Held
<1>4. CASE Slot!Stop(w) \/ Slot!Ask(w) \/ Slot!Refuse(w)
  <2>1. loop'[w] # "claimed"
    BY <1>4 DEF Slot!Stop, Slot!Ask, Slot!Refuse, Slot!Executed, Slot!TypeOK
  <2>3. Slot!Claim(w) => loop'[w] = "claimed"
    BY DEF Slot!Claim, Slot!Executed, Slot!TypeOK
  <2>4. Slot!Start(w) \/ Slot!Leave(w) => (loop'[w] = "claimed" <=> loop[w] = "claimed")
    BY DEF Slot!Start, Slot!Leave, Slot!TypeOK
  <2> QED BY <1>1, <2>1, <2>3, <2>4 DEF Held
<1>5. CASE Slot!Wait(w) \/ Slot!Poll(w) \/ Slot!Lose(w) \/ Slot!PollAnyway(w) \/ Slot!DispatchFails(w)
  <2>1. Slot!Sleep(w)
    BY <1>5 DEF Slot!Wait, Slot!Poll, Slot!Lose, Slot!PollAnyway, Slot!DispatchFails
  <2>2. loop'[w] = "asleep"
    BY <2>1, SlotSleeps DEF Slot!TypeOK
  <2>3. Slot!Claim(w) => loop'[w] = "claimed"
    BY DEF Slot!Claim, Slot!Executed, Slot!TypeOK
  <2>4. Slot!Start(w) \/ Slot!Leave(w) => (loop'[w] = "claimed" <=> loop[w] = "claimed")
    BY DEF Slot!Start, Slot!Leave, Slot!TypeOK
  <2> QED BY <1>1, <2>2, <2>3, <2>4 DEF Held
<1> QED BY <1>2, <1>3, <1>4, <1>5 DEF Slot!Step

LEMMA HeldStep ==
  Slot!TypeOK /\ FlightOK /\ HeldOK /\ [Slot!Next]_slotVars => HeldOK'
<1> SUFFICES ASSUME Slot!TypeOK, FlightOK, HeldOK, [Slot!Next]_slotVars PROVE HeldOK'
  OBVIOUS
<1> DEFINE Ok(w) == loop[w] = "claimed" => slot + Delay >= Ttl + sleep[w]
<1>1. ASSUME NEW w \in Workers, Slot!Step(w) PROVE HeldOK'
  <2>1. slot \in 0 .. Ttl /\ (slot' = slot \/ slot' = Ttl)
    BY <1>1 DEF Slot!TypeOK, Slot!Step, Slot!Start, Slot!Leave, Slot!Stop, Slot!Wait, Slot!Ask, Slot!Claim,
                Slot!Refuse, Slot!Executed, Slot!Poll, Slot!Lose, Slot!PollAnyway, Slot!DispatchFails
  <2>2. ASSUME NEW v \in Workers, v # w PROVE Ok(v)'
    <3>1. loop'[v] = loop[v] /\ sleep'[v] = sleep[v] /\ sleep[v] \in Nat
      BY <1>1, <2>2, SlotStepLocal, SlotConstants DEF Slot!TypeOK
    <3>2. loop[v] = "claimed" => slot + Delay >= Ttl + sleep[v]
      BY DEF HeldOK
    <3>3. slot' >= slot /\ slot' \in Nat /\ slot \in Nat
      BY <2>1, SlotConstants
    <3> QED BY <3>1, <3>2, <3>3, SlotConstants
  <2>3. Ok(w)'
    <3>1. CASE Slot!Claim(w)
      <4>1. slot' = Ttl /\ sleep' = sleep /\ since[w] + sleep[w] = Delay
        BY <3>1 DEF Slot!Claim, Slot!Executed, FlightOK
      <4>2. since[w] \in Nat /\ sleep[w] \in Nat
        BY SlotConstants DEF Slot!TypeOK
      <4> QED BY <4>1, <4>2, SlotConstants
    <3>2. CASE Slot!Start(w) \/ Slot!Leave(w)
      <4>1. /\ loop'[w] = "claimed" => loop[w] = "claimed"
            /\ sleep' = sleep /\ slot' = slot
        BY <3>2 DEF Slot!Start, Slot!Leave, Slot!TypeOK
      <4> QED BY <4>1 DEF HeldOK
    <3>3. CASE Slot!Stop(w) \/ Slot!Ask(w) \/ Slot!Refuse(w)
      <4>1. loop'[w] # "claimed"
        BY <3>3 DEF Slot!Stop, Slot!Ask, Slot!Refuse, Slot!Executed, Slot!TypeOK
      <4> QED BY <4>1
    <3>4. CASE Slot!Wait(w) \/ Slot!Poll(w) \/ Slot!Lose(w) \/ Slot!PollAnyway(w) \/ Slot!DispatchFails(w)
      <4>1. Slot!Sleep(w)
        BY <3>4 DEF Slot!Wait, Slot!Poll, Slot!Lose, Slot!PollAnyway, Slot!DispatchFails
      <4>2. loop'[w] = "asleep"
        BY <4>1, SlotSleeps DEF Slot!TypeOK
      <4> QED BY <4>2
    <3> QED BY <1>1, <3>1, <3>2, <3>3, <3>4 DEF Slot!Step
  <2>4. ASSUME NEW u \in Workers, NEW v \in Workers, loop'[u] = "claimed", loop'[v] = "claimed"
        PROVE  u = v
    <3>1. CASE Slot!Claim(w)
      <4>1. slot = 0 /\ ~Held
        BY <3>1, SlotHeld DEF Slot!Claim
      <4>2. \A x \in Workers : x # w => loop'[x] = loop[x] /\ loop[x] # "claimed"
        BY <1>1, <4>1, SlotStepLocal DEF Held
      <4> QED BY <2>4, <4>2
    <3>2. CASE ~Slot!Claim(w)
      <4>1. loop[u] = "claimed" /\ loop[v] = "claimed"
        BY <1>1, <2>4, <3>2, HeldBy, SlotStepLocal
      <4> QED BY <4>1 DEF HeldOK
    <3> QED BY <3>1, <3>2
  <2> QED BY <2>2, <2>3, <2>4 DEF HeldOK
<1>2. ASSUME Slot!Tick PROVE HeldOK'
  <2>1. SUFFICES ASSUME NEW w \in Workers, loop[w] = "claimed" PROVE slot' + Delay >= Ttl + sleep'[w]
    BY <1>2 DEF HeldOK, Slot!Tick
  <2>2. sleep[w] \in Nat /\ sleep[w] > 0 /\ sleep'[w] = sleep[w] - 1
    BY <1>2, <2>1, SlotConstants DEF Slot!Tick, Slot!Down, Slot!TypeOK
  <2>3. slot \in Nat /\ slot + Delay >= Ttl + sleep[w]
    BY <2>1, SlotConstants DEF HeldOK, Slot!TypeOK
  <2>4. slot > 0 /\ slot' = slot - 1
    BY <1>2, <2>2, <2>3, SlotConstants DEF Slot!Tick, Slot!Down
  <2> QED BY <2>2, <2>3, <2>4, SlotConstants
<1>3. CASE UNCHANGED slotVars
  BY <1>3 DEF slotVars, HeldOK
<1> QED BY <1>1, <1>2, <1>3 DEF Slot!Next

LEMMA SlotRecentStep ==
  Slot!TypeOK /\ FlightOK /\ HeldOK /\ SlotRecent /\ [Slot!Next]_slotVars => SlotRecent'
<1> SUFFICES ASSUME Slot!TypeOK, FlightOK, HeldOK, SlotRecent, [Slot!Next]_slotVars, slotFailures' = 0
             PROVE  recent' + slot' + Delay >= Ttl /\ (Held' => recent' + Delay >= Ttl)
  BY DEF SlotRecent
<1>0. recent \in 0 .. Interval /\ slot \in 0 .. Ttl /\ slotFailures \in Nat
  BY SlotConstants DEF Slot!TypeOK
<1>1. ASSUME NEW w \in Workers, Slot!Step(w), recent' = recent, slotFailures' = slotFailures
      PROVE  recent' + slot' + Delay >= Ttl /\ (Held' => recent' + Delay >= Ttl)
  <2>1. slot' = slot \/ slot' = Ttl
    BY <1>1 DEF Slot!Step, Slot!Start, Slot!Leave, Slot!Stop, Slot!Wait, Slot!Ask, Slot!Claim,
                Slot!Refuse, Slot!Executed, Slot!Poll, Slot!Lose, Slot!PollAnyway, Slot!DispatchFails
  <2>2. recent + slot + Delay >= Ttl /\ (Held => recent + Delay >= Ttl)
    BY <1>1 DEF SlotRecent
  <2>3. Slot!Claim(w) => slot = 0
    BY DEF Slot!Claim
  <2>4. Held' => Held \/ Slot!Claim(w)
    BY <1>1, HeldBy
  <2> QED BY <1>0, <1>1, <2>1, <2>2, <2>3, <2>4, SlotConstants
<1>2. ASSUME NEW w \in Workers, Slot!Poll(w)
      PROVE  recent' + slot' + Delay >= Ttl /\ (Held' => recent' + Delay >= Ttl)
  <2>1. recent' = 0 /\ slot' = slot /\ loop[w] = "claimed" /\ Slot!Sleep(w)
    BY <1>2 DEF Slot!Poll, Slot!Dispatch
  <2>2. slot + Delay >= Ttl + sleep[w] /\ sleep[w] \in Nat
    BY <2>1, SlotConstants DEF HeldOK, Slot!TypeOK
  <2>3. loop'[w] = "asleep" /\ \A v \in Workers : v # w => loop'[v] = loop[v]
    BY <2>1, SlotSleeps DEF Slot!TypeOK
  <2>4. ~Held'
    BY <2>1, <2>3 DEF Held, HeldOK
  <2> QED BY <1>0, <2>1, <2>2, <2>4, SlotConstants
<1>3. ASSUME NEW w \in Workers, Slot!Step(w)
      PROVE  recent' + slot' + Delay >= Ttl /\ (Held' => recent' + Delay >= Ttl)
  <2>1. ~Slot!PollAnyway(w) /\ ~Slot!DispatchFails(w)
    BY <1>0 DEF Slot!PollAnyway, Slot!DispatchFails, Slot!Fail
  <2>2. Slot!Poll(w) \/ (recent' = recent /\ slotFailures' = slotFailures)
    BY <1>3, <2>1 DEF Slot!Step, Slot!Start, Slot!Leave, Slot!Stop, Slot!Wait, Slot!Ask, Slot!Claim,
                      Slot!Refuse, Slot!Executed, Slot!Poll, Slot!Lose
  <2> QED BY <1>1, <1>2, <1>3, <2>2
<1>4. ASSUME Slot!Tick PROVE recent' + slot' + Delay >= Ttl /\ (Held' => recent' + Delay >= Ttl)
  <2>1. /\ Held' <=> Held
        /\ slotFailures = 0
        /\ recent' = IF recent < Interval THEN recent + 1 ELSE Interval
        /\ slot' = IF slot = 0 THEN 0 ELSE slot - 1
    BY <1>4 DEF Slot!Tick, Slot!Up, Slot!Down, Held
  <2>2. recent + slot + Delay >= Ttl /\ (Held => recent + Delay >= Ttl)
    BY <2>1 DEF SlotRecent
  <2> QED BY <1>0, <2>1, <2>2, SlotConstants
<1>5. CASE UNCHANGED slotVars
  BY <1>5 DEF slotVars, SlotRecent, Held
<1> QED BY <1>3, <1>4, <1>5 DEF Slot!Next

LEMMA WaitsNumbers ==
  ASSUME Slot!TypeOK
  PROVE  /\ Limit \in Nat /\ Limit >= Ttl + (Interval + Period + 3 * Delay)
         /\ \A w \in Workers : UntilAttempt(w) \in 0 .. Interval + Period + 2 * Delay
<1>1. slotFailures \in Nat /\ burnt \in Nat
  BY SlotConstants DEF Slot!TypeOK
<1>2. ASSUME NEW w \in Workers PROVE UntilAttempt(w) \in 0 .. Interval + Period + 2 * Delay
  <2>1. since[w] \in 0 .. Interval /\ sleep[w] \in 0 .. Period + Delay
    BY DEF Slot!TypeOK
  <2> QED BY <2>1, SlotConstants DEF UntilAttempt
<1> QED BY <1>1, <1>2, WaitLimits DEF Limit

LEMMA ServedInTime ==
  ASSUME Slot!TypeOK, NEW w \in Workers, Served(w)
  PROVE  unserved[w] <= Limit
<1>1. Limit \in Nat /\ UntilAttempt(w) \in Nat /\ unserved[w] \in Nat
  BY WaitsNumbers, SlotConstants DEF Slot!TypeOK
<1>2. CASE Held
  <2>1. PICK v \in Workers : unserved[w] + sleep[v] <= Limit
    BY <1>2 DEF Held, Served
  <2>2. sleep[v] \in Nat
    BY SlotConstants DEF Slot!TypeOK
  <2> QED BY <1>1, <2>1, <2>2
<1>3. CASE ~Held
  BY <1>1, <1>3, SlotConstants DEF Served
<1> QED BY <1>2, <1>3

LEMMA WaitsStep == SlotInv /\ [Slot!Next]_slotVars => WaitsOK'
<1> SUFFICES ASSUME SlotInv, [Slot!Next]_slotVars PROVE WaitsOK'
  OBVIOUS
<1> DEFINE P == Interval + Period + 3 * Delay
<1>1. /\ Slot!TypeOK /\ FlightOK /\ HeldOK /\ WaitsOK
      /\ Slot!TypeOK'
      /\ P \in Nat /\ Slot!LongestWait = Ttl + P /\ Slot!LongestWait \in Nat
  BY SlotTypeStep, SlotConstants, WaitLimits DEF SlotInv
<1>2. Limit \in Nat /\ Limit >= Ttl + P
  BY <1>1, WaitsNumbers
<1>3. \A w \in Workers : /\ UntilAttempt(w) \in 0 .. Interval + Period + 2 * Delay
                         /\ unserved[w] \in Nat /\ sleep[w] \in 0 .. Period + Delay
                         /\ since[w] \in 0 .. Interval
  BY <1>1, WaitsNumbers DEF Slot!TypeOK
<1>4. \A w \in Workers : /\ UntilAttempt(w)' \in 0 .. Interval + Period + 2 * Delay
                         /\ unserved'[w] \in Nat /\ sleep'[w] \in 0 .. Period + Delay
  <2>1. ASSUME NEW w \in Workers
        PROVE  since'[w] \in 0 .. Interval /\ sleep'[w] \in 0 .. Period + Delay /\ unserved'[w] \in Nat
    BY <1>1 DEF Slot!TypeOK
  <2> QED BY <2>1, SlotConstants DEF UntilAttempt
<1>5. slot \in 0 .. Ttl /\ slot' \in 0 .. Ttl /\ slotFailures \in Nat /\ burnt \in Nat
  BY <1>1, SlotConstants DEF Slot!TypeOK
<1>6. /\ UNCHANGED <<slotFailures, burnt>> => Limit' = Limit
      /\ slotFailures' = slotFailures + 1 /\ burnt' = burnt => Limit' = Limit + (Ttl + P)
      /\ slotFailures' = slotFailures /\ burnt' = burnt + 1 => Limit' = Limit + (Ttl + P)
  BY <1>1, <1>5, WaitLimits DEF Limit
<1> HIDE DEF P
(* Whoever has waited so much less than the limit is in time anyhow. *)
<1>7. ASSUME NEW w \in Workers, Limit' \in Nat, unserved'[w] + (Ttl + P) <= Limit'
      PROVE  Served(w)'
  <2>1. unserved'[w] \in Nat /\ UntilAttempt(w)' \in 0 .. Interval + Period + 2 * Delay
    BY <1>4
  <2>2. ASSUME NEW v \in Workers PROVE unserved'[w] + sleep'[v] <= Limit'
    <3>1. sleep'[v] \in 0 .. Period + Delay
      BY <1>4
    <3> QED BY <1>7, <2>1, <3>1, SlotConstants DEF P
  <2>3. unserved'[w] + UntilAttempt(w)' + Delay <= Limit'
    BY <1>7, <2>1, SlotConstants DEF P
  <2>4. unserved'[w] + slot' + (Interval + Period + 3 * Delay) <= Limit'
    BY <1>5, <1>7, <2>1, SlotConstants DEF P
  <2> QED BY <2>2, <2>3, <2>4 DEF Served
(* A step that leaves alone what a worker's viewers wait for. *)
<1>8. ASSUME NEW w \in Workers, Served(w), unserved'[w] = unserved[w], Limit' = Limit, slot' = slot,
             Held' <=> Held, UntilAttempt(w)' <= UntilAttempt(w),
             \A v \in Workers : loop'[v] = "claimed" => loop[v] = "claimed" /\ sleep'[v] = sleep[v]
      PROVE  Served(w)'
  <2>1. ~Held => unserved[w] + UntilAttempt(w)' + Delay <= Limit
    BY <1>2, <1>3, <1>4, <1>8, SlotConstants DEF Served
  <2> QED BY <1>8, <2>1 DEF Served
<1>9. ASSUME NEW w \in Workers, Slot!Step(w), UNCHANGED <<slot, slotFailures, burnt>>, Held' <=> Held,
             loop'[w] = "claimed" => loop[w] = "claimed" /\ sleep'[w] = sleep[w],
             NEW v \in Workers, v # w, unserved'[v] = unserved[v]
      PROVE  IF watched'[v] THEN Served(v)' ELSE unserved'[v] = 0
  <2>1. /\ watched'[v] = watched[v] /\ UntilAttempt(v)' = UntilAttempt(v)
        /\ \A u \in Workers : loop'[u] = "claimed" => loop[u] = "claimed" /\ sleep'[u] = sleep[u]
    BY <1>1, <1>9, SlotStepLocal DEF UntilAttempt
  <2>2. IF watched[v] THEN Served(v) ELSE unserved[v] = 0
    BY <1>1 DEF WaitsOK
  <2>3. UntilAttempt(v)' <= UntilAttempt(v)
    BY <1>3, <2>1
  <2>4. Limit' = Limit
    BY <1>6, <1>9
  <2> QED BY <1>8, <1>9, <2>1, <2>2, <2>3, <2>4
<1>10. ASSUME NEW w \in Workers, Slot!Start(w) PROVE WaitsOK'
  <2>1. Slot!Step(w)
    BY <1>10 DEF Slot!Step
  <2>2. /\ UNCHANGED <<slot, unserved, slotFailures, burnt, sleep>> /\ (Held' <=> Held)
        /\ loop'[w] = "claimed" => loop[w] = "claimed"
    BY <1>1, <1>10, <2>1, HeldBy DEF Slot!Start, Slot!TypeOK
  <2>3. unserved'[w] = 0
    BY <1>1, <1>10, <2>2 DEF WaitsOK, Slot!Start
  <2>4. Served(w)'
    <3>1. Limit' = Limit
      BY <1>6, <2>2
    <3> QED BY <1>1, <1>2, <1>7, <2>3, <3>1, SlotConstants
  <2> QED BY <1>9, <2>1, <2>2, <2>3, <2>4 DEF WaitsOK
<1>11. ASSUME NEW w \in Workers, Slot!Leave(w) PROVE WaitsOK'
  <2>1. Slot!Step(w)
    BY <1>11 DEF Slot!Step
  <2>2. /\ UNCHANGED <<slot, slotFailures, burnt, sleep, loop>> /\ (Held' <=> Held)
        /\ watched'[w] = FALSE /\ unserved'[w] = 0
        /\ \A v \in Workers : v # w => unserved'[v] = unserved[v]
    BY <1>1, <1>11, <2>1, HeldBy DEF Slot!Leave, Slot!TypeOK
  <2> QED BY <1>9, <2>1, <2>2 DEF WaitsOK
<1>12. ASSUME NEW w \in Workers, Slot!Stop(w) PROVE WaitsOK'
  <2>1. Slot!Step(w)
    BY <1>12 DEF Slot!Step
  <2>2. /\ watched'[w] = FALSE /\ unserved'[w] = 0 /\ loop'[w] = "none"
        /\ \A v \in Workers : v # w => unserved'[v] = unserved[v] /\ watched'[v] = watched[v]
        /\ slotFailures' = slotFailures
    BY <1>1, <1>12 DEF Slot!Stop, Slot!TypeOK
  <2>3. CASE loop[w] # "claimed" /\ UNCHANGED <<slot, burnt>>
    <3>1. Held' <=> Held
      BY <1>1, <2>1, <2>2, <2>3, SlotStepLocal DEF Held
    <3> QED BY <1>9, <2>1, <2>2, <2>3, <3>1 DEF WaitsOK
  <2>4. CASE burnt' = burnt + 1
    <3>1. Limit' = Limit + (Ttl + P)
      BY <1>6, <2>2, <2>4
    <3>2. ASSUME NEW v \in Workers, v # w, watched[v] PROVE Served(v)'
      <4>1. Served(v)
        BY <1>1, <3>2 DEF WaitsOK
      <4>2. unserved[v] <= Limit /\ unserved[v] \in Nat /\ unserved'[v] = unserved[v]
        BY <1>1, <1>3, <2>2, <3>2, <4>1, ServedInTime
      <4>3. Limit' \in Nat /\ unserved'[v] + (Ttl + P) <= Limit'
        BY <1>1, <1>2, <3>1, <4>2, SlotConstants
      <4> QED BY <1>7, <4>3
    <3>3. \A v \in Workers : ~watched[v] => unserved[v] = 0
      BY <1>1 DEF WaitsOK
    <3> QED BY <2>2, <3>2, <3>3 DEF WaitsOK
  <2>5. (loop[w] # "claimed" /\ UNCHANGED <<slot, burnt>>) \/ burnt' = burnt + 1
    BY <1>12 DEF Slot!Stop, Slot!Burn
  <2> QED BY <2>3, <2>4, <2>5
<1>13. ASSUME NEW w \in Workers, Slot!Wait(w) \/ Slot!Ask(w) \/ Slot!Lose(w) PROVE WaitsOK'
  <2>1. Slot!Step(w)
    BY <1>13 DEF Slot!Step
  <2>2. /\ UNCHANGED <<watched, slot, unserved, slotFailures, burnt>>
        /\ Slot!Sleep(w) \/ Slot!Ask(w)
    BY <1>13 DEF Slot!Wait, Slot!Ask, Slot!Lose, Slot!Awake
  <2>3. loop[w] # "claimed" /\ loop'[w] \in {"asleep", "asking"}
    BY <1>1, <1>13, <2>2, SlotSleeps
       DEF Slot!Wait, Slot!Ask, Slot!Lose, Slot!Awake, Slot!TypeOK
  <2>4. Held' <=> Held
    BY <1>1, <2>1, <2>3, SlotStepLocal DEF Held
  <2>5. ASSUME watched[w] PROVE UntilAttempt(w)' <= UntilAttempt(w)
    <3>1. CASE Slot!Wait(w)
      <4>1. loop[w] = "asleep" /\ loop'[w] = "asleep" /\ since' = since /\ since[w] # Interval
        BY <1>1, <1>3, <2>5, <3>1, SlotSleeps, SlotConstants DEF Slot!Wait, Slot!Awake, Slot!Due, Slot!TypeOK
      <4> QED BY <1>3, <4>1 DEF UntilAttempt
    <3>2. CASE Slot!Ask(w)
      <4>1. /\ loop[w] = "asleep" /\ since[w] = Interval /\ sleep[w] = 0
            /\ loop'[w] = "asking" /\ sleep'[w] = Delay
        BY <1>1, <1>3, <3>2, SlotConstants DEF Slot!Ask, Slot!Awake, Slot!Due, Slot!TypeOK
      <4> QED BY <4>1, SlotConstants DEF UntilAttempt
    <3>3. CASE Slot!Lose(w)
      <4>1. loop[w] = "refused" /\ loop'[w] = "asleep" /\ since' = since
        BY <1>1, <3>3, SlotSleeps DEF Slot!Lose, Slot!TypeOK
      <4>2. since[w] + sleep[w] = Delay
        BY <1>1, <4>1 DEF FlightOK
      <4>3. since[w] # Interval
        BY <1>3, <4>2, SlotConstants
      <4> QED BY <1>3, <4>1, <4>3 DEF UntilAttempt
    <3> QED BY <1>13, <3>1, <3>2, <3>3
  <2>6. ASSUME watched[w] PROVE Served(w)'
    <3>1. Served(w) /\ Limit' = Limit
      BY <1>1, <1>6, <2>2, <2>6 DEF WaitsOK
    <3>2. \A v \in Workers : loop'[v] = "claimed" => loop[v] = "claimed" /\ sleep'[v] = sleep[v]
      BY <1>1, <2>1, <2>3, SlotStepLocal
    <3> QED BY <1>8, <2>2, <2>4, <2>5, <2>6, <3>1, <3>2
  <2>7. ~watched[w] => unserved[w] = 0
    BY <1>1 DEF WaitsOK
  <2> QED BY <1>9, <2>1, <2>2, <2>3, <2>4, <2>6, <2>7 DEF WaitsOK
<1>14. ASSUME NEW w \in Workers, Slot!Refuse(w) PROVE WaitsOK'
  <2>1. Slot!Step(w)
    BY <1>14 DEF Slot!Step
  <2>2. /\ UNCHANGED <<watched, since, sleep, slot, unserved, slotFailures, burnt>> /\ slot > 0
        /\ loop[w] = "asking" /\ loop'[w] = "refused"
    BY <1>1, <1>14 DEF Slot!Refuse, Slot!Executed, Slot!TypeOK
  <2>3. /\ Held' <=> Held
        /\ \A v \in Workers : loop'[v] = "claimed" => loop[v] = "claimed" /\ sleep'[v] = sleep[v]
    BY <1>1, <2>1, <2>2, SlotStepLocal DEF Held
  <2>4. ASSUME watched[w] PROVE Served(w)'
    <3>1. Served(w) /\ Limit' = Limit
      BY <1>1, <1>6, <2>2, <2>4 DEF WaitsOK
    <3>2. ~Held => unserved[w] + UntilAttempt(w)' + Delay <= Limit
      <4>1. ~Held => unserved[w] + slot + (Interval + Period + 3 * Delay) <= Limit
        BY <2>2, <3>1 DEF Served
      <4>2. UntilAttempt(w)' <= Interval + Period + 2 * Delay /\ UntilAttempt(w)' \in Nat
        BY <1>4, SlotConstants
      <4>3. unserved[w] \in Nat
        BY <1>3
      <4> QED BY <1>2, <1>5, <4>1, <4>2, <4>3, SlotConstants
    <3> QED BY <2>2, <2>3, <3>1, <3>2 DEF Served
  <2>5. ~watched[w] => unserved[w] = 0
    BY <1>1 DEF WaitsOK
  <2> QED BY <1>9, <2>1, <2>2, <2>3, <2>4, <2>5 DEF WaitsOK
<1>15. ASSUME NEW w \in Workers, Slot!Claim(w) PROVE WaitsOK'
  <2>1. /\ UNCHANGED <<watched, since, sleep, unserved, slotFailures, burnt>> /\ slot = 0
        /\ loop[w] = "asking" /\ loop' = [loop EXCEPT ![w] = "claimed"]
    BY <1>15 DEF Slot!Claim, Slot!Executed
  <2>2. ~Held /\ Held'
    BY <1>1, <2>1, SlotHeld DEF Held, Slot!TypeOK
  <2>3. sleep[w] <= Delay
    BY <1>1, <1>3, <2>1, SlotConstants DEF FlightOK
  <2>4. ASSUME NEW v \in Workers, watched[v] PROVE Served(v)'
    <3>1. Served(v) /\ Limit' = Limit
      BY <1>1, <1>6, <2>1, <2>4 DEF WaitsOK
    <3>2. unserved[v] + UntilAttempt(v) + Delay <= Limit
      BY <2>2, <3>1 DEF Served
    <3>3. unserved[v] + sleep[w] <= Limit
      BY <1>2, <1>3, <2>3, <3>2, SlotConstants
    <3>4. \A u \in Workers : loop'[u] = "claimed" => u = w
      BY <1>1, <2>1, <2>2 DEF Held, Slot!TypeOK
    <3> QED BY <2>1, <2>2, <3>1, <3>3, <3>4 DEF Served
  <2>5. \A v \in Workers : ~watched[v] => unserved[v] = 0
    BY <1>1 DEF WaitsOK
  <2> QED BY <2>1, <2>4, <2>5 DEF WaitsOK
<1>16. ASSUME NEW w \in Workers, Slot!Poll(w) \/ Slot!PollAnyway(w) PROVE WaitsOK'
  <2>1. /\ unserved' = [v \in Workers |-> 0] /\ burnt' = burnt
        /\ slotFailures' = slotFailures \/ slotFailures' = slotFailures + 1
    BY <1>16 DEF Slot!Poll, Slot!PollAnyway, Slot!Dispatch, Slot!Fail
  <2>2. Limit' \in Nat /\ Limit' >= Ttl + P
    BY <1>1, <1>2, <1>6, <2>1, SlotConstants
  <2>3. \A v \in Workers : unserved'[v] = 0 /\ unserved'[v] + (Ttl + P) <= Limit'
    BY <1>1, <2>1, <2>2, SlotConstants
  <2>4. \A v \in Workers : Served(v)'
    BY <1>7, <2>2, <2>3
  <2> QED BY <2>3, <2>4 DEF WaitsOK
<1>17. ASSUME NEW w \in Workers, Slot!DispatchFails(w) PROVE WaitsOK'
  <2>1. UNCHANGED <<watched, unserved, burnt>> /\ slotFailures' = slotFailures + 1
    BY <1>17 DEF Slot!DispatchFails, Slot!Fail
  <2>2. Limit' = Limit + (Ttl + P)
    BY <1>6, <2>1
  <2>3. ASSUME NEW v \in Workers, watched[v] PROVE Served(v)'
    <3>1. unserved[v] <= Limit /\ unserved[v] \in Nat
      BY <1>1, <1>3, <2>3, ServedInTime DEF WaitsOK
    <3>2. Limit' \in Nat /\ unserved'[v] + (Ttl + P) <= Limit'
      BY <1>1, <1>2, <2>1, <2>2, <3>1, SlotConstants
    <3> QED BY <1>7, <3>2
  <2>4. \A v \in Workers : ~watched[v] => unserved[v] = 0
    BY <1>1 DEF WaitsOK
  <2> QED BY <2>1, <2>3, <2>4 DEF WaitsOK
<1>18. CASE Slot!Tick
  <2>1. /\ watched' = watched /\ loop' = loop /\ UNCHANGED <<slotFailures, burnt>>
        /\ slot' = IF slot = 0 THEN 0 ELSE slot - 1
        /\ Held' <=> Held
    BY <1>18 DEF Slot!Tick, Slot!Down, Held
  <2>2. \A w \in Workers : /\ unserved'[w] = IF watched[w] THEN unserved[w] + 1 ELSE 0
                           /\ loop[w] # "none" => sleep[w] > 0 /\ sleep'[w] = sleep[w] - 1
                           /\ since'[w] = IF since[w] < Interval THEN since[w] + 1 ELSE Interval
    BY <1>1, <1>18, <1>3, SlotConstants DEF Slot!Tick, Slot!Down, Slot!Up, Slot!TypeOK
  <2>3. Limit' = Limit
    BY <1>6, <2>1
  <2>4. ASSUME NEW w \in Workers, watched[w] PROVE Served(w)'
    <3>1. Served(w)
      BY <1>1, <2>4 DEF WaitsOK
    <3>2. unserved'[w] = unserved[w] + 1 /\ unserved[w] \in Nat
      BY <1>3, <2>2, <2>4
    <3>3. ASSUME NEW v \in Workers, loop[v] = "claimed" PROVE unserved'[w] + sleep'[v] <= Limit
      <4>1. unserved[w] + sleep[v] <= Limit /\ sleep[v] \in Nat /\ sleep'[v] = sleep[v] - 1
        BY <1>3, <2>2, <3>1, <3>3, SlotConstants DEF Served
      <4> QED BY <3>2, <4>1
    <3>4. UntilAttempt(w)' <= UntilAttempt(w) - 1
      <4>1. loop[w] \in {"asleep", "asking", "claimed", "refused"} /\ loop'[w] = loop[w]
        BY <1>1, <2>1, <2>4 DEF FlightOK, Slot!TypeOK, Slot!Stages
      <4>2. /\ sleep[w] \in 0 .. Period + Delay /\ sleep[w] > 0 /\ sleep'[w] = sleep[w] - 1
            /\ since[w] \in 0 .. Interval
            /\ since'[w] = IF since[w] < Interval THEN since[w] + 1 ELSE Interval
        BY <1>3, <2>2, <4>1
      <4>3. loop[w] \in {"claimed", "refused"} => since[w] < Interval
        <5>1. loop[w] \in {"claimed", "refused"} => since[w] + sleep[w] = Delay
          BY <1>1 DEF FlightOK
        <5> QED BY <4>2, <5>1, SlotConstants
      <4> QED BY <4>1, <4>2, <4>3, SlotConstants DEF UntilAttempt
    <3>5. ~Held => unserved'[w] + UntilAttempt(w)' + Delay <= Limit
      <4>1. UntilAttempt(w) \in Nat /\ UntilAttempt(w)' \in Nat
        BY <1>3, <1>4, SlotConstants
      <4>2. ~Held => unserved[w] + UntilAttempt(w) + Delay <= Limit
        BY <3>1 DEF Served
      <4> QED BY <1>2, <3>2, <3>4, <4>1, <4>2, SlotConstants
    <3>6. ~Held /\ slot' > 0 => unserved'[w] + slot' + (Interval + Period + 3 * Delay) <= Limit
      <4>1. slot' > 0 => slot > 0 /\ slot' = slot - 1
        BY <1>5, <2>1
      <4>2. ~Held /\ slot > 0 => unserved[w] + slot + (Interval + Period + 3 * Delay) <= Limit
        BY <3>1 DEF Served
      <4> QED BY <1>2, <1>5, <3>2, <4>1, <4>2, SlotConstants
    <3> QED BY <2>1, <2>3, <3>3, <3>5, <3>6 DEF Served
  <2>5. \A w \in Workers : ~watched[w] => unserved'[w] = 0
    BY <2>2
  <2> QED BY <2>1, <2>4, <2>5 DEF WaitsOK
<1>19. CASE UNCHANGED slotVars
  BY <1>1, <1>19 DEF slotVars, WaitsOK, Served, UntilAttempt, Held, Limit
<1> QED BY <1>10, <1>11, <1>12, <1>13, <1>14, <1>15, <1>16, <1>17, <1>18, <1>19 DEF Slot!Next, Slot!Step

LEMMA SlotInvariant == ServicesSpec => []SlotInv
<1>1. ServicesInit => SlotInv
  <2> SUFFICES ASSUME Slot!Init PROVE SlotInv
    BY DEF ServicesInit
  <2>1. Slot!TypeOK
    BY SlotConstants DEF Slot!Init, Slot!TypeOK, Slot!Stages
  <2>2. \A w \in Workers : ~watched[w] /\ loop[w] = "none" /\ unserved[w] = 0
    BY DEF Slot!Init
  <2>3. ~Held /\ recent = Interval /\ slot = 0
    BY <2>2 DEF Slot!Init, Held
  <2>4. FlightOK /\ HeldOK /\ WaitsOK
    BY <2>2 DEF FlightOK, HeldOK, WaitsOK
  <2>5. SlotRecent
    BY <2>3, SlotConstants DEF SlotRecent
  <2> QED BY <2>1, <2>4, <2>5 DEF SlotInv
<1>2. SlotInv /\ [ServicesNext]_allVars => SlotInv'
  BY ServicesParts, SlotTypeStep, FlightStep, HeldStep, SlotRecentStep, WaitsStep DEF SlotInv
<1> QED BY <1>1, <1>2, PTL DEF ServicesSpec

(* However many workers watch a symbol, wherever a loop is cancelled or    *)
(* its worker dies, and whatever fails, viewers are polled for within the  *)
(* time the protocol leaves.                                               *)
THEOREM ViewersTheorem == ServicesSpec => []ViewersAreServed
<1>1. SlotInv => ViewersAreServed
  <2> SUFFICES ASSUME SlotInv, NEW w \in Workers PROVE unserved[w] <= Limit
    BY DEF ViewersAreServed, Slot!ViewersAreServed, Limit, WaitLimit
  <2>1. Slot!TypeOK /\ WaitsOK
    BY DEF SlotInv
  <2>2. CASE watched[w]
    BY <2>1, <2>2, ServedInTime DEF WaitsOK
  <2>3. CASE ~watched[w]
    <3>1. unserved[w] = 0 /\ Limit \in Nat
      BY <2>1, <2>3, WaitsNumbers DEF WaitsOK
    <3> QED BY <3>1
  <2> QED BY <2>2, <2>3
<1> QED BY <1>1, SlotInvariant, PTL

(* While Redis answers, no two dispatches are closer than the slot's life  *)
(* less the time a claim takes to be dispatched.                           *)
THEOREM DispatchTheorem == ServicesSpec => OneDispatchPerSlot
<1> DEFINE Apart == slotFailures = 0 /\ (\E w \in Workers : Slot!Poll(w)) => recent >= Ttl - Delay
<1>1. SlotInv => Apart
  <2> SUFFICES ASSUME SlotInv, slotFailures = 0, NEW w \in Workers, Slot!Poll(w)
               PROVE  recent >= Ttl - Delay
    OBVIOUS
  <2>1. Held
    BY DEF Slot!Poll, Held
  <2>2. recent + Delay >= Ttl /\ recent \in 0 .. Interval
    BY <2>1 DEF SlotInv, SlotRecent, Slot!TypeOK
  <2> QED BY <2>2, SlotConstants
<1>2. SlotInv /\ [ServicesNext]_allVars => [Apart]_slotVars
  BY <1>1
<1> QED BY <1>2, SlotInvariant, PTL
        DEF ServicesSpec, OneDispatchPerSlot, Slot!OneDispatchPerSlot, Slot!vars, slotVars

-----------------------------------------------------------------------------
(* The delivery of an alert. *)

\* How many times an alert may reach the receiver of a channel.
CopyLimit(p) == IF channels[p] = "WEBHOOK" THEN Delivery!Attempts ELSE 1

\* The channels are tried in order: what lies ahead has sent nothing, and the
\* one being tried has sent one request for each attempt that failed.
TriedInOrder ==
  /\ \A p \in Delivery!Positions : p > next => copies[p] = 0
  /\ \A p \in Delivery!Positions : p = next => copies[p] <= attempt
  /\ attempt > 0 => next \in Delivery!Positions /\ channels[next] = "WEBHOOK"
  /\ status # "PENDING" => next > Len(channels)

DeliveryInv == Delivery!TypeOK /\ TriedInOrder /\ DeliveryIsHonest

LEMMA DeliveryConstants ==
  /\ ChannelLists \subseteq Seq(Delivery!ChannelTypes) \ {<<>>}
  /\ Delivery!Attempts \in Nat \ {0}
BY ServicesAssumption DEF Delivery!ConstantsAssumption, Delivery!Attempts

(* What a step of the loop does to the channel it is at.                   *)
Outcome(ok, arrived) ==
  /\ next \in Delivery!Positions /\ status = "PENDING" /\ status' = status /\ channels' = channels
  /\ usable' = usable
  /\ IF arrived THEN Delivery!Arrives ELSE Delivery!Lost
  /\ attempt' = 0 /\ next' = next + 1
  /\ errors' = IF ok THEN errors ELSE errors \cup {next}
  /\ arrived \/ ~ok \/ channels[next] = "WEBSOCKET"

Retries ==
  /\ next \in Delivery!Positions /\ status = "PENDING" /\ status' = status /\ channels' = channels
  /\ usable' = usable /\ next' = next /\ errors' = errors
  /\ channels[next] = "WEBHOOK" /\ attempt + 1 < Delivery!Attempts /\ attempt' = attempt + 1
  /\ Delivery!Arrives \/ Delivery!Lost

LEMMA DeliveryMoves ==
  ASSUME Delivery!TypeOK, [Delivery!Next]_deliveryVars
  PROVE  \/ \E ok \in BOOLEAN, arrived \in BOOLEAN : Outcome(ok, arrived)
         \/ Retries \/ Delivery!Conclude \/ UNCHANGED deliveryVars
<1> USE DEF Delivery!On, Delivery!Return, Delivery!Post, Delivery!Send
<1>1. ASSUME Delivery!WebSocket PROVE Outcome(TRUE, TRUE) \/ Outcome(TRUE, FALSE)
  BY <1>1 DEF Delivery!WebSocket, Outcome
<1>2. ASSUME Delivery!Refuse PROVE Outcome(FALSE, FALSE)
  BY <1>2 DEF Delivery!Refuse, Outcome
<1>3. ASSUME Delivery!PostAccepted \/ Delivery!SendAccepted PROVE Outcome(TRUE, TRUE)
  BY <1>3 DEF Delivery!PostAccepted, Delivery!SendAccepted, Outcome
<1>4. ASSUME Delivery!PostRejected PROVE Outcome(FALSE, FALSE)
  BY <1>4 DEF Delivery!PostRejected, Outcome
<1>5. ASSUME Delivery!PostFails PROVE Retries \/ Outcome(FALSE, TRUE) \/ Outcome(FALSE, FALSE)
  BY <1>5 DEF Delivery!PostFails, Outcome, Retries
<1>6. ASSUME Delivery!SendFails PROVE Outcome(FALSE, TRUE) \/ Outcome(FALSE, FALSE)
  BY <1>6 DEF Delivery!SendFails, Outcome
<1> QED BY <1>1, <1>2, <1>3, <1>4, <1>5, <1>6 DEF Delivery!Next

LEMMA DeliveryStep == DeliveryInv /\ [Delivery!Next]_deliveryVars => DeliveryInv'
<1> SUFFICES ASSUME DeliveryInv, [Delivery!Next]_deliveryVars PROVE DeliveryInv'
  OBVIOUS
<1>0. /\ Delivery!TypeOK /\ TriedInOrder
      /\ Delivery!SuccessIsReal /\ Delivery!CopiesAreBounded /\ Delivery!EveryChannelTried
  BY DEF DeliveryInv, DeliveryIsHonest, Delivery!DeliveryIsHonest
<1> DEFINE P == Delivery!Positions
           A == Delivery!Attempts
<1>1. /\ Len(channels) \in Nat /\ P = 1 .. Len(channels) /\ A \in Nat \ {0}
      /\ next \in 1 .. Len(channels) + 1 /\ attempt \in 0 .. A - 1
      /\ errors \subseteq P /\ reached \subseteq P /\ copies \in [P -> Nat]
      /\ status \in {"PENDING", "DELIVERED", "FAILED"}
  BY <1>0, DeliveryConstants DEF Delivery!TypeOK, Delivery!Positions
<1>2. /\ \A p \in P : p > next => copies[p] = 0
      /\ \A p \in P : p = next => copies[p] <= attempt
      /\ attempt > 0 => next \in P /\ channels[next] = "WEBHOOK"
      /\ status # "PENDING" => next > Len(channels)
      /\ \A p \in P : channels[p] # "WEBSOCKET" /\ p < next /\ p \notin errors => p \in reached
      /\ \A p \in P : copies[p] <= CopyLimit(p)
  BY <1>0 DEF TriedInOrder, Delivery!SuccessIsReal, Delivery!Acknowledging,
              Delivery!CopiesAreBounded, CopyLimit
<1>3. ASSUME channels' = channels
      PROVE  /\ P' = P /\ A' = A /\ \A p \in P : CopyLimit(p)' = CopyLimit(p)
             /\ Delivery!Acknowledging' = Delivery!Acknowledging
  BY <1>3 DEF Delivery!Positions, Delivery!Attempts, CopyLimit, Delivery!Acknowledging
<1> HIDE DEF P, A
\* The message may have arrived: one copy more, of the channel at hand only.
<1>4. ASSUME next \in P, Delivery!Arrives \/ Delivery!Lost
      PROVE  /\ copies' \in [P -> Nat] /\ reached' \subseteq P /\ reached \subseteq reached'
             /\ \A p \in P : p # next => copies'[p] = copies[p]
             /\ copies'[next] <= copies[next] + 1 /\ copies'[next] <= attempt + 1
             /\ copies'[next] <= CopyLimit(next)
  <2>1. /\ copies' \in [P -> Nat] /\ reached' \subseteq P /\ reached \subseteq reached'
        /\ \A p \in P : p # next => copies'[p] = copies[p]
        /\ copies'[next] <= copies[next] + 1
    <3>1. copies[next] \in Nat /\ copies[next] + 1 \in Nat /\ copies[next] <= copies[next] + 1
      BY <1>1, <1>4
    <3>2. CASE Delivery!Arrives
      <4>1. reached' = reached \cup {next} /\ copies' = [copies EXCEPT ![next] = copies[next] + 1]
        BY <3>2 DEF Delivery!Arrives
      <4> QED BY <1>1, <1>4, <3>1, <4>1
    <3>3. CASE Delivery!Lost
      BY <1>1, <3>1, <3>3 DEF Delivery!Lost
    <3> QED BY <1>4, <3>2, <3>3
  <2>2. copies[next] <= attempt /\ copies[next] \in Nat /\ copies'[next] \in Nat
    BY <1>1, <1>2, <1>4, <2>1
  <2>3. copies'[next] <= attempt + 1
    BY <1>1, <2>1, <2>2
  <2>4. copies'[next] <= CopyLimit(next)
    <3>1. CASE attempt = 0
      BY <1>1, <2>2, <2>3, <3>1 DEF CopyLimit, A
    <3>2. CASE attempt > 0
      BY <1>1, <1>2, <2>2, <2>3, <3>2 DEF CopyLimit, A
    <3> QED BY <1>1, <3>1, <3>2
  <2> QED BY <2>1, <2>3, <2>4
<1>5. ASSUME NEW ok \in BOOLEAN, NEW arrived \in BOOLEAN, Outcome(ok, arrived)
      PROVE  DeliveryInv'
  <2>1. /\ next \in P /\ status = "PENDING" /\ status' = status /\ channels' = channels
        /\ usable' = usable /\ attempt' = 0 /\ next' = next + 1
        /\ errors' = (IF ok THEN errors ELSE errors \cup {next})
        /\ Delivery!Arrives \/ Delivery!Lost
        /\ arrived => next \in reached'
        /\ arrived \/ ~ok \/ channels[next] = "WEBSOCKET"
    BY <1>5 DEF Outcome, Delivery!Arrives, P
  <2>2. /\ P' = P /\ A' = A /\ \A p \in P : CopyLimit(p)' = CopyLimit(p)
        /\ Delivery!Acknowledging' = Delivery!Acknowledging
    BY <1>3, <2>1
  <2>3. Delivery!TypeOK'
    <3>1. next' \in 1 .. Len(channels) + 1 /\ attempt' \in 0 .. A - 1 /\ errors' \subseteq P
      BY <1>1, <2>1
    <3> QED BY <1>0, <1>1, <1>4, <2>1, <2>2, <3>1 DEF Delivery!TypeOK, P, A
  <2>4. TriedInOrder'
    <3>1. \A p \in P : p >= next + 1 => copies'[p] = 0
      BY <1>1, <1>2, <1>4, <2>1
    <3> QED BY <1>1, <2>1, <2>2, <3>1 DEF TriedInOrder, P
  <2>5. Delivery!SuccessIsReal'
    <3>1. \A p \in P : channels[p] # "WEBSOCKET" /\ p < next + 1 /\ p \notin errors'
                        => p \in reached'
      BY <1>1, <1>2, <1>4, <2>1
    <3> QED BY <2>1, <2>2, <3>1 DEF Delivery!SuccessIsReal, Delivery!Acknowledging, P
  <2>6. Delivery!CopiesAreBounded'
    <3>1. \A p \in P : copies'[p] <= CopyLimit(p)
      BY <1>2, <1>4, <2>1
    <3> QED BY <2>1, <2>2, <3>1 DEF Delivery!CopiesAreBounded, CopyLimit, P
  <2>7. Delivery!EveryChannelTried'
    BY <2>1 DEF Delivery!EveryChannelTried
  <2> QED BY <2>3, <2>4, <2>5, <2>6, <2>7
          DEF DeliveryInv, DeliveryIsHonest, Delivery!DeliveryIsHonest
<1>6. CASE Retries
  <2>1. /\ next \in P /\ status = "PENDING" /\ status' = status /\ channels' = channels
        /\ usable' = usable /\ next' = next /\ errors' = errors
        /\ channels[next] = "WEBHOOK" /\ attempt + 1 < A /\ attempt' = attempt + 1
        /\ Delivery!Arrives \/ Delivery!Lost
    BY <1>6 DEF Retries, P, A
  <2>2. /\ P' = P /\ A' = A /\ \A p \in P : CopyLimit(p)' = CopyLimit(p)
        /\ Delivery!Acknowledging' = Delivery!Acknowledging
    BY <1>3, <2>1
  <2>3. Delivery!TypeOK'
    <3>1. attempt' \in 0 .. A - 1
      BY <1>1, <2>1
    <3> QED BY <1>0, <1>1, <1>4, <2>1, <2>2, <3>1 DEF Delivery!TypeOK, P, A
  <2>4. TriedInOrder'
    <3>1. /\ \A p \in P : p > next => copies'[p] = 0
          /\ \A p \in P : p = next => copies'[p] <= attempt'
      BY <1>1, <1>2, <1>4, <2>1
    <3> QED BY <2>1, <2>2, <3>1 DEF TriedInOrder, P
  <2>5. Delivery!SuccessIsReal'
    BY <1>0, <1>4, <2>1, <2>2 DEF Delivery!SuccessIsReal
  <2>6. Delivery!CopiesAreBounded'
    <3>1. \A p \in P : copies'[p] <= CopyLimit(p)
      BY <1>2, <1>4, <2>1
    <3> QED BY <2>1, <2>2, <3>1 DEF Delivery!CopiesAreBounded, CopyLimit, P
  <2>7. Delivery!EveryChannelTried'
    BY <2>1 DEF Delivery!EveryChannelTried
  <2> QED BY <2>3, <2>4, <2>5, <2>6, <2>7
          DEF DeliveryInv, DeliveryIsHonest, Delivery!DeliveryIsHonest
<1>7. CASE Delivery!Conclude
  <2>1. /\ next > Len(channels) /\ UNCHANGED <<channels, usable, next, attempt, errors, reached, copies>>
        /\ status' = IF errors = {} THEN "DELIVERED" ELSE "FAILED"
    BY <1>7 DEF Delivery!Conclude
  <2>2. Delivery!TypeOK' /\ TriedInOrder' /\ Delivery!SuccessIsReal' /\ Delivery!CopiesAreBounded'
    BY <1>0, <2>1 DEF Delivery!TypeOK, TriedInOrder, Delivery!SuccessIsReal,
                      Delivery!CopiesAreBounded, Delivery!Positions, Delivery!Attempts,
                      Delivery!Acknowledging
  <2>3. Delivery!Acknowledging \subseteq reached \cup errors
    <3>1. \A p \in P : p < next
      BY <1>1, <2>1
    <3> QED BY <1>0, <3>1 DEF Delivery!SuccessIsReal, Delivery!Acknowledging, P
  <2>4. Delivery!EveryChannelTried'
    BY <2>1, <2>3 DEF Delivery!EveryChannelTried, Delivery!Acknowledging, Delivery!Positions
  <2> QED BY <2>2, <2>4 DEF DeliveryInv, DeliveryIsHonest, Delivery!DeliveryIsHonest
<1>8. CASE UNCHANGED deliveryVars
  BY <1>0, <1>8
     DEF deliveryVars, DeliveryInv, DeliveryIsHonest, Delivery!DeliveryIsHonest,
         Delivery!TypeOK, TriedInOrder, Delivery!SuccessIsReal, Delivery!CopiesAreBounded,
         Delivery!EveryChannelTried, Delivery!Positions, Delivery!Attempts, Delivery!Acknowledging
<1> QED BY <1>0, <1>5, <1>6, <1>7, <1>8, DeliveryMoves

LEMMA DeliveryInvariant == ServicesSpec => []DeliveryInv
<1>1. ServicesInit => DeliveryInv
  <2> SUFFICES ASSUME Delivery!Init PROVE DeliveryInv
    BY DEF ServicesInit
  <2>1. Len(channels) \in Nat
    BY DeliveryConstants DEF Delivery!Init
  <2>2. Delivery!TypeOK
    <3>1. /\ channels \in ChannelLists /\ next = 1 /\ attempt = 0 /\ errors = {}
          /\ status = "PENDING" /\ reached = {} /\ copies = [p \in Delivery!Positions |-> 0]
          /\ usable \subseteq {"WEBSOCKET", "WEBHOOK", "EMAIL"}
      BY DEF Delivery!Init
    <3>2. next \in 1 .. Len(channels) + 1 /\ attempt \in 0 .. Delivery!Attempts - 1
      BY <2>1, <3>1, DeliveryConstants
    <3> QED BY <3>1, <3>2 DEF Delivery!TypeOK, Delivery!ChannelTypes
  <2>3. TriedInOrder
    BY <2>1 DEF Delivery!Init, TriedInOrder
  <2>4. Delivery!CopiesAreBounded
    BY DeliveryConstants DEF Delivery!Init, Delivery!CopiesAreBounded
  <2>5. Delivery!SuccessIsReal /\ Delivery!EveryChannelTried
    BY <2>1 DEF Delivery!Init, Delivery!SuccessIsReal, Delivery!EveryChannelTried,
                Delivery!Acknowledging, Delivery!Positions
  <2> QED BY <2>2, <2>3, <2>4, <2>5 DEF DeliveryInv, DeliveryIsHonest, Delivery!DeliveryIsHonest
<1>2. DeliveryInv /\ [ServicesNext]_allVars => DeliveryInv'
  BY ServicesParts, DeliveryStep
<1> QED BY <1>1, <1>2, PTL DEF ServicesSpec

(* For every list of channels and every number of attempts: what is not    *)
(* reported as failed reached its receiver, nobody is alerted more often   *)
(* than a channel may try, and no channel is left out.                     *)
THEOREM DeliveryTheorem == ServicesSpec => []DeliveryIsHonest
<1>1. DeliveryInv => DeliveryIsHonest
  BY DEF DeliveryInv
<1> QED BY <1>1, DeliveryInvariant, PTL

-----------------------------------------------------------------------------
(* The socket of a browser tab. *)

\* Every socket was opened for a load or for a connection that was lost, and a
\* tab without one has a loss that none was opened for yet.
SocketsCounted ==
  /\ \A s \in Symbols : timers[s] <= drops
  /\ IF shown = NoSymbol
     THEN socket = Socket!NoSocket /\ created = 0 /\ \A s \in Symbols : timers[s] = 0
     ELSE created + (IF socket = Socket!NoSocket THEN 1 ELSE 0) <= switches + drops

SocketInv == Socket!TypeOK /\ SocketsCounted /\ Socket!ReconnectsWhatIsShown

LEMMA SocketConstants == NoSymbol \notin Symbols /\ MaxSwitches \in Nat /\ MaxDrops \in Nat
BY ServicesAssumption DEF Socket!ConstantsAssumption

LEMMA SumsBounded ==
  ASSUME NEW k \in Nat, NEW m \in Nat, NEW n \in Nat, NEW i \in 0 .. m, NEW j \in Nat,
         j <= n, k <= i + j
  PROVE  k <= m + n
OBVIOUS

LEMMA SocketStep == SocketInv /\ [Socket!Next]_socketVars => SocketInv'
<1> SUFFICES ASSUME SocketInv, [Socket!Next]_socketVars PROVE SocketInv'
  OBVIOUS
<1>0. /\ shown \in Symbols \cup {NoSymbol}
      /\ created \in Nat /\ created <= MaxSwitches + MaxDrops
      /\ socket = Socket!NoSocket \/ socket \in [id: 1 .. created, symbol: Symbols, open: BOOLEAN]
      /\ greeting \subseteq 1 .. created /\ heartbeat \in 0 .. created
      /\ timers \in [Symbols -> 0 .. MaxDrops]
      /\ switches \in 0 .. MaxSwitches /\ drops \in 0 .. MaxDrops
      /\ SocketsCounted /\ Socket!ReconnectsWhatIsShown
  BY SocketConstants DEF SocketInv, Socket!TypeOK
<1>1. \A n \in Nat, s \in Symbols, b \in BOOLEAN : [id |-> n, symbol |-> s, open |-> b] # Socket!NoSocket
  BY SocketConstants DEF Socket!NoSocket
<1> USE SocketConstants DEF Socket!Keep, Socket!SetupWebSocket
\* A new socket of symbol s.
<1>8. ASSUME NEW s \in Symbols, Socket!SetupWebSocket(s), shown' = s, greeting' = greeting,
             switches' \in 0 .. MaxSwitches, drops' = drops,
             timers' \in [Symbols -> 0 .. MaxDrops], \A q \in Symbols : timers'[q] <= drops,
             created + 1 <= switches' + drops
      PROVE  SocketInv'
  <2>0. /\ created' = created + 1 /\ heartbeat' = 0
        /\ socket' = [id |-> created + 1, symbol |-> s, open |-> FALSE]
    BY <1>8
  <2>1. socket' # Socket!NoSocket /\ socket'.symbol = s
    BY <2>0 DEF Socket!NoSocket
  <2>2. created + 1 \in 0 .. MaxSwitches + MaxDrops /\ created + 1 \in 1 .. created + 1
        /\ greeting \subseteq 1 .. created + 1 /\ 0 \in 0 .. created + 1
    <3>1. /\ created \in Nat /\ drops \in Nat /\ drops <= MaxDrops
          /\ MaxSwitches \in Nat /\ MaxDrops \in Nat
      BY <1>0
    <3>2. switches' \in 0 .. MaxSwitches /\ created + 1 <= switches' + drops
      BY <1>8
    <3>4. created + 1 <= MaxSwitches + MaxDrops
      <4>1. \A i \in 0 .. MaxSwitches : created + 1 <= i + drops => created + 1 <= MaxSwitches + MaxDrops
        BY <3>1, SumsBounded
      <4> QED BY <3>2, <4>1
    <3>3. greeting \subseteq 1 .. created + 1
      BY <1>0
    <3> QED BY <3>1, <3>3, <3>4
  <2>3. socket' \in [id : 1 .. created', symbol : Symbols, open : BOOLEAN]
    BY <2>0, <2>2
  <2>4. Socket!TypeOK'
    BY <1>0, <1>8, <2>0, <2>2, <2>3 DEF Socket!TypeOK
  <2>5. SocketsCounted'
    <3>0. created \in Nat /\ created + 1 \in Nat
      BY <1>0
    <3>1. created' = created + 1 /\ created + 1 <= switches' + drops
          /\ drops' = drops /\ shown' # NoSymbol
      BY <1>8, <2>0
    <3>2. /\ \A q \in Symbols : timers'[q] <= drops'
          /\ created' + 0 <= switches' + drops'
      BY <1>8, <3>0, <3>1
    <3> QED BY <2>1, <3>1, <3>2 DEF SocketsCounted, Socket!NoSocket
  <2>6. Socket!ReconnectsWhatIsShown'
    BY <1>8, <2>1 DEF Socket!ReconnectsWhatIsShown, Socket!NoSocket
  <2> QED BY <2>4, <2>5, <2>6 DEF SocketInv
<1>2. ASSUME NEW s \in Symbols, Socket!Show(s) PROVE SocketInv'
  <2>1. /\ switches < MaxSwitches /\ switches' = switches + 1 /\ shown' = s
        /\ greeting' = greeting /\ timers' = timers /\ drops' = drops
        /\ IF socket = Socket!NoSocket \/ socket.symbol # s
           THEN Socket!SetupWebSocket(s)
           ELSE socket' = socket /\ created' = created /\ heartbeat' = heartbeat
    BY <1>2 DEF Socket!Show
  <2>2. switches' \in 0 .. MaxSwitches /\ created <= switches + drops
        /\ created + 1 <= switches' + drops
    BY <1>0, <2>1 DEF SocketsCounted
  <2>3. CASE socket = Socket!NoSocket \/ socket.symbol # s
    BY <1>0, <1>8, <2>1, <2>2, <2>3 DEF SocketsCounted
  <2>4. CASE socket # Socket!NoSocket /\ socket.symbol = s
    <3>1. socket' = socket /\ created' = created /\ heartbeat' = heartbeat
      BY <2>1, <2>4
    <3>2. Socket!TypeOK'
      BY <1>0, <2>1, <2>2, <3>1 DEF Socket!TypeOK, Socket!NoSocket
    <3>3. SocketsCounted'
      <4>1. created <= switches' + drops /\ shown' # NoSymbol
        BY <1>0, <2>1, <2>2
      <4> QED BY <1>0, <2>1, <2>4, <3>1, <4>1 DEF SocketsCounted, Socket!NoSocket
    <3>4. Socket!ReconnectsWhatIsShown'
      BY <2>1, <2>4, <3>1 DEF Socket!ReconnectsWhatIsShown, Socket!NoSocket
    <3> QED BY <3>2, <3>3, <3>4 DEF SocketInv
  <2> QED BY <2>3, <2>4
<1>3. ASSUME NEW s \in Symbols, Socket!Reconnect(s) PROVE SocketInv'
  <2>1. /\ timers[s] > 0 /\ timers' = [timers EXCEPT ![s] = timers[s] - 1]
        /\ shown' = shown /\ greeting' = greeting /\ switches' = switches /\ drops' = drops
        /\ IF shown = s /\ socket = Socket!NoSocket
           THEN Socket!SetupWebSocket(s)
           ELSE socket' = socket /\ created' = created /\ heartbeat' = heartbeat
    BY <1>3 DEF Socket!Reconnect
  <2>2. /\ timers' \in [Symbols -> 0 .. MaxDrops] /\ \A q \in Symbols : timers'[q] <= drops
        /\ \A q \in Symbols : q # s => timers'[q] = timers[q]
        /\ shown # NoSymbol
    BY <1>0, <2>1 DEF SocketsCounted
  <2>3. CASE shown = s /\ socket = Socket!NoSocket
    <3>1. created + 1 <= switches' + drops
      BY <1>0, <2>1, <2>2, <2>3 DEF SocketsCounted
    <3> QED BY <1>0, <1>8, <2>1, <2>2, <2>3, <3>1
  <2>4. CASE ~(shown = s /\ socket = Socket!NoSocket)
    <3>1. socket' = socket /\ created' = created /\ heartbeat' = heartbeat
      BY <2>1, <2>4
    <3>2. Socket!TypeOK'
      BY <1>0, <2>1, <2>2, <3>1 DEF Socket!TypeOK, Socket!NoSocket
    <3>3. SocketsCounted'
      BY <1>0, <2>1, <2>2, <3>1 DEF SocketsCounted, Socket!NoSocket
    <3>4. Socket!ReconnectsWhatIsShown'
      BY <1>0, <2>1, <2>2, <2>4, <3>1 DEF Socket!ReconnectsWhatIsShown, Socket!NoSocket
    <3> QED BY <3>2, <3>3, <3>4 DEF SocketInv
  <2> QED BY <2>3, <2>4
<1>4. ASSUME NEW id \in greeting, Socket!Greeted(id) PROVE SocketInv'
  <2>1. Socket!TypeOK'
    BY <1>0, <1>4 DEF Socket!Greeted, Socket!TypeOK
  <2> QED BY <1>0, <1>4, <2>1 DEF Socket!Greeted, SocketInv, SocketsCounted,
                                  Socket!ReconnectsWhatIsShown
<1>5. CASE Socket!Open
  <2>1. /\ socket # Socket!NoSocket /\ socket' = [socket EXCEPT !.open = TRUE]
        /\ greeting' = greeting \cup {socket.id}
        /\ UNCHANGED <<shown, created, heartbeat, timers, switches, drops>>
    BY <1>5 DEF Socket!Open
  <2>2. socket \in [id : 1 .. created, symbol : Symbols, open : BOOLEAN]
    BY <1>0, <2>1
  <2>3. /\ socket' \in [id : 1 .. created, symbol : Symbols, open : BOOLEAN]
        /\ socket'.symbol = socket.symbol /\ greeting' \subseteq 1 .. created
    BY <1>0, <2>1, <2>2
  <2>4. socket' # Socket!NoSocket
    BY <2>3 DEF Socket!NoSocket
  <2>5. Socket!TypeOK'
    BY <1>0, <2>1, <2>3 DEF Socket!TypeOK
  <2>6. SocketsCounted'
    BY <1>0, <2>1, <2>4 DEF SocketsCounted, Socket!NoSocket
  <2>7. Socket!ReconnectsWhatIsShown'
    BY <1>0, <2>1, <2>3, <2>4 DEF Socket!ReconnectsWhatIsShown, Socket!NoSocket
  <2> QED BY <2>5, <2>6, <2>7 DEF SocketInv
<1>6. CASE Socket!Close
  <2>1. /\ socket # Socket!NoSocket /\ drops < MaxDrops /\ drops' = drops + 1
        /\ socket' = Socket!NoSocket /\ heartbeat' = 0
        /\ timers' = IF shown = socket.symbol THEN [timers EXCEPT ![shown] = timers[shown] + 1]
                                              ELSE timers
        /\ UNCHANGED <<shown, created, greeting, switches>>
    BY <1>6 DEF Socket!Close
  <2>2. shown \in Symbols /\ shown # NoSymbol /\ socket.symbol = shown
    BY <1>0, <2>1 DEF SocketsCounted, Socket!ReconnectsWhatIsShown
  <2>3. timers' = [timers EXCEPT ![shown] = timers[shown] + 1]
    BY <2>1, <2>2
  <2>4. /\ timers' \in [Symbols -> 0 .. MaxDrops] /\ \A q \in Symbols : timers'[q] <= drops + 1
        /\ timers'[shown] > 0 /\ drops' \in 0 .. MaxDrops
    <3>1. \A q \in Symbols : timers[q] \in Nat /\ timers[q] <= drops
      BY <1>0 DEF SocketsCounted
    <3>2. timers[shown] + 1 \in 0 .. MaxDrops
      BY <1>0, <2>1, <2>2, <3>1
    <3> QED BY <1>0, <2>1, <2>2, <2>3, <3>1, <3>2
  <2>5. Socket!TypeOK'
    BY <1>0, <2>1, <2>4 DEF Socket!TypeOK, Socket!NoSocket
  <2>6. SocketsCounted'
    <3>1. created + 1 <= switches + (drops + 1)
      BY <1>0, <2>1, <2>2 DEF SocketsCounted
    <3> QED BY <2>1, <2>2, <2>4, <3>1 DEF SocketsCounted, Socket!NoSocket
  <2>7. Socket!ReconnectsWhatIsShown'
    BY <2>1, <2>2, <2>4 DEF Socket!ReconnectsWhatIsShown, Socket!NoSocket
  <2> QED BY <2>5, <2>6, <2>7 DEF SocketInv
<1>7. CASE UNCHANGED socketVars
  BY <1>0, <1>7 DEF socketVars, SocketInv, Socket!TypeOK, SocketsCounted,
                    Socket!ReconnectsWhatIsShown
<1> QED BY <1>2, <1>3, <1>4, <1>5, <1>6, <1>7 DEF Socket!Next

LEMMA SocketInvariant == ServicesSpec => []SocketInv
<1>1. ServicesInit => SocketInv
  <2> SUFFICES ASSUME Socket!Init PROVE SocketInv
    BY DEF ServicesInit
  <2>1. Socket!TypeOK /\ SocketsCounted
    BY SocketConstants DEF Socket!Init, Socket!TypeOK, SocketsCounted
  <2>2. Socket!ReconnectsWhatIsShown
    BY DEF Socket!Init, Socket!ReconnectsWhatIsShown
  <2> QED BY <2>1, <2>2 DEF SocketInv
<1>2. SocketInv /\ [ServicesNext]_allVars => SocketInv'
  BY ServicesParts, SocketStep
<1> QED BY <1>1, <1>2, PTL DEF ServicesSpec

-----------------------------------------------------------------------------
(* A browser tab. *)

\* The load of the last choice is under way, has failed, or was shown.
LoadsOK ==
  /\ \A r \in loads : r.id = seq => r.symbol = wanted
  /\ ~failed /\ symbol # wanted => \E r \in loads : r.id = seq
  /\ connected => symbol \in Symbols

TabInv == Tab!TypeOK /\ LoadsOK /\ Tab!ScreenIsConsistent

LEMMA TabConstants ==
  NoSymbol \notin Symbols /\ MaxTime \in Nat /\ MaxLoads \in Nat /\ MaxInFlight \in Nat
BY ServicesAssumption DEF Tab!ConstantsAssumption

(* What a chain may list.                                                  *)
LEMMA Listings ==
  ASSUME NEW t \in 1 .. MaxTime, NEW list \in Tab!Listed(t)
  PROVE  /\ list \in UNION {Tab!Listed(u) : u \in 0 .. MaxTime}
         /\ list \subseteq 0 .. MaxTime + 1
         /\ IF list = {} THEN Tab!Nearest(list) = 0 ELSE Tab!Nearest(list) \in list
         /\ Tab!Nearest(list) \in 0 .. MaxTime + 1
<1>1. t \in 0 .. MaxTime /\ t + 1 \in 0 .. MaxTime + 1 /\ t \in 0 .. MaxTime + 1 
      /\ t <= t /\ t <= t + 1
  BY TabConstants
<1>2. list = {} \/ list = {t, t + 1}
  BY DEF Tab!Listed
<1>3. list # {} => Tab!Nearest(list) \in list
  <2> SUFFICES ASSUME list = {t, t + 1} PROVE Tab!Nearest(list) \in list
    BY <1>2
  <2>1. \E x \in list : \A y \in list : x <= y
    BY <1>1
  <2>2. (CHOOSE x \in list : \A y \in list : x <= y) \in list
    BY <2>1, Zenon
  <2> QED BY <2>2 DEF Tab!Nearest, Tab!Min
<1>4. list \in UNION {Tab!Listed(u) : u \in 0 .. MaxTime}
  BY <1>1
<1>5. list \subseteq 0 .. MaxTime + 1
  BY <1>1, <1>2
<1>6. Tab!Nearest(list) = 0 \/ list # {}
  BY DEF Tab!Nearest
<1>7. Tab!Nearest(list) \in 0 .. MaxTime + 1
  <2>1. 0 \in 0 .. MaxTime + 1
    BY TabConstants
  <2> QED BY <1>3, <1>5, <1>6, <2>1
<1> QED BY <1>3, <1>4, <1>5, <1>6, <1>7

LEMMA TabTypes ==
  ASSUME Tab!TypeOK
  PROVE  /\ symbol \in Symbols \cup {NoSymbol} /\ wanted \in Symbols \cup {NoSymbol}
         /\ spot \in [symbol : Symbols \cup {NoSymbol}, time : 0 .. MaxTime] /\ clock \in 0 .. MaxTime
         /\ chain \in [symbol : Symbols \cup {NoSymbol},
                      expiries : UNION {Tab!Listed(t) : t \in 0 .. MaxTime}]
         /\ expiry \in 0 .. MaxTime + 1 /\ seq \in 0 .. MaxLoads
         /\ loads \subseteq [id : 1 .. seq, symbol : Symbols, body : BOOLEAN]
         /\ refreshes \in [Symbols -> 0 .. MaxInFlight] /\ lookups \in [Symbols -> 0 .. MaxInFlight]
         /\ panel \in [label : Symbols \cup {NoSymbol}, data : Symbols \cup {NoSymbol}]
         /\ connected \in BOOLEAN /\ failed \in BOOLEAN
BY DEF Tab!TypeOK, Tab!AnySymbol

(* The technicals that a load, a refresh or a message starts.              *)
LEMMA LookUps ==
  ASSUME Tab!TypeOK, NEW s \in Symbols, Tab!LookUp(s) \/ Tab!LookUpIfOpen(s)
  PROVE  /\ lookups' \in [Symbols -> 0 .. MaxInFlight]
         /\ panel' \in [label : Symbols \cup {NoSymbol}, data : Symbols \cup {NoSymbol}]
<1>1. \/ UNCHANGED <<lookups, panel>>
      \/ /\ lookups[s] < MaxInFlight /\ lookups' = [lookups EXCEPT ![s] = lookups[s] + 1]
         /\ panel' = [panel EXCEPT !.label = s]
  BY DEF Tab!LookUp, Tab!LookUpIfOpen
<1>2. lookups[s] < MaxInFlight => lookups[s] + 1 \in 0 .. MaxInFlight
  BY TabTypes, TabConstants
<1> QED BY <1>1, <1>2, TabTypes

(* The screen: what one answer or message may put on it.                   *)
ScreenMoves ==
  \/ UNCHANGED <<symbol, spot, clock, chain, expiry>>
  \/ \E t \in 1 .. MaxTime :
       /\ clock < t /\ symbol \in Symbols /\ symbol' = symbol
       /\ clock' = t /\ spot' = [symbol |-> symbol, time |-> t]
       /\ UNCHANGED <<chain, expiry>>
  \/ \E e \in chain.expiries : expiry' = e /\ UNCHANGED <<symbol, spot, clock, chain>>
  \/ \E t \in 1 .. MaxTime : \E list \in Tab!Listed(t) :
       /\ symbol \in Symbols /\ symbol' = symbol
       /\ chain' = [symbol |-> symbol, expiries |-> list]
       /\ expiry' = IF expiry \in list THEN expiry ELSE Tab!Nearest(list)
       /\ \/ clock < t /\ clock' = t /\ spot' = [symbol |-> symbol, time |-> t]
          \/ UNCHANGED <<clock, spot>>
  \/ \E s \in Symbols : \E t \in 1 .. MaxTime : \E list \in Tab!Listed(t) :
       /\ symbol' = s /\ clock' \in {clock, 0} /\ spot' = [symbol |-> s, time |-> t]
       /\ chain' = [symbol |-> s, expiries |-> list] /\ expiry' = Tab!Nearest(list)
       /\ \E r \in loads : loads' = loads \ {r}

LEMMA TabScreen == TabInv /\ [Tab!Next]_tabVars => ScreenMoves
<1> SUFFICES ASSUME TabInv, [Tab!Next]_tabVars PROVE ScreenMoves
  OBVIOUS
<1> USE DEF Tab!Newer, Tab!Times, Tab!screen, Tab!network, Tab!choice
<1>1. ASSUME NEW s \in Symbols,
             Tab!Load(s) \/ Tab!RefreshDropped(s) \/ Tab!LookUpShown(s) \/ Tab!LookUpFails(s)
      PROVE  ScreenMoves
  BY <1>1 DEF Tab!Load, Tab!RefreshDropped, Tab!LookUpShown, Tab!LookUpFails, ScreenMoves
<1>2. ASSUME NEW s \in Symbols, Tab!RefreshShown(s) PROVE ScreenMoves
  <2>0. PICK t \in 1 .. MaxTime : \E list \in Tab!Listed(t) :
          /\ s = symbol /\ symbol' = symbol /\ Tab!Accept(s, t)
          /\ chain' = [symbol |-> s, expiries |-> list]
          /\ expiry' = IF expiry \in list THEN expiry ELSE Tab!Nearest(list)
    BY <1>2 DEF Tab!RefreshShown, Tab!Shown
  <2>1. PICK list \in Tab!Listed(t) :
          /\ s = symbol /\ symbol' = symbol /\ Tab!Accept(s, t)
          /\ chain' = [symbol |-> s, expiries |-> list]
          /\ expiry' = IF expiry \in list THEN expiry ELSE Tab!Nearest(list)
    BY <2>0
  <2>2. \/ clock < t /\ clock' = t /\ spot' = [symbol |-> symbol, time |-> t]
        \/ UNCHANGED <<clock, spot>>
    BY <2>1, TabTypes, TabConstants DEF Tab!Accept, TabInv
  <2> QED BY <2>1, <2>2 DEF ScreenMoves
<1>3. ASSUME NEW r \in loads, Tab!LoadOutdated(r) \/ Tab!LoadAnswered(r) \/ Tab!LoadFails(r)
      PROVE  ScreenMoves
  BY <1>3 DEF Tab!LoadOutdated, Tab!LoadAnswered, Tab!LoadFails, ScreenMoves
<1>4. ASSUME NEW r \in loads, Tab!LoadShown(r) PROVE ScreenMoves
  <2>1. r.symbol \in Symbols
    BY TabTypes DEF TabInv
  <2>2. PICK t \in 1 .. MaxTime : \E list \in Tab!Listed(t) : Tab!Show(r.symbol, t, list)
    BY <1>4 DEF Tab!LoadShown
  <2>3. PICK list \in Tab!Listed(t) : Tab!Show(r.symbol, t, list)
    BY <2>2
  <2>4. loads' = loads \ {r}
    BY <1>4 DEF Tab!LoadShown
  <2> QED BY <2>1, <2>3, <2>4 DEF Tab!Show, ScreenMoves
<1>5. ASSUME NEW e \in chain.expiries, Tab!SelectExpiry(e) PROVE ScreenMoves
  BY <1>5 DEF Tab!SelectExpiry, ScreenMoves
<1>6. ASSUME NEW t \in 1 .. MaxTime, Tab!PriceMessage(t) PROVE ScreenMoves
  <2>1. symbol \in Symbols /\ clock < t
    BY <1>6, TabTypes, TabConstants DEF Tab!PriceMessage, TabInv, LoadsOK
  <2> QED BY <1>6, <2>1 DEF Tab!PriceMessage, ScreenMoves
<1>7. ASSUME Tab!ShowTechnicals \/ Tab!Connect \/ Tab!OptionsMessage PROVE ScreenMoves
  BY <1>7 DEF Tab!ShowTechnicals, Tab!Connect, Tab!OptionsMessage, ScreenMoves
<1>8. CASE UNCHANGED tabVars
  BY <1>8 DEF tabVars, ScreenMoves
<1> QED BY <1>1, <1>2, <1>3, <1>4, <1>5, <1>6, <1>7, <1>8 DEF Tab!Next

LEMMA ScreenStep ==
  ASSUME TabInv, ScreenMoves
  PROVE  /\ Tab!ScreenIsConsistent'
         /\ symbol' \in Symbols \cup {NoSymbol}
         /\ spot' \in [symbol : Symbols \cup {NoSymbol}, time : 0 .. MaxTime] /\ clock' \in 0 .. MaxTime
         /\ chain' \in [symbol : Symbols \cup {NoSymbol},
                       expiries : UNION {Tab!Listed(t) : t \in 0 .. MaxTime}]
         /\ expiry' \in 0 .. MaxTime + 1
<1>0. /\ Tab!TypeOK /\ spot.symbol = symbol /\ chain.symbol = symbol
      /\ IF chain.expiries = {} THEN expiry = 0 ELSE expiry \in chain.expiries
  BY DEF TabInv, Tab!ScreenIsConsistent
<1>1. \A t \in 1 .. MaxTime : t \in 0 .. MaxTime
  BY TabConstants
<1>2. CASE UNCHANGED <<symbol, spot, clock, chain, expiry>>
  BY <1>0, <1>2, TabTypes DEF Tab!ScreenIsConsistent
<1>3. CASE \E t \in 1 .. MaxTime :
             /\ clock < t /\ symbol \in Symbols /\ symbol' = symbol
             /\ clock' = t /\ spot' = [symbol |-> symbol, time |-> t]
             /\ UNCHANGED <<chain, expiry>>
  BY <1>0, <1>1, <1>3, TabTypes DEF Tab!ScreenIsConsistent
<1>4. CASE \E e \in chain.expiries : expiry' = e /\ UNCHANGED <<symbol, spot, clock, chain>>
  <2>1. \A e \in chain.expiries : e \in 0 .. MaxTime + 1
    BY <1>0, TabTypes, TabConstants DEF Tab!Listed
  <2> QED BY <1>0, <1>4, <2>1, TabTypes DEF Tab!ScreenIsConsistent
\* A chain of the symbol shown.
<1>5. ASSUME NEW t \in 1 .. MaxTime, NEW list \in Tab!Listed(t), symbol' \in Symbols,
             spot'.symbol = symbol', chain' = [symbol |-> symbol', expiries |-> list],
             expiry' = Tab!Nearest(list) \/ (expiry \in list /\ expiry' = expiry)
      PROVE  /\ Tab!ScreenIsConsistent' /\ expiry' \in 0 .. MaxTime + 1
             /\ chain' \in [symbol : Symbols \cup {NoSymbol},
                           expiries : UNION {Tab!Listed(u) : u \in 0 .. MaxTime}]
  <2>1. IF list = {} THEN expiry' = 0 ELSE expiry' \in list
    BY <1>5, Listings
  <2>2. expiry' \in 0 .. MaxTime + 1
    BY <1>5, Listings
  <2> QED BY <1>5, <2>1, <2>2, Listings DEF Tab!ScreenIsConsistent
<1>6. ASSUME NEW t \in 1 .. MaxTime, NEW list \in Tab!Listed(t),
             /\ symbol \in Symbols /\ symbol' = symbol
             /\ chain' = [symbol |-> symbol, expiries |-> list]
             /\ expiry' = IF expiry \in list THEN expiry ELSE Tab!Nearest(list)
             /\ \/ clock < t /\ clock' = t /\ spot' = [symbol |-> symbol, time |-> t]
                \/ UNCHANGED <<clock, spot>>
      PROVE  /\ Tab!ScreenIsConsistent'
             /\ symbol' \in Symbols \cup {NoSymbol} /\ clock' \in 0 .. MaxTime
             /\ spot' \in [symbol : Symbols \cup {NoSymbol}, time : 0 .. MaxTime]
             /\ expiry' \in 0 .. MaxTime + 1
             /\ chain' \in [symbol : Symbols \cup {NoSymbol},
                           expiries : UNION {Tab!Listed(u) : u \in 0 .. MaxTime}]
  <2>1. spot'.symbol = symbol'
    BY <1>0, <1>6
  <2>2. /\ symbol' \in Symbols \cup {NoSymbol} /\ clock' \in 0 .. MaxTime
        /\ spot' \in [symbol : Symbols \cup {NoSymbol}, time : 0 .. MaxTime]
    BY <1>0, <1>1, <1>6, TabTypes
  <2> QED BY <1>5, <1>6, <2>1, <2>2
<1>7. ASSUME NEW s \in Symbols, NEW t \in 1 .. MaxTime, NEW list \in Tab!Listed(t),
             /\ symbol' = s /\ clock' \in {clock, 0} /\ spot' = [symbol |-> s, time |-> t]
             /\ chain' = [symbol |-> s, expiries |-> list] /\ expiry' = Tab!Nearest(list)
      PROVE  /\ Tab!ScreenIsConsistent'
             /\ symbol' \in Symbols \cup {NoSymbol} /\ clock' \in 0 .. MaxTime
             /\ spot' \in [symbol : Symbols \cup {NoSymbol}, time : 0 .. MaxTime]
             /\ expiry' \in 0 .. MaxTime + 1
             /\ chain' \in [symbol : Symbols \cup {NoSymbol},
                           expiries : UNION {Tab!Listed(u) : u \in 0 .. MaxTime}]
  <2>1. spot'.symbol = symbol'
    BY <1>7
  <2>2. /\ symbol' \in Symbols \cup {NoSymbol} /\ clock' \in 0 .. MaxTime
        /\ spot' \in [symbol : Symbols \cup {NoSymbol}, time : 0 .. MaxTime]
    BY <1>0, <1>1, <1>7, TabTypes, TabConstants
  <2> QED BY <1>5, <1>7, <2>1, <2>2
<1> QED BY <1>2, <1>3, <1>4, <1>6, <1>7 DEF ScreenMoves

\* The types that ScreenStep leaves over.
RestOK ==
  /\ seq \in 0 .. MaxLoads /\ wanted \in Symbols \cup {NoSymbol} /\ failed \in BOOLEAN
  /\ loads \subseteq [id : 1 .. seq, symbol : Symbols, body : BOOLEAN]
  /\ refreshes \in [Symbols -> 0 .. MaxInFlight] /\ lookups \in [Symbols -> 0 .. MaxInFlight]
  /\ panel \in [label : Symbols \cup {NoSymbol}, data : Symbols \cup {NoSymbol}]
  /\ connected \in BOOLEAN

LEMMA RestStep == TabInv /\ [Tab!Next]_tabVars => RestOK' /\ LoadsOK'
<1> SUFFICES ASSUME TabInv, [Tab!Next]_tabVars PROVE RestOK' /\ LoadsOK'
  OBVIOUS
<1>0. Tab!TypeOK /\ LoadsOK /\ RestOK
  BY TabTypes DEF TabInv, RestOK
<1> USE DEF Tab!screen, Tab!network, Tab!choice
\* Counters of one symbol move by one.
<1>1. ASSUME NEW s \in Symbols
      PROVE  /\ refreshes[s] > 0 => [refreshes EXCEPT ![s] = refreshes[s] - 1]
                                      \in [Symbols -> 0 .. MaxInFlight]
             /\ refreshes[s] < MaxInFlight => [refreshes EXCEPT ![s] = refreshes[s] + 1]
                                      \in [Symbols -> 0 .. MaxInFlight]
             /\ lookups[s] > 0 => [lookups EXCEPT ![s] = lookups[s] - 1]
                                      \in [Symbols -> 0 .. MaxInFlight]
  <2>1. /\ refreshes[s] \in 0 .. MaxInFlight /\ lookups[s] \in 0 .. MaxInFlight
        /\ refreshes \in [Symbols -> 0 .. MaxInFlight] /\ lookups \in [Symbols -> 0 .. MaxInFlight]
    BY <1>0 DEF RestOK
  <2>2. /\ refreshes[s] > 0 => refreshes[s] - 1 \in 0 .. MaxInFlight
        /\ refreshes[s] < MaxInFlight => refreshes[s] + 1 \in 0 .. MaxInFlight
        /\ lookups[s] > 0 => lookups[s] - 1 \in 0 .. MaxInFlight
    BY <2>1, TabConstants
  <2> QED BY <2>1, <2>2
\* What leaves the loads and the choice alone.
<1>2. ASSUME UNCHANGED <<symbol, seq, wanted, failed, loads>>, connected' => symbol \in Symbols,
             refreshes' \in [Symbols -> 0 .. MaxInFlight],
             lookups' \in [Symbols -> 0 .. MaxInFlight],
             panel' \in [label : Symbols \cup {NoSymbol}, data : Symbols \cup {NoSymbol}],
             connected' \in BOOLEAN
      PROVE  RestOK' /\ LoadsOK'
  BY <1>0, <1>2 DEF RestOK, LoadsOK
<1>3. ASSUME NEW s \in Symbols, Tab!Load(s) PROVE RestOK' /\ LoadsOK'
  <2> DEFINE new == [id |-> seq + 1, symbol |-> s, body |-> FALSE]
  <2>1. /\ seq' = seq + 1 /\ wanted' = s /\ failed' = FALSE /\ loads' = loads \cup {new}
        /\ UNCHANGED <<symbol, refreshes, lookups, panel, connected>> /\ seq < MaxLoads
    BY <1>3 DEF Tab!Load
  <2>2. seq \in Nat /\ seq' \in 0 .. MaxLoads /\ seq' \in 1 .. seq' /\ 1 .. seq \subseteq 1 .. seq'
    BY <1>0, <2>1, TabConstants DEF RestOK
  <2>3. loads' \subseteq [id : 1 .. seq', symbol : Symbols, body : BOOLEAN]
    <3>1. new \in [id : 1 .. seq', symbol : Symbols, body : BOOLEAN]
      BY <2>1, <2>2
    <3>2. \A r \in loads : r \in [id : 1 .. seq', symbol : Symbols, body : BOOLEAN]
      BY <1>0, <2>2 DEF RestOK
    <3> QED BY <2>1, <3>1, <3>2
  <2>4. \A r \in loads : r.id # seq'
    BY <1>0, <2>1, <2>2 DEF RestOK
  <2>5. new.id = seq' /\ new.symbol = s /\ new \in loads'
    BY <2>1
  <2>6. \A r \in loads' : r.id = seq' => r.symbol = wanted'
    BY <2>1, <2>4, <2>5
  <2>8. RestOK'
    BY <1>0, <2>1, <2>2, <2>3 DEF RestOK
  <2>9. LoadsOK'
    BY <1>0, <2>1, <2>5, <2>6 DEF LoadsOK
  <2> QED BY <2>8, <2>9
<1>4. ASSUME NEW s \in Symbols, Tab!RefreshDropped(s) PROVE RestOK' /\ LoadsOK'
  BY <1>0, <1>1, <1>2, <1>4 DEF Tab!RefreshDropped, RestOK, LoadsOK
<1>5. ASSUME NEW s \in Symbols, Tab!RefreshShown(s) PROVE RestOK' /\ LoadsOK'
  <2>1. Tab!LookUpIfOpen(s) /\ UNCHANGED <<symbol, seq, wanted, failed, loads, connected>>
    BY <1>5 DEF Tab!RefreshShown
  <2>2. refreshes' \in [Symbols -> 0 .. MaxInFlight]
    BY <1>1, <1>5 DEF Tab!RefreshShown
  <2> QED BY <1>0, <1>2, <2>1, <2>2, LookUps DEF RestOK, LoadsOK
<1>6. ASSUME NEW s \in Symbols, Tab!LookUpShown(s) \/ Tab!LookUpFails(s)
      PROVE  RestOK' /\ LoadsOK'
  <2>1. lookups' \in [Symbols -> 0 .. MaxInFlight]
    BY <1>1, <1>6 DEF Tab!LookUpShown, Tab!LookUpFails
  <2>2. panel' \in [label : Symbols \cup {NoSymbol}, data : Symbols \cup {NoSymbol}]
    BY <1>0, <1>6 DEF Tab!LookUpShown, Tab!LookUpFails, RestOK
  <2>3. UNCHANGED <<symbol, seq, wanted, failed, loads, refreshes, connected>>
    BY <1>6 DEF Tab!LookUpShown, Tab!LookUpFails
  <2> QED BY <1>0, <1>2, <2>1, <2>2, <2>3 DEF RestOK, LoadsOK
<1>7. ASSUME NEW r \in loads, Tab!LoadOutdated(r) PROVE RestOK' /\ LoadsOK'
  <2>1. /\ r.id # seq /\ loads' = loads \ {r}
        /\ UNCHANGED <<symbol, seq, wanted, failed, refreshes, lookups, panel, connected>>
    BY <1>7 DEF Tab!LoadOutdated, Tab!Outdated
  <2>3. RestOK'
    BY <1>0, <2>1 DEF RestOK
  <2>4. LoadsOK'
    BY <1>0, <2>1 DEF LoadsOK
  <2> QED BY <2>3, <2>4
<1>8. ASSUME NEW r \in loads, Tab!LoadAnswered(r) PROVE RestOK' /\ LoadsOK'
  <2> DEFINE new == [r EXCEPT !.body = TRUE]
  <2>1. /\ r.id = seq /\ loads' = (loads \ {r}) \cup {new}
        /\ UNCHANGED <<symbol, seq, wanted, failed, refreshes, lookups, panel, connected>>
    BY <1>8 DEF Tab!LoadAnswered, Tab!Outdated
  <2>2. r \in [id : 1 .. seq, symbol : Symbols, body : BOOLEAN]
    BY <1>0 DEF RestOK
  <2>3. /\ new.id = r.id /\ new.symbol = r.symbol /\ new \in loads'
        /\ new \in [id : 1 .. seq, symbol : Symbols, body : BOOLEAN]
    BY <2>1, <2>2
  <2>5. \A x \in loads' : x.id = seq' => x.symbol = wanted'
    BY <1>0, <2>1, <2>3 DEF LoadsOK
  <2>6. RestOK'
    <3>1. loads' \subseteq [id : 1 .. seq, symbol : Symbols, body : BOOLEAN]
      BY <1>0, <2>1, <2>3 DEF RestOK
    <3> QED BY <1>0, <2>1, <3>1 DEF RestOK
  <2>7. LoadsOK'
    BY <1>0, <2>1, <2>3, <2>5 DEF LoadsOK
  <2> QED BY <2>6, <2>7
<1>9. ASSUME NEW r \in loads, Tab!LoadFails(r) PROVE RestOK' /\ LoadsOK'
  <2>1. /\ loads' = loads \ {r} /\ failed' = TRUE
        /\ UNCHANGED <<symbol, seq, wanted, refreshes, lookups, panel, connected>>
    BY <1>9 DEF Tab!LoadFails
  <2>3. RestOK'
    BY <1>0, <2>1 DEF RestOK
  <2>4. LoadsOK'
    BY <1>0, <2>1 DEF LoadsOK
  <2> QED BY <2>3, <2>4
<1>10. ASSUME NEW r \in loads, Tab!LoadShown(r) PROVE RestOK' /\ LoadsOK'
  <2>1. /\ r.id = seq /\ loads' = loads \ {r}
        /\ UNCHANGED <<seq, wanted, failed, refreshes>>
    BY <1>10 DEF Tab!LoadShown, Tab!Outdated
  <2>2. r.symbol \in Symbols /\ r.symbol = wanted
    BY <1>0, <2>1 DEF RestOK, LoadsOK
  <2>3. /\ symbol' = r.symbol /\ Tab!LookUp(r.symbol)
        /\ connected' = (connected /\ r.symbol = symbol)
    BY <1>10 DEF Tab!LoadShown, Tab!Show
  <2>4. /\ lookups' \in [Symbols -> 0 .. MaxInFlight]
        /\ panel' \in [label : Symbols \cup {NoSymbol}, data : Symbols \cup {NoSymbol}]
    BY <1>0, <2>2, <2>3, LookUps
  <2>6. RestOK'
    BY <1>0, <2>1, <2>3, <2>4 DEF RestOK
  <2>7. LoadsOK'
    BY <1>0, <2>1, <2>2, <2>3 DEF LoadsOK
  <2> QED BY <2>6, <2>7
<1>11. ASSUME NEW e \in chain.expiries, Tab!SelectExpiry(e) PROVE RestOK' /\ LoadsOK'
  BY <1>0, <1>2, <1>11 DEF Tab!SelectExpiry, RestOK, LoadsOK
<1>12. ASSUME NEW t \in Tab!Times, Tab!PriceMessage(t) PROVE RestOK' /\ LoadsOK'
  <2>1. /\ connected /\ Tab!LookUpIfOpen(symbol)
        /\ UNCHANGED <<symbol, seq, wanted, failed, loads, refreshes, connected>>
    BY <1>12 DEF Tab!PriceMessage
  <2>2. symbol \in Symbols
    BY <1>0, <2>1 DEF LoadsOK
  <2> QED BY <1>0, <1>2, <2>1, <2>2, LookUps DEF RestOK
<1>13. CASE Tab!ShowTechnicals
  <2>1. symbol \in Symbols /\ Tab!LookUp(symbol)
    BY <1>0, <1>13, TabTypes DEF Tab!ShowTechnicals
  <2>2. UNCHANGED <<symbol, seq, wanted, failed, loads, refreshes, connected>>
    BY <1>13 DEF Tab!ShowTechnicals
  <2> QED BY <1>0, <1>2, <2>1, <2>2, LookUps DEF RestOK
<1>14. CASE Tab!Connect
  <2>1. symbol \in Symbols
    BY <1>0, <1>14, TabTypes DEF Tab!Connect
  <2> QED BY <1>0, <1>2, <1>14, <2>1 DEF Tab!Connect, RestOK
<1>15. CASE Tab!OptionsMessage
  <2>1. symbol \in Symbols
    BY <1>0, <1>15 DEF Tab!OptionsMessage, LoadsOK
  <2>2. refreshes' \in [Symbols -> 0 .. MaxInFlight]
    BY <1>1, <1>15, <2>1 DEF Tab!OptionsMessage
  <2> QED BY <1>0, <1>2, <1>15, <2>1, <2>2 DEF Tab!OptionsMessage, RestOK
<1>16. CASE UNCHANGED tabVars
  BY <1>0, <1>2, <1>16 DEF tabVars, RestOK, LoadsOK
<1> QED BY <1>3, <1>4, <1>5, <1>6, <1>7, <1>8, <1>9, <1>10, <1>11, <1>12, <1>13, <1>14, <1>15,
           <1>16 DEF Tab!Next

LEMMA TabInvariant == ServicesSpec => []TabInv
<1>1. ServicesInit => TabInv
  <2> SUFFICES ASSUME Tab!Init PROVE TabInv
    BY DEF ServicesInit
  <2>1. chain \in [symbol : Symbols \cup {NoSymbol},
                  expiries : UNION {Tab!Listed(t) : t \in 0 .. MaxTime}]
    <3>1. 0 \in 0 .. MaxTime
      BY TabConstants
    <3>2. {} \in UNION {Tab!Listed(t) : t \in 0 .. MaxTime}
      BY <3>1 DEF Tab!Listed
    <3> QED BY <3>2 DEF Tab!Init
  <2>2. Tab!TypeOK
    <3>1. RestOK
      <4>1. 0 \in 0 .. MaxInFlight /\ 0 \in 0 .. MaxLoads
        BY TabConstants
      <4>2. [s \in Symbols |-> 0] \in [Symbols -> 0 .. MaxInFlight]
        BY <4>1
      <4>3. refreshes \in [Symbols -> 0 .. MaxInFlight] /\ lookups \in [Symbols -> 0 .. MaxInFlight]
        BY <4>2 DEF Tab!Init
      <4>4. panel \in [label : Symbols \cup {NoSymbol}, data : Symbols \cup {NoSymbol}]
        BY DEF Tab!Init
      <4> QED BY <4>1, <4>3, <4>4 DEF Tab!Init, RestOK
    <3>2. /\ symbol \in Symbols \cup {NoSymbol} /\ clock \in 0 .. MaxTime /\ expiry \in 0 .. MaxTime + 1
          /\ spot \in [symbol : Symbols \cup {NoSymbol}, time : 0 .. MaxTime]
      BY TabConstants DEF Tab!Init
    <3> QED BY <2>1, <3>1, <3>2 DEF RestOK, Tab!TypeOK, Tab!AnySymbol
  <2>3. LoadsOK
    BY DEF Tab!Init, LoadsOK
  <2>4. Tab!ScreenIsConsistent
    BY DEF Tab!Init, Tab!ScreenIsConsistent
  <2> QED BY <2>2, <2>3, <2>4 DEF TabInv
<1>2. TabInv /\ [ServicesNext]_allVars => TabInv'
  <2> SUFFICES ASSUME TabInv, [ServicesNext]_allVars PROVE TabInv'
    OBVIOUS
  <2>1. [Tab!Next]_tabVars
    BY ServicesParts
  <2>2. ScreenMoves /\ RestOK' /\ LoadsOK'
    BY <2>1, TabScreen, RestStep
  <2>3. Tab!TypeOK'
    BY <2>2, ScreenStep DEF RestOK, Tab!TypeOK, Tab!AnySymbol
  <2> QED BY <2>2, <2>3, ScreenStep DEF TabInv
<1> QED BY <1>1, <1>2, PTL DEF ServicesSpec

(* Whichever answers come late, the tab shows one symbol, in the end the   *)
(* one asked for last, and the socket that is to come back is of it.       *)
THEOREM ScreenTheorem == ServicesSpec => []ScreenFollowsChoice
<1>1. TabInv => Tab!OneSymbolOnScreen
  BY DEF TabInv, LoadsOK, Tab!OneSymbolOnScreen, Tab!SettledOnLastChoice
<1>2. SocketInv => Socket!ReconnectsWhatIsShown
  BY DEF SocketInv
<1>3. TabInv /\ SocketInv => ScreenFollowsChoice
  BY <1>1, <1>2 DEF ScreenFollowsChoice
<1> QED BY <1>3, TabInvariant, SocketInvariant, PTL

(* A price gives way to an older one only when a load is shown.            *)
THEOREM PriceTheorem == ServicesSpec => PriceMovesForward
<1> DEFINE Forward == spot.time = clock /\ spot'.time < spot.time
                        => \E r \in loads : loads' = loads \ {r}
<1>1. TabInv /\ [ServicesNext]_allVars => [Forward]_tabVars
  <2> SUFFICES ASSUME TabInv, [ServicesNext]_allVars, spot.time = clock, spot'.time < spot.time
               PROVE  \E r \in loads : loads' = loads \ {r}
    OBVIOUS
  <2>1. ScreenMoves
    BY ServicesParts, TabScreen
  <2>2. spot.time \in Nat /\ clock \in Nat
    BY TabTypes, TabConstants DEF TabInv
  <2> QED BY <2>1, <2>2, TabConstants DEF ScreenMoves
<1>2. TabInv /\ [ServicesNext]_allVars => [Forward]_(Tab!vars)
  BY <1>1 DEF tabVars, Tab!vars, Tab!screen, Tab!network, Tab!choice
<1> QED BY <1>2, TabInvariant, PTL DEF ServicesSpec, PriceMovesForward, Tab!PriceMovesForward

-----------------------------------------------------------------------------
(* The Groww token. *)

\* What a call that waits knows: an answer comes within LoginDelay, and what is
\* to be stored was computed when the call began to wait.
TokenTimes ==
  \A c \in Calls :
    /\ call[c] # "idle" => now <= waiting[c] + LoginDelay
    /\ call[c] = "answer" => waiting[c] + TokenLife <= token[c]
    /\ call[c] = "store" => /\ waiting[c] + TokenLife <= token[c] + LoginDelay
                            /\ ttl[c] + waiting[c] + Margin = token[c]

\* Redis drops a token before its expiry.
StoredOK == cached # 0 => end + Margin <= cached + LoginDelay

TokenInv == Login!TypeOK /\ TokenTimes /\ StoredOK

LEMMA TokenConstants ==
  /\ AdapterOf \in [Calls -> Adapters]
  /\ TokenLife \in Nat \ {0} /\ Margin \in Nat \ {0} /\ LoginDelay \in Nat
  /\ LastSecond \in Nat \ {0} /\ MaxFailures \in Nat
BY ServicesAssumption DEF Login!ConstantsAssumption

LEMMA TokenTypes ==
  ASSUME Login!TypeOK
  PROVE  /\ now \in 1 .. LastSecond /\ now \in Nat
         /\ own \in [Adapters -> 0 .. now + TokenLife]
         /\ cached \in 0 .. now + TokenLife /\ end \in 0 .. now + TokenLife
         /\ call \in [Calls -> {"idle", "read", "reply", "login", "answer", "store"}]
         /\ waiting \in [Calls -> 0 .. now] /\ last \in [Calls -> 0 .. now]
         /\ token \in [Calls -> 0 .. now + TokenLife] /\ ttl \in [Calls -> 0 .. TokenLife]
         /\ \A c \in Calls : call[c] = "store" => ttl[c] > 0
         /\ tokenFailures \in 0 .. MaxFailures
BY TokenConstants DEF Login!TypeOK, Login!HorizonOf

\* A step of one call.
Others(c) ==
  \A d \in Calls \ {c} : /\ call'[d] = call[d] /\ waiting'[d] = waiting[d]
                         /\ token'[d] = token[d] /\ ttl'[d] = ttl[d] /\ last'[d] = last[d]

CallTypes ==
  /\ call \in [Calls -> {"idle", "read", "reply", "login", "answer", "store"}]
  /\ waiting \in [Calls -> 0 .. now] /\ last \in [Calls -> 0 .. now]
  /\ token \in [Calls -> 0 .. now + TokenLife] /\ ttl \in [Calls -> 0 .. TokenLife]

LEMMA OneCall ==
  ASSUME TokenInv, NEW c \in Calls, now' = now, Others(c),
         CallTypes', own' \in [Adapters -> 0 .. now + TokenLife],
         cached' \in 0 .. now + TokenLife, end' \in 0 .. now + TokenLife,
         tokenFailures' \in 0 .. MaxFailures,
         call'[c] # "idle" => now <= waiting'[c] + LoginDelay,
         call'[c] = "answer" => waiting'[c] + TokenLife <= token'[c],
         call'[c] = "store" => /\ ttl'[c] > 0 /\ waiting'[c] + TokenLife <= token'[c] + LoginDelay
                               /\ ttl'[c] + waiting'[c] + Margin = token'[c],
         cached' # 0 => end' + Margin <= cached' + LoginDelay
  PROVE  TokenInv'
<1>0. Login!TypeOK /\ TokenTimes
  BY DEF TokenInv
<1>2. TokenTimes'
  <2> SUFFICES ASSUME NEW d \in Calls
               PROVE  /\ call'[d] # "idle" => now <= waiting'[d] + LoginDelay
                      /\ call'[d] = "answer" => waiting'[d] + TokenLife <= token'[d]
                      /\ call'[d] = "store" =>
                           /\ waiting'[d] + TokenLife <= token'[d] + LoginDelay
                           /\ ttl'[d] + waiting'[d] + Margin = token'[d]
    BY DEF TokenTimes
  <2>1. CASE d = c
    BY <2>1
  <2>2. CASE d # c
    BY <1>0, <2>2 DEF TokenTimes, Others
  <2> QED BY <2>1, <2>2
<1>3. \A d \in Calls : call'[d] = "store" => ttl'[d] > 0
  BY <1>0, TokenTypes DEF Others
<1>5. Login!TypeOK'
  BY <1>0, <1>3, TokenTypes DEF Login!TypeOK, Login!HorizonOf, CallTypes
<1>6. StoredOK'
  BY DEF StoredOK
<1> QED BY <1>2, <1>5, <1>6 DEF TokenInv

LEMMA TokenStep == TokenInv /\ [Login!Next]_loginVars => TokenInv'
<1> SUFFICES ASSUME TokenInv, [Login!Next]_loginVars PROVE TokenInv'
  OBVIOUS
<1>0. Login!TypeOK /\ TokenTimes /\ StoredOK
  BY DEF TokenInv
<1>1. ASSUME NEW c \in Calls
      PROVE  /\ waiting[c] \in 0 .. now /\ token[c] \in 0 .. now + TokenLife
             /\ ttl[c] \in 0 .. TokenLife /\ last[c] \in 0 .. now
             /\ 0 \in 0 .. now /\ now \in 0 .. now /\ now <= now + LoginDelay
             /\ 0 \in 0 .. now + TokenLife /\ now + TokenLife \in 0 .. now + TokenLife
  <2>1. now \in Nat /\ TokenLife \in Nat /\ LoginDelay \in Nat
    BY <1>0, TokenTypes, TokenConstants
  <2>2. /\ waiting[c] \in 0 .. now /\ token[c] \in 0 .. now + TokenLife
        /\ ttl[c] \in 0 .. TokenLife /\ last[c] \in 0 .. now
    BY <1>0, TokenTypes
  <2> QED BY <2>1, <2>2
<1>2. /\ own \in [Adapters -> 0 .. now + TokenLife] /\ tokenFailures \in 0 .. MaxFailures
      /\ cached \in 0 .. now + TokenLife /\ end \in 0 .. now + TokenLife
      /\ cached # 0 => end + Margin <= cached + LoginDelay
  BY <1>0, TokenTypes DEF StoredOK
<1>3. Login!Spend => tokenFailures' \in 0 .. MaxFailures
  BY <1>2, TokenConstants DEF Login!Spend
<1>4. ASSUME NEW c \in Calls, NEW t \in 0 .. now + TokenLife, Login!Keep(c, t)
      PROVE  own' \in [Adapters -> 0 .. now + TokenLife]
  BY <1>2, <1>4 DEF Login!Keep
<1>5. ASSUME NEW c \in Calls, Login!Begin(c) PROVE TokenInv'
  <2>1. own' \in [Adapters -> 0 .. now + TokenLife]
    BY <1>1, <1>4, <1>5 DEF Login!Begin
  <2>2. /\ call' = [call EXCEPT ![c] = "read"] /\ waiting' = [waiting EXCEPT ![c] = now]
        /\ UNCHANGED <<now, cached, end, token, ttl, last, tokenFailures>>
    BY <1>5 DEF Login!Begin, Login!Go
  <2>3. CallTypes' /\ Others(c) /\ call'[c] = "read" /\ waiting'[c] = now
    BY <1>0, <1>1, <2>2, TokenTypes DEF CallTypes, Others
  <2> QED BY <1>1, <1>2, <2>1, <2>2, <2>3, OneCall
<1>6. ASSUME NEW c \in Calls, Login!Read(c) PROVE TokenInv'
  <2>1. /\ call[c] = "read" /\ call' = [call EXCEPT ![c] = "reply"]
        /\ UNCHANGED <<now, own, cached, end, waiting, ttl, last>>
        /\ \E t \in {0, cached} : token' = [token EXCEPT ![c] = t]
        /\ tokenFailures' \in 0 .. MaxFailures
    BY <1>2, <1>3, <1>6 DEF Login!Read
  <2>2. now <= waiting[c] + LoginDelay
    BY <1>0, <2>1 DEF TokenTimes
  <2>3. PICK t \in 0 .. now + TokenLife : token' = [token EXCEPT ![c] = t]
    BY <1>1, <1>2, <2>1
  <2>4. CallTypes' /\ Others(c) /\ call'[c] = "reply" /\ waiting'[c] = waiting[c]
    BY <1>0, <1>1, <2>1, <2>3, TokenTypes DEF CallTypes, Others
  <2> QED BY <1>2, <2>1, <2>2, <2>4, OneCall
<1>7. ASSUME NEW c \in Calls, Login!Hit(c) PROVE TokenInv'
  <2>1. own' \in [Adapters -> 0 .. now + TokenLife]
    BY <1>1, <1>4, <1>7 DEF Login!Hit
  <2>2. /\ call' = [call EXCEPT ![c] = "idle"] /\ waiting' = [waiting EXCEPT ![c] = 0]
        /\ UNCHANGED <<now, cached, end, token, ttl, last, tokenFailures>>
    BY <1>7 DEF Login!Hit, Login!Go
  <2>3. CallTypes' /\ Others(c) /\ call'[c] = "idle"
    BY <1>0, <1>1, <2>2, TokenTypes DEF CallTypes, Others
  <2> QED BY <1>2, <2>1, <2>2, <2>3, OneCall
<1>8. ASSUME NEW c \in Calls, Login!Miss(c) PROVE TokenInv'
  <2>1. /\ call' = [call EXCEPT ![c] = "login"] /\ waiting' = [waiting EXCEPT ![c] = now]
        /\ UNCHANGED <<now, own, cached, end, token, ttl, last, tokenFailures>>
    BY <1>8 DEF Login!Miss, Login!Go
  <2>2. CallTypes' /\ Others(c) /\ call'[c] = "login" /\ waiting'[c] = now
    BY <1>0, <1>1, <2>1, TokenTypes DEF CallTypes, Others
  <2> QED BY <1>1, <1>2, <2>1, <2>2, OneCall
<1>9. ASSUME NEW c \in Calls, Login!Login(c) PROVE TokenInv'
  <2>1. /\ call[c] = "login" /\ call' = [call EXCEPT ![c] = "answer"]
        /\ token' = [token EXCEPT ![c] = now + TokenLife] /\ last' = [last EXCEPT ![c] = now]
        /\ UNCHANGED <<now, own, cached, end, waiting, ttl, tokenFailures>>
    BY <1>9 DEF Login!Login, Login!HorizonOf
  <2>2. now <= waiting[c] + LoginDelay /\ waiting[c] + TokenLife <= now + TokenLife
    BY <1>0, <1>1, <2>1, TokenTypes, TokenConstants DEF TokenTimes
  <2>3. /\ CallTypes' /\ Others(c) /\ call'[c] = "answer" /\ waiting'[c] = waiting[c]
        /\ token'[c] = now + TokenLife
    BY <1>0, <1>1, <2>1, TokenTypes DEF CallTypes, Others
  <2> QED BY <1>2, <2>1, <2>2, <2>3, OneCall
<1>10. ASSUME NEW c \in Calls, Login!LoginFails(c) PROVE TokenInv'
  <2>1. /\ call' = [call EXCEPT ![c] = "idle"] /\ waiting' = [waiting EXCEPT ![c] = 0]
        /\ UNCHANGED <<now, own, cached, end, token, ttl, last>>
        /\ tokenFailures' \in 0 .. MaxFailures
    BY <1>2, <1>3, <1>10 DEF Login!LoginFails, Login!Go
  <2>2. CallTypes' /\ Others(c) /\ call'[c] = "idle"
    BY <1>0, <1>1, <2>1, TokenTypes DEF CallTypes, Others
  <2> QED BY <1>2, <2>1, <2>2, OneCall
<1>11. ASSUME NEW c \in Calls, Login!Answer(c) PROVE TokenInv'
  <2> DEFINE x == Login!StoreTtl(token[c] - now)
  <2>1. own' \in [Adapters -> 0 .. now + TokenLife]
    BY <1>1, <1>4, <1>11 DEF Login!Answer
  <2>2. /\ call[c] = "answer" /\ ttl' = [ttl EXCEPT ![c] = x]
        /\ UNCHANGED <<now, cached, end, token, last, tokenFailures>>
    BY <1>11 DEF Login!Answer
  <2>3. /\ x \in 0 .. TokenLife
        /\ x # 0 => x > 0 /\ x + now + Margin = token[c]
    BY <1>0, <1>1, TokenTypes, TokenConstants DEF Login!StoreTtl
  <2>4. ttl'[c] = x
    BY <1>0, <2>2, TokenTypes
  <2>5. now + TokenLife <= token[c] + LoginDelay
    BY <1>0, <1>1, <2>2, TokenTypes, TokenConstants DEF TokenTimes
  <2>6. CASE x = 0
    <3>1. call' = [call EXCEPT ![c] = "idle"] /\ waiting' = [waiting EXCEPT ![c] = 0]
      BY <1>11, <2>4, <2>6 DEF Login!Answer, Login!Go
    <3>2. CallTypes' /\ Others(c) /\ call'[c] = "idle"
      BY <1>0, <1>1, <2>2, <2>3, <3>1, TokenTypes DEF CallTypes, Others
    <3> QED BY <1>2, <2>1, <2>2, <3>2, OneCall
  <2>7. CASE x # 0
    <3>1. call' = [call EXCEPT ![c] = "store"] /\ waiting' = [waiting EXCEPT ![c] = now]
      BY <1>11, <2>4, <2>7 DEF Login!Answer, Login!Go
    <3>2. /\ CallTypes' /\ Others(c) /\ call'[c] = "store" /\ waiting'[c] = now
          /\ token'[c] = token[c]
      BY <1>0, <1>1, <2>2, <2>3, <3>1, TokenTypes DEF CallTypes, Others
    <3> QED BY <1>1, <1>2, <2>1, <2>2, <2>3, <2>4, <2>5, <2>7, <3>2, OneCall
  <2> QED BY <2>6, <2>7
<1>12. ASSUME NEW c \in Calls, Login!Store(c) PROVE TokenInv'
  <2>1. /\ call[c] = "store" /\ call' = [call EXCEPT ![c] = "idle"]
        /\ waiting' = [waiting EXCEPT ![c] = 0]
        /\ UNCHANGED <<now, own, token, ttl, last>>
        /\ \/ cached' = token[c] /\ end' = now + ttl[c]
           \/ UNCHANGED <<cached, end>>
        /\ tokenFailures' \in 0 .. MaxFailures
    BY <1>2, <1>3, <1>12 DEF Login!Store, Login!Go
  <2>2. /\ now + ttl[c] \in 0 .. now + TokenLife
        /\ now + ttl[c] + Margin <= token[c] + LoginDelay
    BY <1>0, <1>1, <2>1, TokenTypes, TokenConstants DEF TokenTimes
  <2>3. /\ cached' \in 0 .. now + TokenLife /\ end' \in 0 .. now + TokenLife
        /\ cached' # 0 => end' + Margin <= cached' + LoginDelay
    BY <1>1, <1>2, <2>1, <2>2
  <2>4. CallTypes' /\ Others(c) /\ call'[c] = "idle"
    BY <1>0, <1>1, <2>1, TokenTypes DEF CallTypes, Others
  <2> QED BY <1>2, <2>1, <2>3, <2>4, OneCall
<1>13. ASSUME NEW a \in Adapters, Login!Restart(a) PROVE TokenInv'
  <2>1. /\ own' = [own EXCEPT ![a] = 0]
        /\ call' = [c \in Calls |-> IF AdapterOf[c] = a THEN "idle" ELSE call[c]]
        /\ waiting' = [c \in Calls |-> IF AdapterOf[c] = a THEN 0 ELSE waiting[c]]
        /\ UNCHANGED <<now, cached, end, token, ttl, last>>
        /\ tokenFailures' \in 0 .. MaxFailures
    BY <1>2, <1>3, <1>13 DEF Login!Restart
  <2>2. /\ call' \in [Calls -> {"idle", "read", "reply", "login", "answer", "store"}]
        /\ waiting' \in [Calls -> 0 .. now]
    BY <1>0, <1>1, <2>1, TokenTypes
  <2>8. own' \in [Adapters -> 0 .. now + TokenLife]
    <3>1. 0 \in 0 .. now + TokenLife
      BY <1>0, TokenTypes, TokenConstants
    <3> QED BY <1>2, <2>1, <3>1
  <2>3. \A c \in Calls : call'[c] # "idle" => call'[c] = call[c] /\ waiting'[c] = waiting[c]
    BY <2>1
  <2>4. \A c \in Calls : call'[c] = "store" => ttl'[c] > 0
    BY <1>0, <2>1, <2>3, TokenTypes
  <2>5. Login!TypeOK'
    BY <1>0, <2>1, <2>2, <2>4, <2>8, TokenTypes DEF Login!TypeOK, Login!HorizonOf
  <2>6. TokenTimes'
    BY <1>0, <2>1, <2>3 DEF TokenTimes
  <2>7. StoredOK'
    BY <1>0, <2>1 DEF StoredOK
  <2> QED BY <2>5, <2>6, <2>7 DEF TokenInv
<1>14. CASE Login!Tick
  <2>1. /\ now < LastSecond /\ now' = now + 1
        /\ \A c \in Calls : call[c] # "idle" => now < waiting[c] + LoginDelay
        /\ UNCHANGED <<own, cached, end, call, waiting, token, ttl, last, tokenFailures>>
    BY <1>14 DEF Login!Tick
  <2>2. /\ now' \in 1 .. LastSecond /\ 0 .. now \subseteq 0 .. now'
        /\ 0 .. now + TokenLife \subseteq 0 .. now' + TokenLife
    BY <1>0, <2>1, TokenTypes, TokenConstants
  <2>3. /\ own' \in [Adapters -> 0 .. now' + TokenLife]
        /\ cached' \in 0 .. now' + TokenLife /\ end' \in 0 .. now' + TokenLife
        /\ waiting' \in [Calls -> 0 .. now'] /\ last' \in [Calls -> 0 .. now']
        /\ token' \in [Calls -> 0 .. now' + TokenLife]
    BY <1>0, <2>1, <2>2, TokenTypes
  <2>4. Login!TypeOK'
    BY <1>0, <2>1, <2>2, <2>3, TokenTypes DEF Login!TypeOK, Login!HorizonOf
  <2>5. TokenTimes'
    <3> SUFFICES ASSUME NEW c \in Calls, call[c] # "idle" PROVE now' <= waiting[c] + LoginDelay
      BY <1>0, <2>1 DEF TokenTimes
    <3> QED BY <1>0, <1>1, <2>1, TokenTypes, TokenConstants
  <2>6. StoredOK'
    BY <1>0, <2>1 DEF StoredOK
  <2> QED BY <2>4, <2>5, <2>6 DEF TokenInv
<1>15. CASE UNCHANGED loginVars
  BY <1>0, <1>15 DEF loginVars, TokenInv, Login!TypeOK, Login!HorizonOf, TokenTimes, StoredOK
<1> QED BY <1>5, <1>6, <1>7, <1>8, <1>9, <1>10, <1>11, <1>12, <1>13, <1>14, <1>15
        DEF Login!Next, Login!Step

LEMMA TokenInvariant == ServicesSpec => []TokenInv
<1>1. ServicesInit => TokenInv
  <2> SUFFICES ASSUME Login!Init, ServicesInit PROVE TokenInv
    BY DEF ServicesInit
  <2>1. TokenTimes /\ StoredOK
    BY DEF Login!Init, TokenTimes, StoredOK
  <2>2. Login!TypeOK
    <3>1. /\ 1 \in 1 .. LastSecond /\ 0 \in 0 .. 1 + TokenLife /\ 0 \in 0 .. 1
          /\ 0 \in 0 .. TokenLife /\ 0 \in 0 .. MaxFailures
      BY TokenConstants
    <3>2. /\ own \in [Adapters -> 0 .. 1 + TokenLife] /\ waiting \in [Calls -> 0 .. 1]
          /\ last \in [Calls -> 0 .. 1] /\ ttl \in [Calls -> 0 .. TokenLife]
          /\ token \in [Calls -> 0 .. 1 + TokenLife]
      BY <3>1 DEF Login!Init
    <3> QED BY <3>1, <3>2 DEF Login!Init, Login!TypeOK, Login!HorizonOf
  <2> QED BY <2>1, <2>2 DEF TokenInv
<1>2. TokenInv /\ [ServicesNext]_allVars => TokenInv'
  BY ServicesParts, TokenStep
<1> QED BY <1>1, <1>2, PTL DEF ServicesSpec

(* A token found in Redis is good for a while, although its expiry was     *)
(* computed before it was stored.                                          *)
THEOREM TokenTheorem == ServicesSpec => []CachedTokenIsLive
<1>1. TokenInv => CachedTokenIsLive
  BY TokenTypes, TokenConstants
     DEF TokenInv, StoredOK, CachedTokenIsLive, Login!CachedTokenIsLive, Login!Present
<1> QED BY <1>1, TokenInvariant, PTL

\* Is x so late that c may log in again?
Due(c, x) == last[c] + TokenLife <= x + Margin + LoginDelay

\* While nothing fails, a call that logged in finds a token in Redis, its own or
\* one that is not much older, until it may log in again.
SpacedOK ==
  tokenFailures = 0 =>
    \A c \in Calls : last[c] # 0 =>
      /\ call[c] \in {"answer", "store"} => token[c] = last[c] + TokenLife
      /\ call[c] = "login" => Due(c, now)
      /\ call[c] \in {"idle", "read", "reply"} =>
           Due(c, now) \/ (cached # 0 /\ Due(c, cached) /\ Due(c, end))
      /\ call[c] = "reply" => Due(c, now) \/ Due(c, token[c])

\* What one call does: its own part of SpacedOK has to be shown, and for the
\* others that Redis holds no token that is too old.
LEMMA OneSpaced ==
  ASSUME TokenInv, TokenInv', SpacedOK, NEW c \in Calls, now' = now, Others(c),
         tokenFailures' = 0 => tokenFailures = 0,
         \/ UNCHANGED <<cached, end>>
         \/ /\ tokenFailures' = 0 => cached' # 0
            /\ \A d \in Calls \ {c} : Due(d, cached') /\ Due(d, end'),
         tokenFailures' = 0 /\ last'[c] # 0 =>
           /\ call'[c] \in {"answer", "store"} => token'[c] = last'[c] + TokenLife
           /\ call'[c] = "login" => Due(c, now)'
           /\ call'[c] \in {"idle", "read", "reply"} =>
                Due(c, now)' \/ (cached' # 0 /\ Due(c, cached)' /\ Due(c, end)')
           /\ call'[c] = "reply" => Due(c, now)' \/ Due(c, token[c])'
  PROVE  SpacedOK'
<1> SUFFICES ASSUME tokenFailures' = 0, NEW d \in Calls, last'[d] # 0
             PROVE  /\ call'[d] \in {"answer", "store"} => token'[d] = last'[d] + TokenLife
                    /\ call'[d] = "login" => Due(d, now)'
                    /\ call'[d] \in {"idle", "read", "reply"} =>
                         Due(d, now)' \/ (cached' # 0 /\ Due(d, cached)' /\ Due(d, end)')
                    /\ call'[d] = "reply" => Due(d, now)' \/ Due(d, token[d])'
  BY DEF SpacedOK
<1>1. CASE d = c
  BY <1>1
<1>2. CASE d # c
  <2>1. /\ call'[d] = call[d] /\ token'[d] = token[d] /\ last'[d] = last[d]
        /\ tokenFailures = 0
    BY <1>2 DEF Others
  <2>2. /\ call[d] \in {"answer", "store"} => token[d] = last[d] + TokenLife
        /\ call[d] = "login" => Due(d, now)
        /\ call[d] \in {"idle", "read", "reply"} =>
             Due(d, now) \/ (cached # 0 /\ Due(d, cached) /\ Due(d, end))
        /\ call[d] = "reply" => Due(d, now) \/ Due(d, token[d])
    BY <2>1 DEF SpacedOK
  <2>3. /\ Due(d, now)' <=> Due(d, now)
        /\ Due(d, token[d])' <=> Due(d, token[d])
        /\ Due(d, cached)' <=> Due(d, cached')
        /\ Due(d, end)' <=> Due(d, end')
    BY <2>1 DEF Due
  <2> QED BY <1>2, <2>1, <2>2, <2>3
<1> QED BY <1>1, <1>2

\* A token that is stored is not much older than that of any call.
LEMMA StoresAreFresh ==
  ASSUME TokenInv, LoginDelay <= Margin, NEW c \in Calls, NEW d \in Calls, call[c] = "store"
  PROVE  Due(d, token[c]) /\ Due(d, now + ttl[c]) /\ token[c] # 0
<1>1. /\ now \in Nat /\ last[d] \in 0 .. now /\ waiting[c] \in 0 .. now
      /\ token[c] \in 0 .. now + TokenLife /\ ttl[c] \in 0 .. TokenLife /\ ttl[c] > 0
      /\ TokenLife \in Nat /\ Margin \in Nat /\ LoginDelay \in Nat
  BY TokenTypes, TokenConstants DEF TokenInv
<1>2. /\ now <= waiting[c] + LoginDelay /\ waiting[c] + TokenLife <= token[c] + LoginDelay
      /\ ttl[c] + waiting[c] + Margin = token[c]
  BY DEF TokenInv, TokenTimes
<1> QED BY <1>1, <1>2 DEF Due

LEMMA SpacedStep ==
  ASSUME TokenInv, TokenInv', SpacedOK, LoginDelay <= Margin, [Login!Next]_loginVars
  PROVE  /\ SpacedOK'
         /\ \A c \in Calls : tokenFailures = 0 /\ last[c] # 0 /\ last'[c] # last[c] =>
              last[c] + TokenLife <= last'[c] + Margin + LoginDelay
<1>0. Login!TypeOK /\ TokenTimes /\ StoredOK
  BY DEF TokenInv
<1>1. /\ now \in Nat /\ TokenLife \in Nat /\ Margin \in Nat /\ LoginDelay \in Nat
      /\ cached \in Nat /\ end \in Nat /\ tokenFailures \in Nat
      /\ \A c \in Calls : /\ waiting[c] \in Nat /\ token[c] \in Nat /\ ttl[c] \in Nat
                          /\ last[c] \in 0 .. now
  BY <1>0, TokenTypes, TokenConstants
<1>2. Login!Spend => tokenFailures' # 0
  BY <1>1 DEF Login!Spend
\* What SpacedOK says of one call.
<1>3. ASSUME NEW c \in Calls, tokenFailures = 0, last[c] # 0
      PROVE  /\ call[c] \in {"answer", "store"} => token[c] = last[c] + TokenLife
             /\ call[c] = "login" => Due(c, now)
             /\ call[c] \in {"idle", "read", "reply"} =>
                  Due(c, now) \/ (cached # 0 /\ Due(c, cached) /\ Due(c, end))
             /\ call[c] = "reply" => Due(c, now) \/ Due(c, token[c])
  BY <1>3 DEF SpacedOK
<1>4. ASSUME NEW c \in Calls, Login!Begin(c) PROVE SpacedOK' /\ UNCHANGED last
  <2>1. /\ call[c] = "idle" /\ call'[c] = "read" /\ Others(c)
        /\ UNCHANGED <<now, cached, end, token, last, tokenFailures>>
    BY <1>0, <1>4, TokenTypes DEF Login!Begin, Login!Go, Others
  <2>2. SpacedOK'
    BY <1>3, <2>1, OneSpaced DEF Due
  <2> QED BY <2>1, <2>2
<1>5. ASSUME NEW c \in Calls, Login!Read(c) PROVE SpacedOK' /\ UNCHANGED last
  <2>1. /\ call[c] = "read" /\ call'[c] = "reply" /\ Others(c)
        /\ UNCHANGED <<now, cached, end, last>>
        /\ \/ tokenFailures' = tokenFailures /\ token'[c] = IF Login!Present THEN cached ELSE 0
           \/ tokenFailures' # 0
    BY <1>0, <1>2, <1>5, TokenTypes DEF Login!Read, Others
  <2>2. ASSUME tokenFailures' = 0, last[c] # 0 PROVE Due(c, now) \/ Due(c, token'[c])
    BY <1>1, <1>3, <2>1, <2>2 DEF Due, Login!Present
  <2>3. ASSUME tokenFailures' = 0, last[c] # 0
        PROVE  Due(c, now) \/ (cached # 0 /\ Due(c, cached) /\ Due(c, end))
    BY <1>3, <2>1, <2>3
  <2>4. tokenFailures' = 0 => tokenFailures = 0
    BY <2>1
  <2>5. SpacedOK'
    BY <2>1, <2>2, <2>3, <2>4, OneSpaced DEF Due
  <2> QED BY <2>1, <2>5
<1>6. ASSUME NEW c \in Calls, Login!Hit(c) PROVE SpacedOK' /\ UNCHANGED last
  <2>1. /\ call[c] = "reply" /\ call'[c] = "idle" /\ Others(c)
        /\ UNCHANGED <<now, cached, end, token, last, tokenFailures>>
    BY <1>0, <1>6, TokenTypes DEF Login!Hit, Login!Go, Others
  <2>2. SpacedOK'
    BY <1>3, <2>1, OneSpaced DEF Due
  <2> QED BY <2>1, <2>2
<1>7. ASSUME NEW c \in Calls, Login!Miss(c) PROVE SpacedOK' /\ UNCHANGED last
  <2>1. /\ call[c] = "reply" /\ call'[c] = "login" /\ Others(c) /\ now > token[c]
        /\ UNCHANGED <<now, cached, end, token, last, tokenFailures>>
    BY <1>0, <1>7, TokenTypes DEF Login!Miss, Login!Go, Login!Expired, Others
  <2>2. ASSUME tokenFailures = 0, last[c] # 0 PROVE Due(c, now)
    BY <1>1, <1>3, <2>1, <2>2 DEF Due
  <2>3. SpacedOK'
    BY <2>1, <2>2, OneSpaced DEF Due
  <2> QED BY <2>1, <2>3
<1>8. ASSUME NEW c \in Calls, Login!Login(c)
      PROVE  /\ SpacedOK' /\ \A d \in Calls \ {c} : last'[d] = last[d]
             /\ last'[c] = now /\ (tokenFailures = 0 /\ last[c] # 0 => Due(c, now))
  <2>1. /\ call[c] = "login" /\ call'[c] = "answer" /\ Others(c)
        /\ last'[c] = now /\ token'[c] = now + TokenLife
        /\ UNCHANGED <<now, cached, end, tokenFailures>>
    BY <1>0, <1>8, TokenTypes DEF Login!Login, Login!HorizonOf, Others
  <2>2. SpacedOK'
    BY <2>1, OneSpaced
  <2> QED BY <1>3, <2>1, <2>2 DEF Others
<1>9. ASSUME NEW c \in Calls, Login!LoginFails(c) PROVE SpacedOK' /\ UNCHANGED last
  <2>1. /\ call'[c] = "idle" /\ Others(c) /\ UNCHANGED <<now, cached, end, token, last>>
        /\ \/ call[c] = "login" /\ tokenFailures' = tokenFailures
           \/ tokenFailures' # 0
    BY <1>0, <1>2, <1>9, TokenTypes DEF Login!LoginFails, Login!Go, Others
  <2>2. SpacedOK'
    BY <1>3, <2>1, OneSpaced DEF Due
  <2> QED BY <2>1, <2>2
<1>10. ASSUME NEW c \in Calls, Login!Answer(c) PROVE SpacedOK' /\ UNCHANGED last
  <2>1. /\ call[c] = "answer" /\ Others(c)
        /\ UNCHANGED <<now, cached, end, token, last, tokenFailures>>
        /\ ttl'[c] = Login!StoreTtl(token[c] - now)
        /\ call'[c] = IF ttl'[c] = 0 THEN "idle" ELSE "store"
    BY <1>0, <1>10, TokenTypes DEF Login!Answer, Login!Go, Others
  <2>2. ASSUME tokenFailures = 0, last[c] # 0, call'[c] = "idle" PROVE Due(c, now)
    BY <1>1, <1>3, <2>1, <2>2 DEF Due, Login!StoreTtl
  <2>3. tokenFailures = 0 /\ last[c] # 0 => token[c] = last[c] + TokenLife
    BY <1>3, <2>1
  <2>4. SpacedOK'
    BY <2>1, <2>2, <2>3, OneSpaced DEF Due
  <2> QED BY <2>1, <2>4
<1>11. ASSUME NEW c \in Calls, Login!Store(c) PROVE SpacedOK' /\ UNCHANGED last
  <2>1. /\ call[c] = "store" /\ call'[c] = "idle" /\ Others(c)
        /\ UNCHANGED <<now, token, last>>
        /\ \/ cached' = token[c] /\ end' = now + ttl[c] /\ tokenFailures' = tokenFailures
           \/ UNCHANGED <<cached, end>> /\ tokenFailures' # 0
    BY <1>0, <1>2, <1>11, TokenTypes DEF Login!Store, Login!Go, Others
  <2>2. CASE cached' = token[c] /\ end' = now + ttl[c] /\ tokenFailures' = tokenFailures
    <3>1. cached' # 0 /\ \A d \in Calls : Due(d, cached') /\ Due(d, end')
      BY <2>1, <2>2, StoresAreFresh
    <3> QED BY <2>1, <2>2, <3>1, OneSpaced DEF Due
  <2>3. CASE tokenFailures' # 0
    BY <2>1, <2>3 DEF SpacedOK
  <2> QED BY <2>1, <2>2, <2>3
<1>12. ASSUME NEW a \in Adapters, Login!Restart(a) PROVE SpacedOK' /\ UNCHANGED last
  <2>1. /\ call' = [c \in Calls |-> IF AdapterOf[c] = a THEN "idle" ELSE call[c]]
        /\ UNCHANGED <<now, cached, end, token, last>>
        /\ \/ /\ \A c \in Calls : AdapterOf[c] = a => call[c] = "idle"
              /\ tokenFailures' = tokenFailures
           \/ tokenFailures' # 0
    BY <1>2, <1>12 DEF Login!Restart
  <2>2. CASE tokenFailures' # 0
    BY <2>1, <2>2 DEF SpacedOK
  <2>3. CASE /\ \A c \in Calls : AdapterOf[c] = a => call[c] = "idle"
             /\ tokenFailures' = tokenFailures
    <3>1. \A c \in Calls : call'[c] = call[c]
      BY <2>1, <2>3
    <3>2. SpacedOK'
      BY <2>1, <2>3, <3>1 DEF SpacedOK, Due
    <3> QED BY <2>1, <3>2
  <2> QED BY <2>1, <2>2, <2>3
<1>13. ASSUME Login!Tick PROVE SpacedOK' /\ UNCHANGED last
  <2>1. now' = now + 1 /\ UNCHANGED <<cached, end, call, token, last, tokenFailures>>
    BY <1>13 DEF Login!Tick
  <2>2. \A c \in Calls : Due(c, now) => last[c] + TokenLife <= now' + Margin + LoginDelay
    BY <1>1, <2>1 DEF Due
  <2>3. SpacedOK'
    BY <2>1, <2>2 DEF SpacedOK, Due
  <2> QED BY <2>1, <2>3
<1>14. ASSUME UNCHANGED loginVars PROVE SpacedOK' /\ UNCHANGED last
  BY <1>14 DEF loginVars, SpacedOK, Due
<1>15. /\ SpacedOK'
       /\ \/ UNCHANGED last
          \/ \E c \in Calls : /\ \A d \in Calls \ {c} : last'[d] = last[d]
                              /\ last'[c] = now /\ (tokenFailures = 0 /\ last[c] # 0 => Due(c, now))
  BY <1>4, <1>5, <1>6, <1>7, <1>8, <1>9, <1>10, <1>11, <1>12, <1>13, <1>14
     DEF Login!Next, Login!Step
<1> QED BY <1>15 DEF Due

(* While nothing fails, no call logs in again before the token of its last *)
(* login is about to expire: polls do not generate a token each.  What a   *)
(* login or a command to Redis takes must not exceed the margin.           *)
THEOREM SpacedTheorem ==
  ASSUME LoginDelay <= Margin
  PROVE  ServicesSpec => LoginsAreSpaced
<1> DEFINE Apart ==
             \A c \in Calls : tokenFailures = 0 /\ last[c] # 0 /\ last'[c] # last[c]
                => last'[c] >= last[c] + TokenLife - Margin - LoginDelay
<1>1. ServicesInit => SpacedOK
  BY DEF ServicesInit, Login!Init, SpacedOK
<1>2. TokenInv /\ TokenInv' /\ SpacedOK /\ [ServicesNext]_allVars => SpacedOK'
  BY ServicesParts, SpacedStep
<1>3. TokenInv /\ TokenInv' /\ SpacedOK /\ [ServicesNext]_allVars => [Apart]_(Login!vars)
  <2> SUFFICES ASSUME TokenInv, TokenInv', SpacedOK, [ServicesNext]_allVars, NEW c \in Calls,
                      tokenFailures = 0, last[c] # 0, last'[c] # last[c]
               PROVE  last'[c] >= last[c] + TokenLife - Margin - LoginDelay
    OBVIOUS
  <2>1. last[c] + TokenLife <= last'[c] + Margin + LoginDelay
    BY ServicesParts, SpacedStep
  <2>2. /\ last[c] \in Nat /\ last'[c] \in Nat
        /\ TokenLife \in Nat /\ Margin \in Nat /\ LoginDelay \in Nat
    BY TokenConstants DEF TokenInv, Login!TypeOK
  <2> QED BY <2>1, <2>2
<1> QED BY <1>1, <1>2, <1>3, TokenInvariant, PTL
        DEF ServicesSpec, LoginsAreSpaced, Login!LoginsAreSpaced

-----------------------------------------------------------------------------
(* Every component keeps to its types, whatever the others do.             *)
THEOREM TypeCorrect == ServicesSpec => []ServicesTypeOK
<1>1. ServicesInit => TypeInv
  BY TypeInit DEF ServicesInit
<1>2. TypeInv /\ [ServicesNext]_allVars => TypeInv'
  BY ServicesParts, TypeStep
<1>3. TypeInv /\ SlotInv /\ DeliveryInv /\ TabInv /\ SocketInv /\ TokenInv => ServicesTypeOK
  BY DEF TypeInv, SlotInv, DeliveryInv, TabInv, SocketInv, TokenInv, ServicesTypeOK
<1> QED BY <1>1, <1>2, <1>3, SlotInvariant, DeliveryInvariant, TabInvariant, SocketInvariant,
           TokenInvariant, PTL DEF ServicesSpec
=============================================================================
