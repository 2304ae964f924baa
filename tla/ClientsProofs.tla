--------------------------- MODULE ClientsProofs ----------------------------
(***************************************************************************)
(* Proofs about components of MCDataPaths, for every instance: the schema  *)
(* migrations, the database pool, the Redis client, the symbol catalogue, the *)
(* workbook; and that every component of it keeps to its types.            *)
(***************************************************************************)
EXTENDS SourcesProofs, BacktestProofs

-----------------------------------------------------------------------------
(* The migrations.  Every script is applied exactly once, whatever runners *)
(* overlap, fail or crash, init_schema.sql among them.                     *)

(* The initial state satisfies the inductive invariant.                    *)
LEMMA MigrationsInitially == ConstantsAssumption /\ Init => IInv
BY DEF Init, IInv, TypeOK, OpenTransactions, RowsAreUnique, NothingSkipped,
                 MigrationsAreSound, AppliedIffRecorded, InitFirst, UpToDate, ConstantsAssumption

(* A script that is shipped disturbs nothing that is under way.            *)
LEMMA ShipInvariant ==
  ASSUME IInv, NEW s \in Scripts, Ship(s) PROVE IInv'
BY DEF Ship, IInv, TypeOK, OpenTransactions, RowsAreUnique, NothingSkipped,
       MigrationsAreSound, AppliedIffRecorded, InitFirst, UpToDate

(* A run that begins finds init_schema.sql among its scripts.              *)
LEMMA BeginInvariant ==
  ASSUME IInv, NEW r \in Runners, Begin(r) PROVE IInv'
<1> USE DEF Begin, IInv
<1>1. TypeOK' /\ 0 \in shipped'
  BY DEF TypeOK
<1>2. OpenTransactions'
  BY DEF TypeOK, OpenTransactions
<1>3. RowsAreUnique'
  BY DEF TypeOK, RowsAreUnique
<1>4. NothingSkipped'
  BY DEF TypeOK, NothingSkipped
<1>5. MigrationsAreSound'
  BY DEF TypeOK, MigrationsAreSound, AppliedIffRecorded, InitFirst, UpToDate
<1> QED BY <1>1, <1>2, <1>3, <1>4, <1>5

(* The next script is the smallest one left: unless it is init_schema.sql, *)
(* that one has its row.                                                   *)
LEMMA ExecuteInvariant ==
  ASSUME IInv, NEW r \in Runners, Execute(r) PROVE IInv'
<1> USE DEF Execute, IInv
<1>1. PICK s \in left[r] : /\ \A x \in left[r] : s <= x
                           /\ left' = [left EXCEPT ![r] = @ \ {s}]
                           /\ current' = [current EXCEPT ![r] = {s}]
  OBVIOUS
<1>2. s \in files[r] /\ s \in Scripts /\ s \in Nat
  BY <1>1 DEF TypeOK, NothingSkipped, ConstantsAssumption
<1>3. s = 0 \/ 0 \in recorded
  <2>1. 0 \in recorded \cup left[r] \cup current[r]
    BY DEF NothingSkipped
  <2>2. current[r] = {}
    BY DEF OpenTransactions
  <2>3. ASSUME 0 \in left[r] PROVE s = 0
    BY <1>1, <1>2, <2>3
  <2> QED BY <2>1, <2>2, <2>3
<1>4. TypeOK' /\ 0 \in shipped'
  BY <1>1, <1>2 DEF TypeOK
<1>5. OpenTransactions'
  BY <1>1, <1>2, <1>3 DEF TypeOK, OpenTransactions
<1>6. RowsAreUnique'
  BY <1>1 DEF TypeOK, RowsAreUnique
<1>7. NothingSkipped'
  BY <1>1, <1>2 DEF TypeOK, NothingSkipped, OpenTransactions
<1>8. MigrationsAreSound'
  BY DEF TypeOK, MigrationsAreSound, AppliedIffRecorded, InitFirst, UpToDate
<1> QED BY <1>4, <1>5, <1>6, <1>7, <1>8

(* Only a script without a row, inserted by no other, can be inserted.     *)
LEMMA RecordInvariant ==
  ASSUME IInv, NEW r \in Runners, Record(r) PROVE IInv'
<1> USE DEF Record, IInv
<1>1. TypeOK' /\ 0 \in shipped'
  BY DEF TypeOK
<1>2. OpenTransactions'
  BY DEF TypeOK, OpenTransactions
<1>3. RowsAreUnique'
  <2> SUFFICES ASSUME NEW q \in Runners, phase'[q] = "commit",
                      NEW p \in Runners \ {q}, phase'[p] = "commit"
               PROVE current[q] \cap recorded = {} /\ current[p] \cap current[q] = {}
    <3>1. \A q \in Runners : phase'[q] = "commit" => current[q] \cap recorded = {}
      BY DEF TypeOK, RowsAreUnique
    <3> QED BY <3>1 DEF RowsAreUnique
  <2>1. current[q] \cap recorded = {}
    BY DEF TypeOK, RowsAreUnique
  <2>2. CASE q # r /\ p # r
    BY <2>2 DEF TypeOK, RowsAreUnique
  <2>3. CASE q = r \/ p = r
    <3>1. phase[q] \in {"record", "commit"} /\ phase[p] \in {"record", "commit"}
      BY DEF TypeOK
    <3>2. PICK s : current[q] = {s}
      BY <3>1 DEF OpenTransactions
    <3>3. PICK t : current[p] = {t}
      BY <3>1 DEF OpenTransactions
    <3>4. current[q] # current[p]
      BY <2>3 DEF TypeOK
    <3> QED BY <2>1, <3>2, <3>3, <3>4
  <2> QED BY <2>1, <2>2, <2>3
<1>4. NothingSkipped'
  BY DEF TypeOK, NothingSkipped
<1>5. MigrationsAreSound'
  BY DEF TypeOK, MigrationsAreSound, AppliedIffRecorded, InitFirst, UpToDate
<1> QED BY <1>1, <1>2, <1>3, <1>4, <1>5

(* The statements and the row become visible together.                     *)
LEMMA CommitInvariant ==
  ASSUME IInv, NEW r \in Runners, Commit(r) PROVE IInv'
<1> USE DEF Commit, IInv
<1>1. PICK s \in files[r] : current[r] = {s} /\ s \notin left[r] /\ (s = 0 \/ 0 \in recorded)
  BY DEF OpenTransactions
<1>2. s \in Scripts /\ s \notin recorded
  BY <1>1 DEF TypeOK, RowsAreUnique
<1>3. recorded' = recorded \cup {s}
  BY <1>1
<1>4. \A x \in Scripts : applied'[x] = IF x = s THEN applied[x] + 1 ELSE applied[x]
  BY <1>1
<1>5. TypeOK' /\ 0 \in shipped'
  BY <1>2, <1>3 DEF TypeOK
<1>6. OpenTransactions'
  BY <1>3 DEF TypeOK, OpenTransactions
<1>7. RowsAreUnique'
  <2>1. ASSUME NEW q \in Runners, phase'[q] = "commit" PROVE q # r /\ phase[q] = "commit" /\ current'[q] = current[q]
    BY <2>1 DEF TypeOK
  <2>2. ASSUME NEW q \in Runners, phase'[q] = "commit" PROVE s \notin current[q]
    BY <1>1, <2>1, <2>2 DEF RowsAreUnique
  <2> QED BY <1>3, <2>1, <2>2 DEF RowsAreUnique
<1>8. NothingSkipped'
  BY <1>1, <1>3 DEF TypeOK, NothingSkipped
<1>9. MigrationsAreSound'
  <2>1. AppliedIffRecorded'
    <3> SUFFICES ASSUME NEW x \in Scripts PROVE applied'[x] = IF x \in recorded' THEN 1 ELSE 0
      BY DEF AppliedIffRecorded
    <3>1. CASE x = s
      BY <1>2, <1>3, <1>4, <3>1 DEF MigrationsAreSound, AppliedIffRecorded
    <3>2. CASE x # s
      BY <1>3, <1>4, <3>2 DEF MigrationsAreSound, AppliedIffRecorded
    <3> QED BY <3>1, <3>2
  <2>2. InitFirst'
    BY <1>1, <1>3 DEF InitFirst
  <2>3. UpToDate'
    BY <1>3 DEF TypeOK, MigrationsAreSound, UpToDate
  <2> QED BY <2>1, <2>2, <2>3 DEF MigrationsAreSound
<1> QED BY <1>5, <1>6, <1>7, <1>8, <1>9

(* A transaction that is rolled back leaves nothing.                       *)
LEMMA FailInvariant ==
  ASSUME IInv, NEW r \in Runners, Fail(r) PROVE IInv'
<1> USE DEF Fail, IInv
<1>1. TypeOK' /\ 0 \in shipped'
  BY DEF TypeOK
<1>2. OpenTransactions' /\ RowsAreUnique'
  BY DEF TypeOK, OpenTransactions, RowsAreUnique
<1>3. NothingSkipped'
  BY DEF TypeOK, NothingSkipped
<1>4. MigrationsAreSound'
  BY DEF TypeOK, MigrationsAreSound, AppliedIffRecorded, InitFirst, UpToDate
<1> QED BY <1>1, <1>2, <1>3, <1>4

(* A runner to which nothing is left has found everything recorded.        *)
LEMMA FinishInvariant ==
  ASSUME IInv, NEW r \in Runners, Finish(r) PROVE IInv'
<1> USE DEF Finish, IInv
<1>1. files[r] \subseteq recorded
  BY DEF NothingSkipped, OpenTransactions
<1>2. TypeOK' /\ 0 \in shipped'
  BY DEF TypeOK
<1>3. OpenTransactions' /\ RowsAreUnique'
  BY DEF TypeOK, OpenTransactions, RowsAreUnique
<1>4. NothingSkipped'
  BY DEF TypeOK, NothingSkipped
<1>5. MigrationsAreSound'
  BY <1>1 DEF TypeOK, MigrationsAreSound, AppliedIffRecorded, InitFirst, UpToDate
<1> QED BY <1>2, <1>3, <1>4, <1>5

LEMMA MigrationsStep == IInv /\ [Next]_vars => IInv'
<1> SUFFICES ASSUME IInv, [Next]_vars PROVE IInv'
  OBVIOUS
<1>1. CASE Next
  BY <1>1, ShipInvariant, BeginInvariant, ExecuteInvariant, RecordInvariant, CommitInvariant,
     FailInvariant, FinishInvariant DEF Next
<1>2. CASE UNCHANGED vars
  BY <1>2 DEF vars, IInv, TypeOK, OpenTransactions, RowsAreUnique, NothingSkipped,
              MigrationsAreSound, AppliedIffRecorded, InitFirst, UpToDate
<1> QED BY <1>1, <1>2

(* Crashes, failures and overlapping runners apply no script twice, none   *)
(* without its row, and none before init_schema.sql; and a runner that ends*)
(* well has left nothing undone (scripts/migrate.py:40).                   *)
THEOREM MigrationsSound == Spec => []MigrationsAreSound
<1>1. IInv => MigrationsAreSound
  BY DEF IInv
<1>2. Init => IInv
  BY MigrationsInitially, PathsAssumption
<1> QED BY <1>1, <1>2, MigrationsStep, PTL DEF Spec

-----------------------------------------------------------------------------
(* The database pool.  Whoever holds the lock creates, and while it does   *)
(* there is no pool of the loop's; what is open beside is being closed.    *)
PoolInv ==
  /\ pools \in 0 .. MaxPools /\ turn \in Tasks \cup {NoTask}
  /\ registered \cup open \cup closing \subseteq 1 .. pools
  /\ registered = {} \/ \E p \in 1 .. pools : registered = {p}
  /\ asking \subseteq Tasks /\ uses \in [Tasks -> 0 .. pools]
  /\ turn # NoTask => registered = {} /\ pools > 0
  /\ open \subseteq registered \cup closing \cup (IF turn # NoTask THEN {pools} ELSE {})

LEMMA PoolInitially == Pool!Init => PoolInv
BY PathsAssumption DEF Pool!Init, Pool!ConstantsAssumption, PoolInv

LEMMA PoolStep == PoolInv /\ [Pool!Next]_poolVars => PoolInv'
<1> SUFFICES ASSUME PoolInv, [Pool!Next]_poolVars PROVE PoolInv'
  OBVIOUS
<1> USE DEF PoolInv
<1>0. NoTask \notin Tasks /\ MaxPools \in Nat
  BY PathsAssumption DEF Pool!ConstantsAssumption
<1>1. ASSUME NEW t \in Tasks, Pool!Get(t) PROVE PoolInv'
  BY <1>0, <1>1 DEF Pool!Get
<1>2. ASSUME NEW t \in Tasks, Pool!Lock(t) PROVE PoolInv'
  <2>1. CASE registered = {} /\ Pool!Create(t)
    BY <1>0, <1>2, <2>1 DEF Pool!Lock, Pool!Create
  <2>2. CASE ~(registered = {} /\ Pool!Create(t))
    BY <1>0, <1>2, <2>2 DEF Pool!Lock
  <2> QED BY <2>1, <2>2
<1>3. ASSUME NEW t \in Tasks, Pool!Created(t) PROVE PoolInv'
  BY <1>0, <1>3 DEF Pool!Created
<1>4. ASSUME NEW t \in Tasks, Pool!Release(t) PROVE PoolInv'
  BY <1>0, <1>4 DEF Pool!Release
<1>5. ASSUME Pool!Close PROVE PoolInv'
  BY <1>0, <1>5 DEF Pool!Close
<1>6. ASSUME NEW p \in closing, Pool!Closed(p) PROVE PoolInv'
  BY <1>0, <1>6 DEF Pool!Closed
<1>7. ASSUME UNCHANGED poolVars PROVE PoolInv'
  BY <1>7 DEF poolVars
<1> QED BY <1>1, <1>2, <1>3, <1>4, <1>5, <1>6, <1>7 DEF Pool!Next

(* A set of at most one element, as the model counts it.                   *)
LEMMA OpenAtMostOnce ==
  ASSUME NEW x, NEW S, S \subseteq {x} PROVE Pool!Cardinality(S) <= 1
<1>1. S = {} \/ S = {x}
  OBVIOUS
<1>2. Pool!Cardinality(S) = Cardinality(S)
  BY DEF Pool!Cardinality, Cardinality
<1>3. Cardinality({}) = 0 /\ Cardinality({x}) = 1
  BY FS_EmptySet, FS_Singleton
<1> QED BY <1>1, <1>2, <1>3

LEMMA PoolImplies == PoolInv => Pool!TypeOK /\ Pool!NoPoolForgotten
<1> SUFFICES ASSUME PoolInv PROVE Pool!TypeOK /\ Pool!NoPoolForgotten
  OBVIOUS
<1>1. Pool!Cardinality(registered) <= 1
  BY OpenAtMostOnce DEF PoolInv
<1>2. \E x : open \ closing \subseteq {x}
  BY DEF PoolInv
<1>3. Pool!Cardinality(open \ closing) <= 1
  BY <1>2, OpenAtMostOnce
<1> QED BY <1>1, <1>3 DEF PoolInv, Pool!TypeOK, Pool!NoPoolForgotten

-----------------------------------------------------------------------------
(* The Redis client.  Whoever is not away has the loop's client in hand, or*)
(* one that a shutdown has popped.                                         *)
RedisTypes ==
  /\ second \in 0 .. LastSecond /\ mine \in 0 .. Len(clients)
  /\ clients \in Seq([healthy : BOOLEAN, pings : Seq(0 .. second)])
  /\ caller \in [Callers -> [at : {"away", "lock", "ping", "has"}, client : 0 .. Len(clients)]]
  /\ connected \cup leaving \cup outlived \subseteq 1 .. Len(clients)

InHand ==
  \A c \in Callers :
    IF caller[c].at = "away" THEN caller[c].client = 0
    ELSE caller[c].client > 0 /\ caller[c].client \in {mine} \cup leaving \cup outlived

OnePinger ==
  \A c, d \in Callers : caller[c].at = "ping" /\ caller[d] = caller[c] => c = d

Spaced(pings) == \A i \in 2 .. Len(pings) : pings[i] - pings[i - 1] >= Backoff

RedisInv ==
  /\ RedisTypes /\ InHand /\ OnePinger
  /\ \A n \in 1 .. Len(clients) : Spaced(clients[n].pings)
  /\ Redis!ClosedStaysClosed

LEMMA RedisInitially == Redis!Init => RedisInv
<1> SUFFICES ASSUME Redis!Init PROVE RedisInv
  OBVIOUS
<1>1. {Backoff, MaxClients, LastSecond} \subseteq Nat
  BY PathsAssumption DEF Redis!ConstantsAssumption
<1>2. clients = <<>> /\ Len(clients) = 0 /\ 1 .. Len(clients) = {}
  BY EmptySeq DEF Redis!Init
<1>3. clients \in Seq([healthy : BOOLEAN, pings : Seq(0 .. second)])
  BY <1>2, EmptySeq
<1> QED BY <1>1, <1>2, <1>3 DEF Redis!Init, Redis!Away, RedisInv, RedisTypes, InHand, OnePinger, Redis!ClosedStaysClosed

LEMMA RedisConstants == Backoff \in Nat /\ MaxClients \in Nat /\ LastSecond \in Nat
BY PathsAssumption DEF Redis!ConstantsAssumption

(* A client replaced by one whose pings are spaced.                        *)
LEMMA ClientChanges ==
  ASSUME RedisTypes, NEW n \in 1 .. Len(clients), NEW r \in [healthy : BOOLEAN, pings : Seq(0 .. second)],
         clients' = [clients EXCEPT ![n] = r], second' = second
  PROVE  /\ clients' \in Seq([healthy : BOOLEAN, pings : Seq(0 .. second')]) /\ Len(clients') = Len(clients)
         /\ \A i \in 1 .. Len(clients) : clients'[i] = IF i = n THEN r ELSE clients[i]
BY ExceptSeq DEF RedisTypes

(* A due ping keeps the distance.                                          *)
LEMMA DuePing ==
  ASSUME RedisTypes, NEW n \in 1 .. Len(clients), Spaced(clients[n].pings), Redis!Due(n)
  PROVE  /\ Append(clients[n].pings, second) \in Seq(0 .. second)
         /\ Spaced(Append(clients[n].pings, second))
<1> DEFINE old == clients[n].pings
           new == Append(old, second)
<1>1. old \in Seq(0 .. second) /\ second \in 0 .. second /\ second \in Nat
  <2>1. clients[n] \in [healthy : BOOLEAN, pings : Seq(0 .. second)]
    BY ElementOfSeq DEF RedisTypes
  <2> QED BY <2>1, RedisConstants DEF RedisTypes
<1>2. /\ new \in Seq(0 .. second) /\ Len(new) = Len(old) + 1 /\ Len(old) \in Nat
      /\ \A i \in 1 .. Len(old) : new[i] = old[i]
      /\ new[Len(old) + 1] = second
  BY <1>1, AppendProperties, LenProperties
<1> HIDE DEF new
<1>3. ASSUME NEW i \in 2 .. Len(new) PROVE new[i] - new[i - 1] >= Backoff
  <2>1. CASE i <= Len(old)
    <3>1. i \in 2 .. Len(old) /\ i \in 1 .. Len(old) /\ i - 1 \in 1 .. Len(old)
      BY <1>2, <2>1
    <3> QED BY <1>2, <3>1 DEF Spaced
  <2>2. CASE i = Len(old) + 1
    <3>1. Len(old) \in 1 .. Len(old) /\ old # <<>> /\ i - 1 = Len(old)
      BY <1>1, <1>2, <2>2, EmptySeq
    <3>2. second - old[Len(old)] >= Backoff
      BY <3>1 DEF Redis!Due, Redis!Last
    <3>3. new[i] = second /\ new[i - 1] = old[Len(old)]
      BY <1>2, <2>2, <3>1
    <3> QED BY <3>2, <3>3
  <2> QED BY <1>2, <2>1, <2>2
<1> QED BY <1>2, <1>3 DEF Spaced, new

LEMMA PingedClient ==
  ASSUME NEW S, NEW client \in [healthy : BOOLEAN, pings : S], NEW p
  PROVE  [client EXCEPT !.pings = p] = [healthy |-> client.healthy, pings |-> p]
OBVIOUS

LEMMA RedisAsk ==
  ASSUME RedisInv, NEW c \in Callers, Redis!Ask(c) PROVE RedisInv'
<1> USE DEF RedisInv
<1>1. /\ caller[c].at = "away" /\ caller[c].client = 0 /\ Len(clients) \in Nat
      /\ UNCHANGED <<second, connected, leaving, outlived>>
  BY LenProperties DEF Redis!Ask, RedisTypes, InHand
<1>2. CASE mine = 0
  <2> DEFINE n == Len(clients) + 1
             r == [healthy |-> FALSE, pings |-> <<>>]
  <2>1. clients' = Append(clients, r) /\ r \in [healthy : BOOLEAN, pings : Seq(0 .. second)]
    BY <1>2 DEF Redis!Ask
  <2>2. /\ clients' \in Seq([healthy : BOOLEAN, pings : Seq(0 .. second')]) /\ Len(clients') = n
        /\ \A i \in 1 .. Len(clients) : clients'[i] = clients[i]
        /\ clients'[n] = r
    <3>1. clients \in Seq([healthy : BOOLEAN, pings : Seq(0 .. second)])
      BY DEF RedisTypes
    <3> QED BY <1>1, <2>1, <3>1, AppendProperties
  <2>3. mine' = n /\ caller' = [caller EXCEPT ![c] = [at |-> "lock", client |-> n]]
    BY <1>2, <2>2 DEF Redis!Ask, Redis!Goto
  <2>4. RedisTypes'
    BY <1>1, <2>2, <2>3 DEF RedisTypes
  <2>5. InHand' /\ OnePinger'
    BY <1>1, <1>2, <2>3 DEF RedisTypes, InHand, OnePinger
  <2>6. ASSUME NEW i \in 1 .. n PROVE Spaced(clients'[i].pings)
    <3>1. CASE i = n
      BY <2>2, <3>1, EmptySeq DEF Spaced
    <3>2. CASE i # n
      <4>1. i \in 1 .. Len(clients)
        BY <1>1, <3>2
      <4> QED BY <2>2, <4>1
    <3> QED BY <3>1, <3>2
  <2>7. Redis!ClosedStaysClosed'
    BY <1>1, <1>2, <2>3 DEF Redis!ClosedStaysClosed, RedisTypes
  <2> QED BY <2>2, <2>4, <2>5, <2>6, <2>7
<1>3. CASE mine # 0
  <2>1. \E at \in {"has", "lock"} : caller' = [caller EXCEPT ![c] = [at |-> at, client |-> mine]]
    BY <1>3 DEF Redis!Ask, Redis!Goto
  <2>2. UNCHANGED <<mine, clients>>
    BY <1>3 DEF Redis!Ask
  <2> QED BY <1>1, <1>3, <2>1, <2>2 DEF RedisTypes, InHand, OnePinger, Redis!ClosedStaysClosed
<1> QED BY <1>2, <1>3

LEMMA RedisEnter ==
  ASSUME RedisInv, NEW c \in Callers, Redis!Enter(c) PROVE RedisInv'
<1> USE DEF RedisInv
<1> DEFINE n == caller[c].client
<1>1. /\ n \in 1 .. Len(clients) /\ n > 0 /\ n \in {mine} \cup leaving \cup outlived
      /\ UNCHANGED <<second, mine, connected, leaving, outlived>>
      /\ \A d \in Callers : caller[d] # [at |-> "ping", client |-> n]
  BY LenProperties DEF Redis!Enter, RedisTypes, InHand
<1>2. CASE Redis!Due(n)
  <2> DEFINE r == [clients[n] EXCEPT !.pings = Append(@, second)]
  <2>1. clients' = [clients EXCEPT ![n] = r] /\ caller' = [caller EXCEPT ![c] = [at |-> "ping", client |-> n]]
    BY <1>2 DEF Redis!Enter, Redis!Goto
  <2>2. clients[n] \in [healthy : BOOLEAN, pings : Seq(0 .. second)]
    BY <1>1, ElementOfSeq DEF RedisTypes
  <2>3. r \in [healthy : BOOLEAN, pings : Seq(0 .. second)] /\ Spaced(r.pings)
    <3>1. r = [healthy |-> clients[n].healthy, pings |-> Append(clients[n].pings, second)]
      <4> HIDE DEF n
      <4> QED BY <2>2, PingedClient
    <3>2. /\ Append(clients[n].pings, second) \in Seq(0 .. second)
          /\ Spaced(Append(clients[n].pings, second))
      <4> HIDE DEF n
      <4> QED BY <1>1, <1>2, DuePing
    <3>3. clients[n].healthy \in BOOLEAN
      BY <2>2
    <3> HIDE DEF r
    <3> QED BY <3>1, <3>2, <3>3
  <2>4. /\ clients' \in Seq([healthy : BOOLEAN, pings : Seq(0 .. second')]) /\ Len(clients') = Len(clients)
        /\ \A i \in 1 .. Len(clients) : clients'[i] = IF i = n THEN r ELSE clients[i]
    <3> HIDE DEF r
    <3> QED BY <1>1, <2>1, <2>3, ClientChanges
  <2> HIDE DEF r
  <2>5. RedisTypes' /\ InHand' /\ OnePinger'
    BY <1>1, <2>1, <2>4 DEF RedisTypes, InHand, OnePinger
  <2>6. \A i \in 1 .. Len(clients') : Spaced(clients'[i].pings)
    BY <1>1, <2>3, <2>4
  <2> QED BY <1>1, <2>5, <2>6 DEF Spaced, Redis!ClosedStaysClosed
<1>3. CASE ~Redis!Due(n)
  <2>1. clients' = clients /\ caller' = [caller EXCEPT ![c] = [at |-> "has", client |-> n]]
    BY <1>3 DEF Redis!Enter, Redis!Goto
  <2> QED BY <1>1, <2>1 DEF RedisTypes, InHand, OnePinger, Redis!ClosedStaysClosed
<1> QED BY <1>2, <1>3

LEMMA RedisPong ==
  ASSUME RedisInv, NEW c \in Callers, Redis!Pong(c) PROVE RedisInv'
<1> USE DEF RedisInv
<1> DEFINE n == caller[c].client
           r == [clients[n] EXCEPT !.healthy = TRUE]
<1>1. /\ n \in 1 .. Len(clients) /\ n > 0 /\ n \in {mine} \cup leaving \cup outlived
      /\ UNCHANGED <<second, mine, leaving, outlived>> /\ connected' = connected \cup {n}
      /\ caller' = [caller EXCEPT ![c] = [at |-> "has", client |-> n]]
      /\ clients' = [clients EXCEPT ![n] = r]
  BY LenProperties DEF Redis!Pong, Redis!Goto, RedisTypes, InHand
<1>2. clients[n] \in [healthy : BOOLEAN, pings : Seq(0 .. second)]
  BY <1>1, ElementOfSeq DEF RedisTypes
<1>3. r \in [healthy : BOOLEAN, pings : Seq(0 .. second)] /\ r.pings = clients[n].pings
  BY <1>2
<1>4. /\ clients' \in Seq([healthy : BOOLEAN, pings : Seq(0 .. second')]) /\ Len(clients') = Len(clients)
      /\ \A i \in 1 .. Len(clients) : clients'[i] = IF i = n THEN r ELSE clients[i]
  <2> HIDE DEF r
  <2> QED BY <1>1, <1>3, ClientChanges
<1> HIDE DEF r
<1>5. RedisTypes' /\ InHand' /\ OnePinger'
  BY <1>1, <1>4 DEF RedisTypes, InHand, OnePinger
<1>6. ASSUME NEW i \in 1 .. Len(clients') PROVE clients'[i].pings = clients[i].pings
  BY <1>3, <1>4
<1>7. \A i \in 1 .. Len(clients') : Spaced(clients'[i].pings)
  BY <1>4, <1>6
<1>8. Redis!ClosedStaysClosed'
  BY <1>1 DEF Redis!ClosedStaysClosed
<1> QED BY <1>5, <1>7, <1>8 DEF Spaced

(* The steps that neither make a client nor change one.                    *)
LEMMA RedisUse ==
  ASSUME RedisInv, NEW c \in Callers, Redis!NoPong(c) \/ Redis!Command(c) \/ Redis!Done(c)
  PROVE  RedisInv'
<1> USE DEF RedisInv, RedisTypes, InHand, OnePinger, Redis!ClosedStaysClosed, Redis!Goto
<1>0. UNCHANGED clients /\ UNCHANGED <<second, mine, leaving, outlived>> /\ Len(clients) \in Nat
  BY LenProperties DEF Redis!NoPong, Redis!Command, Redis!Done
<1>1. CASE Redis!NoPong(c)
  BY <1>0, <1>1 DEF Redis!NoPong
<1>2. CASE Redis!Command(c)
  BY <1>0, <1>2 DEF Redis!Command
<1>3. CASE Redis!Done(c)
  BY <1>0, <1>3 DEF Redis!Done
<1> QED BY <1>1, <1>2, <1>3

LEMMA RedisClose ==
  ASSUME RedisInv, Redis!Pop \/ (\E n \in leaving : Redis!Disconnect(n))
  PROVE  RedisInv'
<1> USE DEF RedisInv, RedisTypes, InHand, OnePinger, Redis!ClosedStaysClosed
<1>0. UNCHANGED clients /\ UNCHANGED <<second, caller>> /\ Len(clients) \in Nat
  BY LenProperties DEF Redis!Pop, Redis!Disconnect
<1>1. CASE Redis!Pop
  BY <1>0, <1>1 DEF Redis!Pop
<1>2. ASSUME NEW n \in leaving, Redis!Disconnect(n) PROVE RedisInv'
  BY <1>0, <1>2 DEF Redis!Disconnect, Redis!Leave, Redis!Held
<1> QED BY <1>1, <1>2

LEMMA RedisTick == ASSUME RedisInv, Redis!Tick PROVE RedisInv'
<1> USE RedisConstants DEF RedisInv
<1>1. /\ UNCHANGED <<mine, clients, caller, connected, leaving, outlived>>
      /\ second' \in 0 .. LastSecond /\ 0 .. second \subseteq 0 .. second'
  BY DEF Redis!Tick, RedisTypes
<1>2. [healthy : BOOLEAN, pings : Seq(0 .. second)] \subseteq [healthy : BOOLEAN, pings : Seq(0 .. second')]
  <2>1. Seq(0 .. second) \subseteq Seq(0 .. second')
    BY <1>1, SeqMonotonic
  <2> QED BY <2>1
<1>3. clients \in Seq([healthy : BOOLEAN, pings : Seq(0 .. second')])
  BY <1>2, SeqMonotonic DEF RedisTypes
<1> QED BY <1>1, <1>3 DEF RedisTypes, InHand, OnePinger, Spaced, Redis!ClosedStaysClosed

LEMMA RedisStep == RedisInv /\ [Redis!Next]_redisVars => RedisInv'
<1> SUFFICES ASSUME RedisInv, [Redis!Next]_redisVars PROVE RedisInv'
  OBVIOUS
<1>1. CASE UNCHANGED redisVars
  BY <1>1 DEF redisVars, RedisInv, RedisTypes, InHand, OnePinger, Spaced, Redis!ClosedStaysClosed
<1>2. CASE Redis!Next
  BY <1>2, RedisAsk, RedisEnter, RedisPong, RedisUse, RedisClose, RedisTick DEF Redis!Next
<1> QED BY <1>1, <1>2

LEMMA RedisImplies == RedisInv => Redis!TypeOK /\ Redis!PingsAreSpaced /\ Redis!ClosedStaysClosed
<1> SUFFICES ASSUME RedisInv PROVE Redis!TypeOK /\ Redis!PingsAreSpaced /\ Redis!ClosedStaysClosed
  OBVIOUS
<1>1. DOMAIN clients = 1 .. Len(clients)
  BY LenProperties DEF RedisInv, RedisTypes
<1>2. \A n \in DOMAIN clients : clients[n] \in [healthy : BOOLEAN, pings : Seq(0 .. second)]
  BY <1>1, ElementOfSeq DEF RedisInv, RedisTypes
<1>3. Redis!TypeOK
  BY <1>1, <1>2 DEF RedisInv, RedisTypes, Redis!TypeOK
<1>4. Redis!PingsAreSpaced
  BY <1>1 DEF RedisInv, OnePinger, Spaced, Redis!PingsAreSpaced
<1> QED BY <1>3, <1>4 DEF RedisInv

-----------------------------------------------------------------------------
(* The symbol catalogue.  Once the list is there nothing changes it.       *)
Settled == loaded /\ loading = NoThread

\* Why the catalogue did not have a listed symbol, for good.
Excused(n) == n \in unseen \/ (Settled /\ n \notin known)

Entry == [name : Names, valid : BOOLEAN, stamp : 0 .. ticks]

LookupState == [pc : {"idle", "read", "catalogue", "yahoo", "keep"}, name : Names \cup {"none"},
                stamp : 0 .. ticks, valid : BOOLEAN]

CatalogTypes ==
  /\ loading \in Lookups \cup {"loader", NoThread} /\ loaded \in BOOLEAN /\ known \subseteq Live
  /\ entries \in Seq(Entry)
  /\ thread \in [Lookups -> LookupState]
  /\ \A t \in Lookups : thread[t].pc # "idle" => thread[t].name \in Names
  /\ emptied \subseteq Live /\ unseen \subseteq Live /\ ticks \in 0 .. Horizon

\* A lookup that is past the catalogue without having found the symbol.
LookupOK(l) ==
  /\ l.pc \in {"read", "catalogue", "yahoo"} => ~l.valid
  /\ l.pc \in {"yahoo", "keep"} => loaded /\ (l.name \in Live /\ ~l.valid => Excused(l.name))
  /\ l.pc = "keep" /\ l.name \in Live /\ ~l.valid => l.name \in emptied \/ l.name \notin Plain

Pending == \A t \in Lookups : LookupOK(thread[t])

Pinned ==
  \A i \in 1 .. Len(entries) :
    entries[i].name \in Live /\ ~entries[i].valid =>
      /\ entries[i].name \in emptied \/ entries[i].name \notin Plain
      /\ Excused(entries[i].name)

Distinct(s) == \A i, j \in 1 .. Len(s) : s[i].name = s[j].name => i = j

CatalogInv ==
  /\ CatalogTypes /\ Pending /\ Pinned
  /\ ~loaded => entries = <<>>
  /\ Len(entries) <= MaxEntries /\ Distinct(entries)

LEMMA CatalogConstants ==
  /\ Live \subseteq Names /\ Local \subseteq Live /\ NoThread \notin Lookups /\ NoThread # "loader"
  /\ MaxEntries \in Nat \ {0} /\ VerdictTtl \in Nat \ {0} /\ Horizon \in Nat
BY PathsAssumption DEF Catalog!ConstantsAssumption

(* What is stored makes room for itself or takes its name's place: the size*)
(* is kept, and one verdict of each name.                                  *)
LEMMA CatalogInsert ==
  ASSUME NEW E, NEW s \in Seq(E), NEW e \in E, Distinct(s), Len(s) <= MaxEntries
  PROVE  LET new == Catalog!Insert(s, e)
         IN  /\ new \in Seq(E) /\ Len(new) <= MaxEntries /\ Distinct(new)
             /\ \A i \in 1 .. Len(new) : new[i] = e \/ \E j \in 1 .. Len(s) : new[i] = s[j]
<1> DEFINE room == IF Len(s) >= MaxEntries THEN Tail(s) ELSE s
           same == {i \in DOMAIN room : room[i].name = e.name}
           new  == IF same = {} THEN Append(room, e) ELSE [i \in DOMAIN room |-> IF i \in same THEN e ELSE room[i]]
<1>0. Catalog!Insert(s, e) = new
  BY DEF Catalog!Insert
<1>1. /\ room \in Seq(E) /\ Len(room) \in Nat /\ Distinct(room) /\ DOMAIN room = 1 .. Len(room)
      /\ Len(room) < MaxEntries \/ (Len(room) = Len(s) /\ Len(s) < MaxEntries)
      /\ \A i \in 1 .. Len(room) : \E j \in 1 .. Len(s) : room[i] = s[j]
  <2>1. Len(s) \in Nat /\ DOMAIN s = 1 .. Len(s)
    BY LenProperties
  <2>2. CASE Len(s) >= MaxEntries
    <3>1. s # <<>> /\ Len(s) = MaxEntries
      <4>1. MaxEntries \in Nat /\ MaxEntries > 0
        BY CatalogConstants
      <4>2. Len(s) = MaxEntries
        <5>1. Len(s) \in Nat
          BY <2>1
        <5> QED BY <2>2, <4>1, <5>1
      <4> QED BY <4>1, <4>2, EmptySeq
    <3>2. /\ Tail(s) \in Seq(E) /\ Len(Tail(s)) = Len(s) - 1
          /\ \A i \in 1 .. Len(Tail(s)) : Tail(s)[i] = s[i + 1]
      BY <3>1, HeadTailProperties
    <3>3. DOMAIN Tail(s) = 1 .. Len(Tail(s)) /\ Len(Tail(s)) \in Nat
      BY <3>2, LenProperties
    <3>4. ASSUME NEW i \in 1 .. Len(Tail(s)) PROVE i + 1 \in 1 .. Len(s)
      BY <2>1, <3>2
    <3>5. Distinct(Tail(s))
      <4> SUFFICES ASSUME NEW i \in 1 .. Len(Tail(s)), NEW j \in 1 .. Len(Tail(s)),
                          Tail(s)[i].name = Tail(s)[j].name
                   PROVE  i = j
        BY DEF Distinct
      <4>1. s[i + 1].name = s[j + 1].name
        BY <3>2
      <4>2. i + 1 = j + 1
        BY <3>4, <4>1 DEF Distinct
      <4> QED BY <4>2
    <3>6. room = Tail(s)
      BY <2>2
    <3>7. ASSUME NEW i \in 1 .. Len(Tail(s)) PROVE \E j \in 1 .. Len(s) : Tail(s)[i] = s[j]
      BY <3>2, <3>4
    <3>8. Len(Tail(s)) < MaxEntries
      BY <2>1, <3>1, <3>2, CatalogConstants
    <3> HIDE DEF room
    <3> QED BY <3>2, <3>3, <3>5, <3>6, <3>7, <3>8
  <2>3. CASE ~(Len(s) >= MaxEntries)
    <3>1. room = s
      BY <2>3
    <3> HIDE DEF room
    <3> QED BY <2>1, <2>3, <3>1, CatalogConstants
  <2> QED BY <2>2, <2>3
<1> HIDE DEF room
<1>2. CASE same = {}
  <2>1. /\ Append(room, e) \in Seq(E) /\ Len(Append(room, e)) = Len(room) + 1
        /\ \A i \in 1 .. Len(room) : Append(room, e)[i] = room[i]
        /\ Append(room, e)[Len(room) + 1] = e
    BY <1>1, AppendProperties
  <2>2. new = Append(room, e)
    BY <1>2
  <2>3. \A i \in 1 .. Len(room) : room[i].name # e.name
    BY <1>1, <1>2
  <2> HIDE DEF new, same
  <2>4. Len(new) = Len(room) + 1 /\ \A i \in 1 .. Len(new) : i \in 1 .. Len(room) \/ i = Len(room) + 1
    BY <1>1, <2>1, <2>2
  <2>5. Distinct(new)
    <3> SUFFICES ASSUME NEW i \in 1 .. Len(new), NEW j \in 1 .. Len(new), new[i].name = new[j].name
                 PROVE  i = j
      BY DEF Distinct
    <3>1. CASE i \in 1 .. Len(room) /\ j \in 1 .. Len(room)
      BY <1>1, <2>1, <2>2, <3>1 DEF Distinct
    <3>2. CASE ~(i \in 1 .. Len(room) /\ j \in 1 .. Len(room))
      BY <2>1, <2>2, <2>3, <2>4, <3>2
    <3> QED BY <3>1, <3>2
  <2>6. Len(new) <= MaxEntries
    BY <1>1, <2>4, CatalogConstants, LenProperties
  <2>7. \A i \in 1 .. Len(new) : new[i] = e \/ \E j \in 1 .. Len(s) : new[i] = s[j]
    BY <1>1, <2>1, <2>2, <2>4
  <2> QED BY <1>0, <2>1, <2>2, <2>5, <2>6, <2>7
<1>3. CASE same # {}
  <2>1. new = [i \in 1 .. Len(room) |-> IF i \in same THEN e ELSE room[i]]
    BY <1>1, <1>3
  <2>2. \A i \in 1 .. Len(room) : room[i] \in E /\ (i \in same <=> room[i].name = e.name)
    BY <1>1, ElementOfSeq
  <2> HIDE DEF new, same
  <2>3. \A i \in 1 .. Len(room) : new[i] = (IF i \in same THEN e ELSE room[i]) /\ new[i].name = room[i].name
    BY <2>1, <2>2
  <2>4. new \in Seq(E) /\ Len(new) = Len(room)
    BY <1>1, <2>1, <2>2
  <2>5. Distinct(new)
    BY <1>1, <2>3, <2>4 DEF Distinct
  <2>6. Len(new) <= MaxEntries
    BY <1>1, <2>4, CatalogConstants, LenProperties
  <2>7. \A i \in 1 .. Len(new) : new[i] = e \/ \E j \in 1 .. Len(s) : new[i] = s[j]
    BY <1>1, <2>3, <2>4
  <2> QED BY <1>0, <2>4, <2>5, <2>6, <2>7
<1> QED BY <1>2, <1>3

LEMMA CatalogInitially == Catalog!Init => CatalogInv
<1> SUFFICES ASSUME Catalog!Init PROVE CatalogInv
  OBVIOUS
<1>1. entries = <<>> /\ entries \in Seq(Entry) /\ Len(entries) = 0
  BY EmptySeq DEF Catalog!Init
<1>2. \A t \in Lookups : thread[t] = [pc |-> "idle", name |-> "none", stamp |-> 0, valid |-> FALSE]
  BY DEF Catalog!Init, Catalog!Resting
<1>3. thread \in [Lookups -> LookupState]
  <2>1. [pc |-> "idle", name |-> "none", stamp |-> 0, valid |-> FALSE] \in LookupState
    BY DEF Catalog!Init, LookupState
  <2> QED BY <2>1 DEF Catalog!Init, Catalog!Resting
<1>4. CatalogTypes
  <2>1. ticks \in 0 .. Horizon
    BY CatalogConstants DEF Catalog!Init
  <2>2. \A t \in Lookups : thread[t].pc = "idle"
    BY <1>2
  <2>3. /\ loading = NoThread /\ loaded = FALSE /\ known = {} /\ emptied = {} /\ unseen = {}
    BY DEF Catalog!Init
  <2> QED BY <1>1, <1>3, <2>1, <2>2, <2>3 DEF CatalogTypes
<1>5. Pending
  BY <1>2 DEF Pending, LookupOK
<1>6. Pinned /\ Distinct(entries) /\ Len(entries) <= MaxEntries
  BY <1>1, CatalogConstants DEF Pinned, Distinct
<1> QED BY <1>1, <1>4, <1>5, <1>6 DEF CatalogInv

(* The steps of the load.                                                  *)
LEMMA CatalogLoad ==
  ASSUME CatalogInv, (\E who \in Lookups \cup {"loader"} : Catalog!Lock(who)) \/ Catalog!SetLoaded \/ Catalog!SetSymbols
  PROVE  CatalogInv'
<1> USE CatalogConstants DEF CatalogInv
<1>1. UNCHANGED <<entries, thread, emptied, unseen, ticks>> /\ Entry' = Entry /\ LookupState' = LookupState
  BY DEF Catalog!Lock, Catalog!SetLoaded, Catalog!SetSymbols, Entry, LookupState
<1>2. CatalogTypes'
  BY <1>1 DEF CatalogTypes, Catalog!Lock, Catalog!SetLoaded, Catalog!SetSymbols
<1>3. Pending' /\ Pinned' /\ (~loaded => entries = <<>>)'
  <2>1. CASE \E who \in Lookups \cup {"loader"} : Catalog!Lock(who)
    BY <1>1, <2>1, EmptySeq DEF Catalog!Lock, Pending, LookupOK, Pinned, Excused, Settled
  <2>2. CASE Catalog!SetLoaded
    BY <1>1, <2>2, EmptySeq DEF Catalog!SetLoaded, Pending, LookupOK, Pinned, Excused, Settled
  <2>3. CASE Catalog!SetSymbols
    BY <1>1, <2>3 DEF Catalog!SetSymbols, Pending, LookupOK, Pinned, Excused, Settled
  <2> QED BY <2>1, <2>2, <2>3
<1> QED BY <1>1, <1>2, <1>3 DEF Distinct

(* A lookup moves on; nothing else of the state but the history changes.   *)
LEMMA LookupMoves ==
  ASSUME CatalogInv, NEW t \in Lookups, NEW l \in LookupState,
         l.pc # "idle" => l.name \in Names,
         thread' = [thread EXCEPT ![t] = l], UNCHANGED <<loading, loaded, known, entries, ticks>>,
         emptied \subseteq emptied', emptied' \subseteq Live,
         unseen \subseteq unseen', unseen' \subseteq Live,
         LookupOK(l)'
  PROVE  CatalogInv'
<1> USE DEF CatalogInv
<1>1. Entry' = Entry /\ LookupState' = LookupState
  BY DEF Entry, LookupState
<1>2. \A u \in Lookups : thread'[u] = IF u = t THEN l ELSE thread[u]
  BY DEF CatalogTypes
<1>3. CatalogTypes'
  BY <1>1, <1>2 DEF CatalogTypes
<1>4. \A n : Excused(n) => Excused(n)'
  BY DEF Excused, Settled
<1>5. \A m : LookupOK(m) => LookupOK(m)'
  BY <1>4 DEF LookupOK
<1>6. Pending'
  BY <1>2, <1>5 DEF Pending
<1>7. Pinned'
  BY <1>4 DEF Pinned
<1> QED BY <1>3, <1>6, <1>7 DEF Distinct

(* The steps of a lookup before it stores anything.                        *)
LEMMA CatalogAsk ==
  ASSUME CatalogInv, NEW t \in Lookups,
         (\E n \in Names : Catalog!Begin(t, n)) \/ Catalog!ReadCache(t) \/ Catalog!AskCatalogue(t)
           \/ Catalog!AskYahoo(t)
  PROVE  CatalogInv'
<1>0. PICK l : l = thread'[t]
  OBVIOUS
<1>1. /\ UNCHANGED <<loading, loaded, known, entries, ticks>>
      /\ ticks \in Nat /\ emptied \subseteq Live /\ unseen \subseteq Live
      /\ thread[t] \in LookupState /\ (thread[t].pc # "idle" => thread[t].name \in Names)
      /\ LookupOK(thread[t])
  BY CatalogConstants DEF CatalogInv, CatalogTypes, Pending,
     Catalog!Begin, Catalog!ReadCache, Catalog!AskCatalogue, Catalog!AskYahoo
<1>2. thread' = [thread EXCEPT ![t] = l]
  BY <1>0 DEF CatalogInv, CatalogTypes, Catalog!Begin, Catalog!ReadCache, Catalog!AskCatalogue, Catalog!AskYahoo,
         Catalog!At, Catalog!Answered
<1>3. ASSUME NEW n \in Names, Catalog!Begin(t, n) PROVE CatalogInv'
  <2>1. l = [pc |-> "read", name |-> n, stamp |-> ticks, valid |-> FALSE]
    BY <1>0, <1>3 DEF Catalog!Begin, CatalogInv, CatalogTypes
  <2>2. UNCHANGED <<emptied, unseen>>
    BY <1>3 DEF Catalog!Begin
  <2>3. l \in LookupState /\ l.name \in Names /\ LookupOK(l)'
    BY <1>1, <2>1 DEF LookupState, LookupOK
  <2> QED BY <1>1, <1>2, <2>2, <2>3, LookupMoves
<1>4. ASSUME Catalog!Answered(t), UNCHANGED <<emptied, unseen>> PROVE CatalogInv'
  <2>1. l = [pc |-> "idle", name |-> "none", stamp |-> 0, valid |-> FALSE]
    BY <1>0, <1>4 DEF Catalog!Answered, Catalog!Resting, CatalogInv, CatalogTypes
  <2>2. l \in LookupState /\ l.pc = "idle" /\ LookupOK(l)'
    BY <1>1, <2>1 DEF LookupState, LookupOK
  <2> QED BY <1>1, <1>2, <1>4, <2>2, LookupMoves
<1>5. CASE Catalog!ReadCache(t)
  <2>1. CASE Catalog!Answered(t)
    BY <1>4, <1>5, <2>1 DEF Catalog!ReadCache
  <2>2. CASE Catalog!At(t, "catalogue")
    <3>1. /\ l \in LookupState /\ l.pc = "catalogue" /\ l.name = thread[t].name /\ l.valid = thread[t].valid
          /\ thread[t].pc = "read"
      BY <1>0, <1>1, <1>5, <2>2 DEF Catalog!ReadCache, Catalog!At, LookupState, CatalogInv, CatalogTypes
    <3>2. LookupOK(l)' /\ l.name \in Names
      BY <1>1, <3>1 DEF LookupOK
    <3> QED BY <1>1, <1>2, <1>5, <3>1, <3>2, LookupMoves DEF Catalog!ReadCache
  <2> QED BY <1>5, <2>1, <2>2 DEF Catalog!ReadCache
<1>6. CASE Catalog!AskCatalogue(t)
  <2>1. /\ thread[t].pc = "catalogue" /\ loaded /\ UNCHANGED emptied
        /\ unseen' = IF loading = NoThread THEN unseen ELSE unseen \cup ({thread[t].name} \cap Live)
    BY <1>6 DEF Catalog!AskCatalogue
  <2>2. CASE thread[t].name \in known
    <3>1. l \in LookupState /\ l.pc = "keep" /\ l.name = thread[t].name /\ l.valid = TRUE
      BY <1>0, <1>1, <1>6, <2>2 DEF Catalog!AskCatalogue, LookupState, CatalogInv, CatalogTypes
    <3>2. LookupOK(l)' /\ l.name \in Names
      BY <1>1, <2>1, <3>1 DEF LookupOK
    <3> QED BY <1>1, <1>2, <2>1, <3>1, <3>2, LookupMoves
  <2>3. CASE thread[t].name \notin known
    <3>1. l \in LookupState /\ l.pc = "yahoo" /\ l.name = thread[t].name /\ l.valid = thread[t].valid
      BY <1>0, <1>1, <1>6, <2>3 DEF Catalog!AskCatalogue, Catalog!At, LookupState, CatalogInv, CatalogTypes
    <3>2. LookupOK(l)' /\ l.name \in Names
      BY <1>1, <2>1, <2>3, <3>1 DEF LookupOK, Excused, Settled
    <3> QED BY <1>1, <1>2, <2>1, <3>1, <3>2, LookupMoves
  <2> QED BY <2>2, <2>3
<1>7. CASE Catalog!AskYahoo(t)
  <2>1. thread[t].pc = "yahoo" /\ UNCHANGED unseen
    BY <1>7 DEF Catalog!AskYahoo
  <2>2. CASE thread' = [thread EXCEPT ![t].pc = "keep", ![t].valid = thread[t].name \in Live] /\ UNCHANGED emptied
    <3>1. PICK v \in BOOLEAN : v <=> thread[t].name \in Live
      OBVIOUS
    <3>2. l = [pc |-> "keep", name |-> thread[t].name, stamp |-> thread[t].stamp, valid |-> v]
      <4>1. thread' = [thread EXCEPT ![t].pc = "keep", ![t].valid = v]
        BY <2>2, <3>1
      <4> QED BY <1>0, <1>1, <4>1 DEF LookupState, CatalogInv, CatalogTypes
    <3>3. l \in LookupState /\ l.pc = "keep" /\ l.name = thread[t].name /\ l.valid = v
      BY <1>1, <3>2 DEF LookupState
    <3>4. LookupOK(l)' /\ l.name \in Names
      BY <1>1, <2>1, <3>1, <3>3 DEF LookupOK
    <3> QED BY <1>1, <1>2, <2>1, <2>2, <3>3, <3>4, LookupMoves
  <2>3. CASE Catalog!At(t, "keep") /\ emptied' = emptied \cup ({thread[t].name} \cap Live)
    <3>1. l \in LookupState /\ l.pc = "keep" /\ l.name = thread[t].name /\ l.valid = thread[t].valid
      BY <1>0, <1>1, <2>3 DEF Catalog!At, LookupState, CatalogInv, CatalogTypes
    <3>2. LookupOK(l)' /\ l.name \in Names
      BY <1>1, <2>1, <2>3, <3>1 DEF LookupOK, Excused, Settled
    <3> QED BY <1>1, <1>2, <2>1, <2>3, <3>1, <3>2, LookupMoves
  <2>4. CASE thread[t].name \notin Plain /\ Catalog!At(t, "keep") /\ UNCHANGED emptied
    <3>1. l \in LookupState /\ l.pc = "keep" /\ l.name = thread[t].name /\ l.valid = thread[t].valid
      BY <1>0, <1>1, <2>4 DEF Catalog!At, LookupState, CatalogInv, CatalogTypes
    <3>2. LookupOK(l)' /\ l.name \in Names
      BY <1>1, <2>1, <2>4, <3>1 DEF LookupOK, Excused, Settled
    <3> QED BY <1>1, <1>2, <2>1, <2>4, <3>1, <3>2, LookupMoves
  <2> QED BY <1>4, <1>7, <2>1, <2>2, <2>3, <2>4 DEF Catalog!AskYahoo
<1> QED BY <1>3, <1>5, <1>6, <1>7

LEMMA CatalogKeep == ASSUME CatalogInv, NEW t \in Lookups, Catalog!Keep(t) PROVE CatalogInv'
<1> USE DEF CatalogInv
<1>0. PICK e : e = [name |-> thread[t].name, valid |-> thread[t].valid, stamp |-> thread[t].stamp]
  OBVIOUS
<1> DEFINE l == [pc |-> "idle", name |-> "none", stamp |-> 0, valid |-> FALSE]
<1>1. /\ UNCHANGED <<loading, loaded, known, emptied, unseen, ticks>>
      /\ Entry' = Entry /\ LookupState' = LookupState
      /\ thread[t].pc = "keep" /\ entries' = Catalog!Insert(entries, e)
      /\ thread' = [thread EXCEPT ![t] = l]
  BY <1>0 DEF Catalog!Keep, Catalog!Answered, Catalog!Resting, Entry, LookupState
<1>2. e \in Entry /\ entries \in Seq(Entry) /\ l \in LookupState /\ ticks \in Nat
  <2>1. thread[t] \in LookupState /\ thread[t].name \in Names /\ ticks \in Nat
    BY <1>1, CatalogConstants DEF CatalogTypes
  <2> QED BY <1>0, <2>1 DEF CatalogTypes, Entry, LookupState
<1>3. e.name \in Live /\ ~e.valid => (e.name \in emptied \/ e.name \notin Plain) /\ Excused(e.name)
  BY <1>0, <1>1 DEF Pending, LookupOK
<1>4. loaded
  BY <1>1 DEF Pending, LookupOK
<1>5. /\ entries' \in Seq(Entry) /\ Len(entries') <= MaxEntries /\ Distinct(entries')
      /\ \A i \in 1 .. Len(entries') : entries'[i] = e \/ \E j \in 1 .. Len(entries) : entries'[i] = entries[j]
  <2>1. Distinct(entries) /\ Len(entries) <= MaxEntries /\ entries \in Seq(Entry) /\ e \in Entry
    BY <1>2
  <2>2. entries' = Catalog!Insert(entries, e)
    BY <1>1
  <2> HIDE DEF CatalogInv
  <2>3. \A E, s, x : s \in Seq(E) /\ x \in E /\ Distinct(s) /\ Len(s) <= MaxEntries =>
          LET new == Catalog!Insert(s, x)
          IN  /\ new \in Seq(E) /\ Len(new) <= MaxEntries /\ Distinct(new)
              /\ \A i \in 1 .. Len(new) : new[i] = x \/ \E j \in 1 .. Len(s) : new[i] = s[j]
    BY CatalogInsert
  <2> QED BY <2>1, <2>2, <2>3
<1>6. \A u \in Lookups : thread'[u] = IF u = t THEN l ELSE thread[u]
  BY <1>1 DEF CatalogTypes
<1>7. CatalogTypes'
  BY <1>1, <1>2, <1>5, <1>6 DEF CatalogTypes
<1>8. Pending' /\ Pinned'
  BY <1>1, <1>3, <1>5, <1>6 DEF Pending, LookupOK, Pinned, Excused, Settled
<1> QED BY <1>1, <1>4, <1>5, <1>7, <1>8 DEF Distinct

LEMMA CatalogTick == ASSUME CatalogInv, Catalog!Tick PROVE CatalogInv'
<1> USE CatalogConstants DEF CatalogInv
<1>1. /\ UNCHANGED <<loading, loaded, known, entries, thread, emptied, unseen>>
      /\ ticks' \in 0 .. Horizon /\ 0 .. ticks \subseteq 0 .. ticks'
  <2>1. ticks \in 0 .. Horizon
    BY DEF CatalogTypes
  <2> QED BY <2>1 DEF Catalog!Tick
<1>2. Entry \subseteq Entry' /\ LookupState \subseteq LookupState'
  BY <1>1 DEF Entry, LookupState
<1>3. entries \in Seq(Entry')
  BY <1>2, SeqMonotonic DEF CatalogTypes
<1>4. CatalogTypes'
  BY <1>1, <1>2, <1>3 DEF CatalogTypes
<1> QED BY <1>1, <1>4 DEF Pending, LookupOK, Pinned, Excused, Settled, Distinct

LEMMA CatalogStep == CatalogInv /\ [Catalog!Next]_catalogVars => CatalogInv'
<1> SUFFICES ASSUME CatalogInv, [Catalog!Next]_catalogVars PROVE CatalogInv'
  OBVIOUS
<1>1. CASE UNCHANGED catalogVars
  BY <1>1 DEF catalogVars, CatalogInv, CatalogTypes, Entry, LookupState, Pending, LookupOK, Pinned, Excused, Settled, Distinct
<1>2. CASE Catalog!Next
  BY <1>2, CatalogLoad, CatalogAsk, CatalogKeep, CatalogTick
     DEF Catalog!Next, Catalog!Lookup, Catalog!LoadInBackground, Catalog!LoadByLookup
<1> QED BY <1>1, <1>2

LEMMA CatalogImplies == CatalogInv => Catalog!TypeOK /\ Catalog!VerdictsAreSound
<1> SUFFICES ASSUME CatalogInv PROVE Catalog!TypeOK /\ Catalog!VerdictsAreSound
  OBVIOUS
<1> USE DEF CatalogInv
<1>1. /\ Len(entries) \in Nat /\ DOMAIN entries = 1 .. Len(entries)
      /\ \A i \in 1 .. Len(entries) : entries[i] \in Entry
  BY LenProperties, ElementOfSeq DEF CatalogTypes
<1>2. Catalog!Range(entries) = {entries[i] : i \in 1 .. Len(entries)}
  BY <1>1 DEF Catalog!Range
<1>3. Catalog!TypeOK
  BY <1>1, <1>2 DEF CatalogTypes, Entry, LookupState, Catalog!TypeOK
<1>4. Catalog!PinnedInvalidNeedsBoth
  BY <1>2 DEF Pinned, Excused, Catalog!PinnedInvalidNeedsBoth
<1>5. Catalog!Cardinality(Catalog!Cached) = Len(entries)
  <2> DEFINE f == [i \in 1 .. Len(entries) |-> entries[i].name]
  <2>1. Catalog!Cached = {entries[i].name : i \in 1 .. Len(entries)}
    BY <1>2 DEF Catalog!Cached
  <2>2. f \in Bijection(1 .. Len(entries), Catalog!Cached)
    BY <2>1 DEF Distinct, Bijection, Injection, Surjection, IsInjective
  <2>3. ExistsBijection(1 .. Len(entries), Catalog!Cached)
    BY <2>2 DEF ExistsBijection
  <2>4. IsFiniteSet(1 .. Len(entries)) /\ Cardinality(1 .. Len(entries)) = Len(entries)
    BY <1>1, FS_Interval
  <2>5. Cardinality(Catalog!Cached) = Len(entries)
    BY <2>3, <2>4, FS_Bijection
  <2>6. \A S : Catalog!Cardinality(S) = Cardinality(S)
    BY DEF Catalog!Cardinality, Cardinality
  <2> QED BY <2>5, <2>6
<1> QED BY <1>3, <1>4, <1>5 DEF Catalog!VerdictsAreSound, Catalog!CacheIsBounded

-----------------------------------------------------------------------------
(* The three together.                                                     *)
ClientsInv == PoolInv /\ RedisInv /\ CatalogInv

LEMMA ClientsInitially == PathsInit => ClientsInv
BY PoolInitially, RedisInitially, CatalogInitially DEF PathsInit, ClientsInv

LEMMA ClientsStep == ClientsInv /\ [PathsNext]_allVars => ClientsInv'
<1> SUFFICES ASSUME ClientsInv, [PathsNext]_allVars PROVE ClientsInv'
  OBVIOUS
<1>1. [Pool!Next]_poolVars
  BY DEF PathsNext, allVars, moreVars
<1>2. [Redis!Next]_redisVars
  BY DEF PathsNext, allVars, moreVars
<1>3. [Catalog!Next]_catalogVars
  BY DEF PathsNext, allVars, moreVars
<1> QED BY <1>1, <1>2, <1>3, PoolStep, RedisStep, CatalogStep DEF ClientsInv

(* Whatever tasks and shutdowns overlap, no pool is forgotten while its    *)
(* connections are open, a Redis that does not answer is pinged by one task*)
(* at a time and not twice within the backoff, and what a shutdown closed  *)
(* stays closed but for a client some task still had in hand.              *)
THEOREM ClientsKept == PathsSpec => []ClientsAreKept
<1>1. ClientsInv => ClientsAreKept
  BY PoolImplies, RedisImplies DEF ClientsInv, ClientsAreKept
<1> QED BY <1>1, ClientsInitially, ClientsStep, PTL DEF PathsSpec

(* However the load of the catalogue and the lookups interleave, a listed  *)
(* symbol is held for invalid only if the catalogue did not have it, and   *)
(* Yahoo, if it is asked about such a name at all, had nothing of it; the  *)
(* cache keeps to its size, with one verdict of a symbol.                  *)
THEOREM VerdictsSound == PathsSpec => []VerdictsAreSound
<1>1. ClientsInv => VerdictsAreSound
  BY CatalogImplies DEF ClientsInv, VerdictsAreSound
<1> QED BY <1>1, ClientsInitially, ClientsStep, PTL DEF PathsSpec

-----------------------------------------------------------------------------
(* The workbook. *)

LEMMA ExportCardinality == \A S : Export!Cardinality(S) = Cardinality(S)
BY DEF Export!Cardinality, Cardinality

\* s lists S from the least to the greatest.
Ascending(s, S) ==
  /\ s \in [1 .. Cardinality(S) -> S]
  /\ \A i, j \in 1 .. Cardinality(S) : i < j => s[i] < s[j]

(* Every finite set of natural numbers can be listed in order: by the      *)
(* least bound below which one could not be.                               *)
LEMMA OrderBelow == \A k \in Nat : \A S \in SUBSET (0 .. k - 1) : \E s : Ascending(s, S)
<1> DEFINE Fine(k) == \A S \in SUBSET (0 .. k - 1) : \E s : Ascending(s, S)
           Bad == {k \in Nat : ~Fine(k)}
<1>1. SUFFICES ASSUME Bad # {} PROVE FALSE
  OBVIOUS
<1>2. PICK k \in Bad : \A y \in Bad : k <= y
  BY <1>1, LeastElement
<1>3. k # 0
  <2> SUFFICES ASSUME k = 0 PROVE FALSE
    OBVIOUS
  <2>1. SUFFICES ASSUME NEW S \in SUBSET (0 .. 0 - 1) PROVE \E s : Ascending(s, S)
    BY <1>2
  <2>2. S = {} /\ Cardinality(S) = 0
    <3>1. S = {}
      OBVIOUS
    <3> QED BY <3>1, FS_EmptySet
  <2>3. Ascending([i \in 1 .. 0 |-> 0], S)
    BY <2>2 DEF Ascending
  <2> QED BY <2>3
<1>4. Fine(k - 1)
  BY <1>2, <1>3
<1>5. SUFFICES ASSUME NEW S \in SUBSET (0 .. k - 1) PROVE \E s : Ascending(s, S)
  BY <1>2
<1>6. CASE k - 1 \notin S
  <2>1. S \in SUBSET (0 .. (k - 1) - 1)
    BY <1>2, <1>3, <1>6
  <2> QED BY <2>1, <1>4
<1>7. CASE k - 1 \in S
  <2> DEFINE T == S \ {k - 1}
  <2>1. T \in SUBSET (0 .. (k - 1) - 1)
    BY <1>2, <1>3
  <2>2. PICK t : Ascending(t, T)
    BY <2>1, <1>4
  <2>3. IsFiniteSet(S)
    <3>1. 0 \in Int /\ k - 1 \in Int /\ S \in SUBSET (0 .. k - 1)
      BY <1>2
    <3>2. IsFiniteSet(0 .. k - 1)
      BY <3>1, FS_Interval
    <3> QED BY <3>1, <3>2, FS_Subset
  <2>4. Cardinality(T) = Cardinality(S) - 1 /\ IsFiniteSet(T)
    BY <2>3, <1>7, FS_RemoveElement
  <2>5. Cardinality(S) \in Nat /\ Cardinality(T) \in Nat
    BY <2>3, <2>4, FS_CardinalityType
  <2> DEFINE n == Cardinality(S)
             s == [i \in 1 .. n |-> IF i = n THEN k - 1 ELSE t[i]]
  <2>6. \A i \in 1 .. n : i # n => i \in 1 .. Cardinality(T)
    BY <2>4, <2>5
  <2>7. \A i \in 1 .. n : i # n => t[i] \in T
    BY <2>6, <2>2 DEF Ascending
  <2>8. s \in [1 .. n -> S]
    BY <2>7, <1>7
  <2>9. ASSUME NEW i \in 1 .. n, NEW j \in 1 .. n, i < j PROVE s[i] < s[j]
    <3>1. i # n /\ i \in Int /\ j \in Int
      BY <2>5, <2>9
    <3>2. CASE j = n
      <4>1. s[j] = k - 1 /\ s[i] = t[i] /\ t[i] \in T
        BY <3>1, <3>2, <2>7
      <4>2. t[i] \in 0 .. (k - 1) - 1
        BY <4>1, <2>1
      <4> QED BY <4>1, <4>2, <1>2
    <3>3. CASE j # n
      BY <3>1, <3>3, <2>6, <2>2, <2>9 DEF Ascending
    <3> QED BY <3>2, <3>3
  <2>10. Ascending(s, S)
    BY <2>8, <2>9 DEF Ascending
  <2> QED BY <2>10
<1> QED BY <1>6, <1>7

(* What Sorted returns: all of the set, in order.                          *)
LEMMA SortedLists ==
  ASSUME NEW S, NEW k \in Nat, S \subseteq 0 .. k
  PROVE  /\ IsFiniteSet(S) /\ Cardinality(S) \in Nat
         /\ Export!Sorted(S) \in [1 .. Cardinality(S) -> S]
         /\ \A i, j \in 1 .. Cardinality(S) : i < j => Export!Sorted(S)[i] < Export!Sorted(S)[j]
         /\ \A x \in S : \E i \in 1 .. Cardinality(S) : Export!Sorted(S)[i] = x
<1>1. IsFiniteSet(S) /\ Cardinality(S) \in Nat
  <2>1. IsFiniteSet(0 .. k)
    BY FS_Interval
  <2>2. S \in SUBSET (0 .. k)
    OBVIOUS
  <2>3. IsFiniteSet(S)
    BY <2>1, <2>2, FS_Subset
  <2> QED BY <2>3, FS_CardinalityType
<1> DEFINE n == Cardinality(S)
           s == Export!Sorted(S)
<1>2. \E q \in [1 .. n -> S] : \A i, j \in DOMAIN q : i < j => q[i] < q[j]
  <2>1. k + 1 \in Nat /\ S \in SUBSET (0 .. (k + 1) - 1)
    OBVIOUS
  <2>2. PICK q : Ascending(q, S)
    BY <2>1, OrderBelow
  <2> QED BY <2>2 DEF Ascending
<1>3. s \in [1 .. n -> S] /\ \A i, j \in DOMAIN s : i < j => s[i] < s[j]
  BY <1>2, ExportCardinality DEF Export!Sorted
<1>4. DOMAIN s = 1 .. n
  BY <1>3
<1>5. ASSUME NEW x \in S, \A i \in 1 .. n : s[i] # x PROVE FALSE
  <2> DEFINE T == S \ {x}
  <2>1. IsFiniteSet(T) /\ Cardinality(T) = n - 1
    BY <1>1, FS_RemoveElement
  <2>2. s \in [1 .. n -> T]
    BY <1>3, <1>4, <1>5
  <2>3. IsFiniteSet(1 .. n) /\ Cardinality(1 .. n) = n
    BY <1>1, FS_Interval
  <2>4. Cardinality(T) < Cardinality(1 .. n)
    BY <1>1, <2>1, <2>3
  <2> HIDE DEF n, s, T
  <2>5. \E i, j \in 1 .. n : i # j /\ s[i] = s[j]
    BY <2>1, <2>2, <2>3, <2>4, FS_PigeonHole
  <2>6. PICK i \in 1 .. n, j \in 1 .. n : i # j /\ s[i] = s[j]
    BY <2>5
  <2>7. s[i] \in S /\ s[j] \in S /\ n \in Nat
    BY <1>1, <1>3 DEF n
  <2>8. i \in Int /\ j \in Int
    BY <2>6, <2>7
  <2>9. (i < j => s[i] < s[j]) /\ (j < i => s[j] < s[i])
    BY <1>3, <1>4
  <2>10. \A v \in S : v \in Nat
    OBVIOUS
  <2>11. s[i] \in Nat
    BY <2>7, <2>10, Zenon
  <2>12. ~(s[i] < s[j]) /\ ~(s[j] < s[i])
    BY <2>6, <2>11
  <2> QED BY <2>6, <2>8, <2>9, <2>12
<1> QED BY <1>1, <1>3, <1>4, <1>5

\* What the numbers of day d are computed from ends with d's own close.
EndsWith(w, d) ==
  /\ w \in Seq(Nat) /\ w # <<>> /\ w[Len(w)] = d
  /\ \A j \in 1 .. Len(w) : w[j] <= d

LEMMA WindowEnds ==
  ASSUME NEW bars, NEW k \in Nat, bars \subseteq 0 .. k, NEW d \in bars, Kept \in Nat \ {0}
  PROVE  EndsWith(Export!Window(bars, d), d)
<1> DEFINE past == {b \in bars : b <= d}
           n == Cardinality(past)
           s == Export!Sorted(past)
           m == Export!Most(n - Kept, 0) + 1
           w == SubSeq(s, m, n)
<1>1. past \subseteq 0 .. k
  OBVIOUS
<1>2. /\ n \in Nat /\ s \in [1 .. n -> past]
      /\ \A i, j \in 1 .. n : i < j => s[i] < s[j]
      /\ \A x \in past : \E i \in 1 .. n : s[i] = x
  <2> HIDE DEF past
  <2> QED BY <1>1, SortedLists
<1>3. d \in past /\ d \in Nat
  OBVIOUS
<1>4. PICK e \in 1 .. n : s[e] = d
  BY <1>2, <1>3
<1>5. \A i \in 1 .. n : s[i] \in Nat /\ s[i] <= d
  <2> SUFFICES ASSUME NEW i \in 1 .. n PROVE s[i] \in Nat /\ s[i] <= d
    OBVIOUS
  <2>1. s[i] \in past
    BY <1>2
  <2>2. \A b \in past : b \in Nat /\ b <= d
    OBVIOUS
  <2> HIDE DEF s, n, past
  <2> QED BY <2>1, <2>2, Zenon
<1> HIDE DEF past, n, s
<1>6. e = n
  <2>1. e \in Nat /\ e <= n /\ n \in 1 .. n
    BY <1>2, <1>4
  <2>2. e < n => s[e] < s[n]
    BY <1>2, <1>4, <2>1
  <2>3. s[n] <= d /\ s[n] \in Nat
    BY <1>5, <2>1
  <2> QED BY <2>1, <2>2, <2>3, <1>2, <1>3, <1>4
<1>7. m \in 1 .. n /\ m \in Int /\ n \in Int
  BY <1>2, <1>4, <1>6 DEF Export!Most
<1> HIDE DEF m
<1>8. \A i \in m .. n : s[i] \in Nat
  BY <1>5, <1>7
<1>9. /\ w \in Seq(Nat) /\ Len(w) = n - m + 1
      /\ \A i \in 1 .. n - m + 1 : w[i] = s[m + i - 1]
  BY <1>7, <1>8, SubSeqProperties
<1> HIDE DEF w
<1>10. Len(w) \in 1 .. n /\ m + Len(w) - 1 = n
  <2>1. m >= 1 /\ m <= n /\ m \in Int /\ n \in Int /\ Len(w) = n - m + 1
    BY <1>7, <1>9
  <2> QED BY <2>1
<1>11. w[Len(w)] = d
  BY <1>4, <1>6, <1>9, <1>10
<1>12. \A j \in 1 .. Len(w) : w[j] <= d
  <2> SUFFICES ASSUME NEW j \in 1 .. Len(w) PROVE w[j] <= d
    OBVIOUS
  <2>1. w[j] = s[m + j - 1] /\ m + j - 1 \in 1 .. n
    BY <1>7, <1>9, <1>10
  <2> QED BY <2>1, <1>5
<1>13. w # <<>>
  BY <1>10
<1>14. EndsWith(w, d)
  BY <1>9, <1>11, <1>12, <1>13 DEF EndsWith
<1>15. Export!Window(bars, d) = w
  BY ExportCardinality DEF Export!Window, w, m, s, n, past
<1> QED BY <1>14, <1>15

Intervals == {10, 25, 50, 100, 500, 1000}

LEMMA IntervalIsOne == \A spot \in Nat : Export!Interval(spot) \in Intervals
BY DEF Export!Interval, Intervals

(* Rounding to a multiple of the interval, and the multiples around it.    *)
LEMMA RoundedIsNear ==
  ASSUME NEW a \in Nat, NEW b \in Intervals
  PROVE  /\ Export!Rounded(a, b) \in Nat
         /\ 2 * (Export!Rounded(a, b) * b - a) <= b
         /\ 2 * (a - Export!Rounded(a, b) * b) <= b
<1>1. CASE b = 10
  BY <1>1 DEF Export!Rounded
<1>2. CASE b = 25
  BY <1>2 DEF Export!Rounded
<1>3. CASE b = 50
  BY <1>3 DEF Export!Rounded
<1>4. CASE b = 100
  BY <1>4 DEF Export!Rounded
<1>5. CASE b = 500
  BY <1>5 DEF Export!Rounded
<1>6. CASE b = 1000
  BY <1>6 DEF Export!Rounded
<1> QED BY <1>1, <1>2, <1>3, <1>4, <1>5, <1>6 DEF Intervals

LEMMA MultiplesAround ==
  ASSUME NEW c \in Nat, NEW b \in Intervals, NEW i \in Int
  PROVE  /\ c * b \in Nat /\ (c + i) * b \in Int
         /\ i = 0 => (c + i) * b = c * b
         /\ i = 1 => (c + i) * b = c * b + b
         /\ i = -1 => (c + i) * b = c * b - b
         /\ i >= 1 => (c + i) * b >= c * b + b
         /\ i <= -1 => (c + i) * b <= c * b - b
         /\ (c + i) * b > 0 => (c + i) * b = b \/ (c + i) * b >= 2 * b
         /\ c = 0 => c * b = 0
         /\ c = 1 => c * b = b
         /\ c >= 2 => c * b >= 2 * b
<1>1. CASE b = 10
  BY <1>1
<1>2. CASE b = 25
  BY <1>2
<1>3. CASE b = 50
  BY <1>3
<1>4. CASE b = 100
  BY <1>4
<1>5. CASE b = 500
  BY <1>5
<1>6. CASE b = 1000
  BY <1>6
<1> QED BY <1>1, <1>2, <1>3, <1>4, <1>5, <1>6 DEF Intervals

\* The strikes: no two nearer than the interval, m the multiple next to the spot.
Grid(K, b, m, spot) ==
  /\ b \in Nat \ {0} /\ m \in Nat /\ spot \in Nat \ {0}
  /\ 2 * (m - spot) <= b /\ 2 * (spot - m) <= b
  /\ m = 0 \/ m = b \/ m >= 2 * b
  /\ \A k \in K : k \in Nat /\ (k = b \/ k >= 2 * b) /\ (k = m \/ k >= m + b \/ k <= m - b)
  /\ m > 0 => m \in K
  /\ m = 0 => b \in K
  /\ m >= 2 * b => m - b \in K

LEMMA StrikesAreGrid ==
  ASSUME NEW spot \in Nat \ {0}, Wings \in Nat \ {0}
  PROVE  LET b == Export!Interval(spot)
         IN  Grid(Export!Strikes(spot), b, Export!Rounded(spot, b) * b, spot)
<1> DEFINE b == Export!Interval(spot)
           c == Export!Rounded(spot, b)
           K == Export!Strikes(spot)
<1>1. b \in Intervals /\ b \in Nat \ {0}
  BY IntervalIsOne DEF Intervals
<1>2. K = {k \in {(c + i) * b : i \in -Wings .. Wings} : k > 0}
  BY DEF Export!Strikes
<1> HIDE DEF b
<1>3. c \in Nat /\ 2 * (c * b - spot) <= b /\ 2 * (spot - c * b) <= b
  BY <1>1, RoundedIsNear
<1> HIDE DEF c, K
<1>4. -1 \in -Wings .. Wings /\ 0 \in -Wings .. Wings /\ 1 \in -Wings .. Wings
  OBVIOUS
<1>5. \A i \in -Wings .. Wings : i \in Int
  OBVIOUS
<1>6. \A k \in K : \E i \in Int : k = (c + i) * b /\ k > 0
  BY <1>2, <1>5
<1>7. \A k \in K : k \in Nat /\ (k = b \/ k >= 2 * b) /\ (k = c * b \/ k >= c * b + b \/ k <= c * b - b)
  <2> SUFFICES ASSUME NEW k \in K
               PROVE  k \in Nat /\ (k = b \/ k >= 2 * b) /\ (k = c * b \/ k >= c * b + b \/ k <= c * b - b)
    OBVIOUS
  <2>1. PICK i \in Int : k = (c + i) * b /\ k > 0
    BY <1>6
  <2>2. i = 0 \/ i >= 1 \/ i <= -1
    OBVIOUS
  <2> QED BY <2>1, <2>2, <1>1, <1>3, MultiplesAround
<1>8. /\ (c + 0) * b = c * b /\ (c + 1) * b = c * b + b /\ (c + (-1)) * b = c * b - b
      /\ c * b \in Nat /\ (c = 0 => c * b = 0) /\ (c = 1 => c * b = b) /\ (c >= 2 => c * b >= 2 * b)
  BY <1>1, <1>3, MultiplesAround
<1>9. c * b > 0 => c * b \in K
  BY <1>2, <1>4, <1>8
<1>10. c * b = 0 => b \in K
  <2> SUFFICES ASSUME c * b = 0 PROVE b \in K
    OBVIOUS
  <2>1. (c + 1) * b = b /\ b > 0
    BY <1>1, <1>8
  <2> QED BY <1>2, <1>4, <2>1
<1>11. c * b >= 2 * b => c * b - b \in K
  <2> SUFFICES ASSUME c * b >= 2 * b PROVE c * b - b \in K
    OBVIOUS
  <2>1. (c + (-1)) * b = c * b - b /\ c * b - b > 0
    BY <1>1, <1>8
  <2> QED BY <1>2, <1>4, <2>1
<1>12. c * b = 0 \/ c * b = b \/ c * b >= 2 * b
  <2>1. c = 0 \/ c = 1 \/ c >= 2
    BY <1>3
  <2> QED BY <2>1, <1>8
<1>13. Grid(K, b, c * b, spot)
  <2> DEFINE m == c * b
  <2>1. m \in Nat
    BY <1>8
  <2> QED BY <2>1, <1>1, <1>3, <1>7, <1>9, <1>10, <1>11, <1>12 DEF Grid
<1> QED BY <1>13 DEF b, c, K

\* The first of the strikes that are nearest.
Nearest(k, K, spot) ==
  /\ k \in K
  /\ \A j \in K : \/ Export!Distance(k, spot) < Export!Distance(j, spot)
                  \/ Export!Distance(k, spot) = Export!Distance(j, spot) /\ k <= j

LEMMA GridHasNearest ==
  ASSUME NEW K, NEW b, NEW m, NEW spot, Grid(K, b, m, spot)
  PROVE  \E k : Nearest(k, K, spot)
<1>1. CASE m = 0
  BY <1>1 DEF Grid, Nearest, Export!Distance
<1>2. CASE m > 0 /\ ~(m >= 2 * b /\ 2 * (m - spot) = b)
  <2>1. Nearest(m, K, spot)
    BY <1>2 DEF Grid, Nearest, Export!Distance
  <2> QED BY <2>1
<1>3. CASE m >= 2 * b /\ 2 * (m - spot) = b
  <2>1. Nearest(m - b, K, spot)
    BY <1>3 DEF Grid, Nearest, Export!Distance
  <2> QED BY <2>1
<1>4. m \in Nat
  BY DEF Grid
<1> QED BY <1>1, <1>2, <1>3, <1>4

\* What MarksAreRight says of a chain, of the strikes K and the one marked.
Marked(K, atm, b, spot) ==
  /\ atm \in K
  /\ \A k \in {Export!Most(atm - b, b), atm + b} : Export!Distance(atm, spot) <= Export!Distance(k, spot)
  /\ \A k \in K : k <= atm => k = atm \/ k < spot
  /\ \A k \in K : k >= atm => k = atm \/ k > spot

LEMMA NearestIsMarked ==
  ASSUME NEW K, NEW b, NEW m, NEW spot, Grid(K, b, m, spot), NEW k, Nearest(k, K, spot)
  PROVE  Marked(K, k, b, spot)
<1>1. k \in K /\ k \in Nat /\ (k = b \/ k >= 2 * b) /\ (k = m \/ k >= m + b \/ k <= m - b)
  BY DEF Grid, Nearest
<1>2. b \in Nat \ {0} /\ m \in Nat /\ spot \in Nat \ {0}
  BY DEF Grid
<1>3. \A j \in K : j \in Nat /\ Export!Distance(k, spot) <= Export!Distance(j, spot)
  BY <1>1, <1>2 DEF Grid, Nearest, Export!Distance
<1>4. m > 0 => 2 * Export!Distance(k, spot) <= b
  BY <1>1, <1>2, <1>3 DEF Grid, Export!Distance
<1>5. m = 0 => k = b
  <2> SUFFICES ASSUME m = 0 PROVE k = b
    OBVIOUS
  <2>1. b \in K /\ 2 * spot <= b
    BY <1>2 DEF Grid
  <2>2. Export!Distance(k, spot) <= Export!Distance(b, spot)
    BY <2>1, <1>3
  <2> QED BY <1>1, <1>2, <2>1, <2>2 DEF Export!Distance
<1>6. \A j \in {Export!Most(k - b, b), k + b} : Export!Distance(k, spot) <= Export!Distance(j, spot)
  <2>1. CASE m > 0
    <3>1. CASE k >= 2 * b
      BY <1>1, <1>2, <1>4, <2>1, <3>1 DEF Export!Distance, Export!Most
    <3>2. CASE k < 2 * b
      <4>1. k = b
        BY <1>1, <1>2, <3>2, <2>1 DEF Grid
      <4>2. Export!Most(k - b, b) = k
        BY <4>1, <1>1, <1>2 DEF Export!Most
      <4> QED BY <1>1, <1>2, <1>4, <2>1, <4>2 DEF Export!Distance
    <3> QED BY <3>1, <3>2, <1>1, <1>2
  <2>2. CASE m = 0
    <3>1. k = b /\ 2 * spot <= b
      BY <1>5, <2>2, <1>2 DEF Grid
    <3> QED BY <1>1, <1>2, <3>1 DEF Export!Distance, Export!Most
  <2> QED BY <2>1, <2>2, <1>2
<1>7. \A j \in K : (j < k => j < spot) /\ (j > k => j > spot)
  BY <1>1, <1>2, <1>3 DEF Nearest, Export!Distance
<1> QED BY <1>1, <1>3, <1>6, <1>7 DEF Marked

-----------------------------------------------------------------------------
\* The days a download on day t is of.
TradingDays(p, t) ==
  IF p.start <= t THEN {d \in DOMAIN yahoo : p.start <= d /\ d <= p.end /\ d <= t}
                  ELSE {d \in DOMAIN yahoo : t - 7 <= d /\ d <= t}

Pages(p) == IF p.tabs THEN 2 ELSE 1

MarketDays == {m \in [day : DOMAIN yahoo, spot : {NaN} \cup Nat, window : Seq(Nat)] :
                 m.spot = yahoo[m.day] /\ EndsWith(m.window, m.day)}

ChainFormat == [spot : Nat \ {0}, vol : Seq(Nat), strikes : SUBSET Nat, atm : Nat,
                calls : SUBSET Nat, puts : SUBSET Nat]

ChainOK(c, d) ==
  /\ Marked(c.strikes, c.atm, Export!Interval(c.spot), c.spot)
  /\ c.calls = {k \in c.strikes : k <= c.atm} /\ c.puts = {k \in c.strikes : k >= c.atm}
  /\ c.vol = <<>> \/ EndsWith(c.vol, d)

ChainSheets == {s \in [tab : {"Option Chain", "Combined"}, day : Nat, chain : ChainFormat] :
                  ChainOK(s.chain, s.day)}
TechSheets  == {s \in [tab : {"Technicals"}, day : Nat, window : Seq(Nat)] : EndsWith(s.window, s.day)}
Sheets      == ChainSheets \cup TechSheets

ExportTypes ==
  /\ today \in FirstDay .. MaxDay /\ yahoo \in Histories /\ fetchedOn \in Nat
  /\ asked \subseteq Periods /\ \A p, q \in asked : p = q
  /\ stage \in {"new", "fetch", "write", "done"} /\ status \in {0, 200, 400, 500, 503}
  /\ days \in Seq(MarketDays) /\ sheets \in Seq(Sheets)

RequestOK ==
  /\ stage = "new" => asked = {}
  /\ stage \in {"new", "fetch"} => days = <<>> /\ sheets = <<>>
  /\ stage # "done" => status = 0
  /\ stage \in {"fetch", "write"} \/ status = 200 =>
       asked # {} /\ \A p \in asked : p.start <= p.end
  /\ status = 200 => days = <<>>
  /\ status = 500 => \E d \in DOMAIN yahoo : yahoo[d] = NaN
  /\ status = 400 => \A p \in asked : p.start > p.end \/ p.end - p.start > Widest
  /\ status = 503 => sheets = <<>>

InOrder ==
  /\ \A i, j \in DOMAIN days : i < j => days[i].day < days[j].day
  /\ \A i, j \in DOMAIN sheets : i < j => sheets[i].day <= sheets[j].day
  /\ \A i \in DOMAIN sheets, j \in DOMAIN days : sheets[i].day < days[j].day

\* What is written and what is still to be written are the days of the period.
Complete(W, n) ==
  /\ {sheets[i].day : i \in DOMAIN sheets} \cup {days[j].day : j \in DOMAIN days} = W
  /\ Len(sheets) = (Cardinality(W) - Len(days)) * n

WorkbookOK ==
  /\ InOrder
  /\ stage = "write" \/ status = 200 =>
       \A p \in asked : Complete(TradingDays(p, fetchedOn), Pages(p))

ExportInv == ExportTypes /\ RequestOK /\ WorkbookOK

LEMMA ExportConstants ==
  /\ FirstDay \in Nat /\ MaxDay \in Nat /\ FirstDay <= MaxDay
  /\ Widest \in Nat /\ Lookback \in Nat /\ Kept \in Nat \ {0} /\ Enough \in Nat /\ Wings \in Nat \ {0}
  /\ \A p \in Periods : p.start \in Nat /\ p.end \in Nat /\ p.tabs \in BOOLEAN
  /\ \A h \in Histories : \A d \in DOMAIN h : d \in Nat /\ (h[d] = NaN \/ h[d] \in Nat \ {0})
BY PathsAssumption DEF Export!ConstantsAssumption

LEMMA ExportInit == Export!Init => ExportInv
<1> SUFFICES ASSUME Export!Init PROVE ExportInv
  OBVIOUS
<1>1. days \in Seq(MarketDays) /\ sheets \in Seq(Sheets)
  BY EmptySeq DEF Export!Init
<1>2. ExportTypes
  BY <1>1, ExportConstants DEF Export!Init, ExportTypes
<1>3. RequestOK
  BY DEF Export!Init, RequestOK
<1>4. WorkbookOK
  BY DEF Export!Init, WorkbookOK, InOrder
<1> QED BY <1>2, <1>3, <1>4 DEF ExportInv

LEMMA ExportAsk ==
  ASSUME ExportInv, NEW p \in Periods, Export!Ask(p) PROVE ExportInv'
<1> USE DEF ExportInv
<1>1. ExportTypes'
  BY DEF ExportTypes, Export!Ask, Export!Reply, MarketDays
<1>2. RequestOK'
  BY ExportConstants DEF ExportTypes, RequestOK, Export!Ask, Export!Reply
<1>3. days = <<>> /\ sheets = <<>> /\ days' = <<>> /\ sheets' = <<>>
  BY DEF RequestOK, Export!Ask
<1>4. stage' # "write" /\ status' # 200
  BY DEF RequestOK, Export!Ask, Export!Reply
<1>5. WorkbookOK'
  BY <1>3, <1>4 DEF WorkbookOK, InOrder
<1> QED BY <1>1, <1>2, <1>5

LEMMA ExportFetchFails ==
  ASSUME ExportInv, Export!FetchFails PROVE ExportInv'
<1> USE DEF ExportInv
<1>1. ExportTypes'
  BY ExportConstants DEF ExportTypes, Export!FetchFails, Export!Reply, MarketDays
<1>2. RequestOK'
  BY DEF ExportTypes, RequestOK, Export!FetchFails, Export!Reply
<1>3. days = <<>> /\ sheets = <<>> /\ days' = <<>> /\ sheets' = <<>>
  BY DEF RequestOK, Export!FetchFails
<1>4. stage' # "write" /\ status' # 200
  BY DEF RequestOK, Export!FetchFails, Export!Reply
<1>5. WorkbookOK'
  BY <1>3, <1>4 DEF WorkbookOK, InOrder
<1> QED BY <1>1, <1>2, <1>5

LEMMA ExportSave ==
  ASSUME ExportInv, Export!Save PROVE ExportInv'
<1> USE DEF ExportInv
<1>1. ExportTypes'
  BY ExportConstants DEF ExportTypes, Export!Save, Export!Reply, MarketDays
<1>2. RequestOK'
  BY DEF ExportTypes, RequestOK, Export!Save, Export!Reply
<1>3. InOrder'
  BY DEF WorkbookOK, InOrder, Export!Save, Export!Reply
<1>4. ASSUME stage' = "write" \/ status' = 200, NEW p \in asked
      PROVE  Complete(TradingDays(p, fetchedOn), Pages(p))'
  <2>1. Complete(TradingDays(p, fetchedOn), Pages(p))
    BY <1>4 DEF WorkbookOK, Export!Save, Export!Reply
  <2>2. sheets' = sheets /\ days' = days /\ yahoo' = yahoo /\ fetchedOn' = fetchedOn
    BY DEF Export!Save
  <2> QED BY <2>1, <2>2 DEF Complete, TradingDays
<1>5. WorkbookOK'
  BY <1>3, <1>4 DEF WorkbookOK, Export!Save, Export!Reply
<1> QED BY <1>1, <1>2, <1>5

LEMMA ExportMidnight ==
  ASSUME ExportInv, Export!Midnight PROVE ExportInv'
<1> USE DEF ExportInv
<1>1. ExportTypes'
  BY ExportConstants DEF ExportTypes, Export!Midnight, MarketDays
<1>2. RequestOK'
  BY DEF ExportTypes, RequestOK, Export!Midnight
<1>3. InOrder'
  BY DEF WorkbookOK, InOrder, Export!Midnight
<1>4. ASSUME stage' = "write" \/ status' = 200, NEW p \in asked
      PROVE  Complete(TradingDays(p, fetchedOn), Pages(p))'
  <2>1. Complete(TradingDays(p, fetchedOn), Pages(p))
    BY <1>4 DEF WorkbookOK, Export!Midnight
  <2> QED BY <2>1 DEF Complete, TradingDays, Export!Midnight
<1>5. WorkbookOK'
  BY <1>3, <1>4 DEF WorkbookOK, Export!Midnight
<1> QED BY <1>1, <1>2, <1>5

LEMMA ExportStutter ==
  ASSUME ExportInv, UNCHANGED exportVars PROVE ExportInv'
<1> USE DEF ExportInv
<1>1. ExportTypes'
  BY DEF ExportTypes, exportVars, MarketDays
<1>2. RequestOK'
  BY DEF RequestOK, exportVars
<1>3. InOrder'
  BY DEF WorkbookOK, InOrder, exportVars
<1>4. ASSUME stage' = "write" \/ status' = 200, NEW p \in asked
      PROVE  Complete(TradingDays(p, fetchedOn), Pages(p))'
  <2>1. Complete(TradingDays(p, fetchedOn), Pages(p))
    BY <1>4 DEF WorkbookOK, exportVars
  <2> QED BY <2>1 DEF Complete, TradingDays, exportVars
<1>5. WorkbookOK'
  BY <1>3, <1>4 DEF WorkbookOK, exportVars
<1> QED BY <1>1, <1>2, <1>5

(* The download: the days that are to be written are those of the period.  *)
LEMMA ExportFetch ==
  ASSUME ExportInv, Export!Fetch PROVE ExportInv'
<1> USE DEF ExportInv
<1>1. PICK p \in asked : 
       LET bars   == Export!Bars(p)
           wanted == {d \in bars : Export!Begin(p) <= d /\ d <= Export!End(p)}
       IN  IF wanted = {} THEN Export!Reply(503) /\ UNCHANGED days
           ELSE /\ days' = [i \in 1 .. Export!Cardinality(wanted) |->
                              LET d == Export!Sorted(wanted)[i]
                              IN  [day |-> d, spot |-> yahoo[d], window |-> Export!Window(bars, d)]]
                /\ stage' = "write" /\ UNCHANGED status
  BY DEF Export!Fetch
<1>2. stage = "fetch" /\ fetchedOn' = today /\ UNCHANGED <<today, yahoo, asked, sheets>>
  BY DEF Export!Fetch
<1>3. /\ p \in Periods /\ p.start \in Nat /\ p.end \in Nat /\ p.start <= p.end
      /\ today \in Nat /\ \A d \in DOMAIN yahoo : d \in Nat /\ (yahoo[d] = NaN \/ yahoo[d] \in Nat \ {0})
      /\ \A q \in asked : q = p
  BY <1>2, ExportConstants DEF ExportTypes, RequestOK
<1>4. days = <<>> /\ sheets = <<>> /\ status = 0
  BY <1>2 DEF RequestOK
<1> DEFINE bars   == Export!Bars(p)
           wanted == {d \in bars : Export!Begin(p) <= d /\ d <= Export!End(p)}
<1>5. bars \subseteq 0 .. today /\ bars \subseteq DOMAIN yahoo
  BY <1>3 DEF Export!Bars
<1>6. wanted = TradingDays(p, today)
  <2>1. CASE p.start <= today
    <3>1. Export!End(p) \in Nat /\ Export!End(p) <= today /\ Export!Begin(p) = p.start
          /\ (\A d \in Nat : d <= Export!End(p) <=> d <= p.end /\ d <= today)
      BY <1>3, <2>1 DEF Export!Begin, Export!End, Export!Least
    <3> HIDE DEF Export!Begin, Export!End
    <3> QED BY <1>3, <2>1, <3>1, ExportConstants DEF Export!Bars, TradingDays
  <2>2. CASE ~(p.start <= today)
    <3>1. Export!End(p) = today /\ Export!Begin(p) = Export!Most(today - 7, 0)
      BY <1>3, <2>2 DEF Export!Begin, Export!End, Export!Least
    <3>2. \A d \in Nat : (Export!Begin(p) <= d /\ d <= Export!End(p)) <=> (today - 7 <= d /\ d <= today)
      BY <1>3, <3>1 DEF Export!Most
    <3>3. Export!Begin(p) \in Nat
      BY <1>3, <3>1 DEF Export!Most
    <3> QED BY <1>3, <2>2, <3>1, <3>2, <3>3, ExportConstants DEF Export!Bars, TradingDays
  <2> QED BY <2>1, <2>2
<1> HIDE DEF bars, wanted
<1>7. CASE wanted = {}
  <2>1. Export!Reply(503) /\ UNCHANGED days
    BY <1>1, <1>7 DEF wanted, bars
  <2>2. ExportTypes'
    BY <1>2, <1>3, <2>1 DEF ExportTypes, Export!Reply, MarketDays
  <2>3. RequestOK'
    BY <1>2, <1>4, <2>1 DEF RequestOK, Export!Reply
  <2>4. WorkbookOK'
    BY <1>2, <1>4, <2>1 DEF WorkbookOK, InOrder, Export!Reply
  <2> QED BY <2>2, <2>3, <2>4
<1>8. CASE wanted # {}
  <2> DEFINE n == Cardinality(wanted)
             s == Export!Sorted(wanted)
  <2>1. /\ days' = [i \in 1 .. n |-> [day |-> s[i], spot |-> yahoo[s[i]], window |-> Export!Window(bars, s[i])]]
        /\ stage' = "write" /\ UNCHANGED status
    BY <1>1, <1>8, ExportCardinality DEF wanted, bars
  <2>2. wanted \subseteq bars /\ wanted \subseteq 0 .. today
    BY <1>5 DEF wanted
  <2>3. /\ IsFiniteSet(wanted) /\ n \in Nat /\ s \in [1 .. n -> wanted]
        /\ \A i, j \in 1 .. n : i < j => s[i] < s[j]
        /\ \A x \in wanted : \E i \in 1 .. n : s[i] = x
    BY <1>3, <2>2, SortedLists
  <2> HIDE DEF n, s
  <2>4. \A i \in 1 .. n : s[i] \in wanted /\ s[i] \in bars /\ s[i] \in DOMAIN yahoo
    BY <2>2, <2>3, <1>5
  <2>5. \A i \in 1 .. n : EndsWith(Export!Window(bars, s[i]), s[i])
    BY <2>4, <1>3, <1>5, WindowEnds, ExportConstants
  <2>6. \A i \in 1 .. n : [day |-> s[i], spot |-> yahoo[s[i]], window |-> Export!Window(bars, s[i])] \in MarketDays
    <3> SUFFICES ASSUME NEW i \in 1 .. n
                 PROVE  [day |-> s[i], spot |-> yahoo[s[i]], window |-> Export!Window(bars, s[i])] \in MarketDays
      OBVIOUS
    <3>1. EndsWith(Export!Window(bars, s[i]), s[i]) /\ Export!Window(bars, s[i]) \in Seq(Nat)
      BY <2>5 DEF EndsWith
    <3>2. s[i] \in DOMAIN yahoo /\ yahoo[s[i]] \in {NaN} \cup Nat
      BY <2>4, <1>3
    <3> QED BY <3>1, <3>2 DEF MarketDays
  <2>7. days' \in Seq(MarketDays) /\ Len(days') = n
    BY <2>1, <2>3, <2>6
  <2>8. MarketDays' = MarketDays
    BY <1>2 DEF MarketDays
  <2>9. ExportTypes'
    BY <1>2, <1>3, <2>1, <2>7, <2>8 DEF ExportTypes
  <2>10. RequestOK'
    BY <1>2, <1>3, <1>4, <2>1 DEF RequestOK
  <2>11. DOMAIN days' = 1 .. n /\ \A i \in 1 .. n : days'[i].day = s[i]
    BY <2>1
  <2>12. {days'[i].day : i \in DOMAIN days'} = wanted
    BY <2>3, <2>4, <2>11
  <2>13. sheets' = <<>> /\ DOMAIN sheets' = {} /\ Len(sheets') = 0
    BY <1>2, <1>4
  <2>14. InOrder'
    BY <2>3, <2>11, <2>13 DEF InOrder
  <2>15. {sheets'[i].day : i \in DOMAIN sheets'} = {}
    BY <2>13
  <2>16. (n - n) * Pages(p) = 0
    BY <2>3 DEF Pages
  <2>17. TradingDays(p, fetchedOn)' = wanted
    BY <1>2, <1>6 DEF TradingDays
  <2>18. Complete(TradingDays(p, fetchedOn), Pages(p))'
    BY <2>7, <2>12, <2>13, <2>15, <2>16, <2>17 DEF Complete, n, Pages
  <2>19. WorkbookOK'
    BY <1>2, <1>3, <2>14, <2>18 DEF WorkbookOK
  <2> QED BY <2>9, <2>10, <2>19
<1> QED BY <1>7, <1>8

LEMMA ChainIsOK ==
  ASSUME ExportInv, NEW m \in MarketDays, m.spot # NaN
  PROVE  Export!Chain(m) \in ChainFormat /\ ChainOK(Export!Chain(m), m.day)
<1>1. /\ m.day \in DOMAIN yahoo /\ m.day \in Nat /\ m.spot = yahoo[m.day] /\ m.spot \in Nat \ {0}
      /\ EndsWith(m.window, m.day) /\ m.window \in Seq(Nat)
  BY ExportConstants DEF ExportInv, ExportTypes, MarketDays
<1> DEFINE K == Export!Strikes(m.spot)
           b == Export!Interval(m.spot)
           k == Export!AtTheMoney(m.spot)
<1>2. Grid(K, b, Export!Rounded(m.spot, b) * b, m.spot)
  BY <1>1, StrikesAreGrid, ExportConstants
<1>3. \E j : Nearest(j, K, m.spot)
  <2> HIDE DEF K, b
  <2> QED BY <1>2, GridHasNearest
<1>4. Nearest(k, K, m.spot)
  BY <1>3 DEF Nearest, Export!AtTheMoney
<1> HIDE DEF K, b, k
<1>5. Marked(K, k, b, m.spot)
  BY <1>2, <1>4, NearestIsMarked
<1>6. K \subseteq Nat /\ k \in K
  BY <1>2, <1>5 DEF Grid, Marked
<1>7. Export!Chain(m) = [spot |-> m.spot, vol |-> Export!Volatility(m.window), strikes |-> K, atm |-> k,
                         calls |-> {j \in K : j <= k}, puts |-> {j \in K : j >= k}]
  BY DEF Export!Chain, K, k
<1>8. Export!Volatility(m.window) \in {<<>>, m.window}
  BY DEF Export!Volatility
<1>9. Export!Volatility(m.window) \in Seq(Nat)
  BY <1>1, <1>8, EmptySeq
<1> DEFINE c == Export!Chain(m)
<1>10. c \in ChainFormat
  <2>1. PICK calls, puts : calls = {j \in K : j <= k} /\ puts = {j \in K : j >= k}
    OBVIOUS
  <2>2. calls \in SUBSET Nat /\ puts \in SUBSET Nat /\ K \in SUBSET Nat /\ k \in Nat
    BY <1>6, <2>1
  <2>3. c = [spot |-> m.spot, vol |-> Export!Volatility(m.window), strikes |-> K, atm |-> k,
             calls |-> calls, puts |-> puts]
    BY <1>7, <2>1
  <2> QED BY <1>1, <1>9, <2>2, <2>3 DEF ChainFormat
<1>11. c.spot = m.spot /\ c.strikes = K /\ c.atm = k /\ c.vol = Export!Volatility(m.window)
       /\ c.calls = {j \in K : j <= k} /\ c.puts = {j \in K : j >= k}
  BY <1>7
<1> HIDE DEF c
<1>12. ChainOK(c, m.day)
  BY <1>1, <1>5, <1>8, <1>11 DEF ChainOK, b
<1> QED BY <1>10, <1>12 DEF c

LEMMA PagesOfADay ==
  ASSUME ExportInv, NEW m \in MarketDays, m.spot # NaN, NEW p, p.tabs \in BOOLEAN
  PROVE  LET new == IF p.tabs THEN Export!SeparateTabs(m) ELSE Export!Combined(m)
         IN  new \in Seq(Sheets) /\ Len(new) = Pages(p) /\ \A i \in 1 .. Len(new) : new[i].day = m.day
<1>1. Export!Chain(m) \in ChainFormat /\ ChainOK(Export!Chain(m), m.day)
  BY ChainIsOK
<1>2. m.day \in Nat /\ EndsWith(m.window, m.day) /\ m.window \in Seq(Nat)
  BY ExportConstants DEF ExportInv, ExportTypes, MarketDays
<1> DEFINE s(t) == [tab |-> t, day |-> m.day, chain |-> Export!Chain(m)]
           w == [tab |-> "Technicals", day |-> m.day, window |-> m.window]
<1>3. s("Option Chain") \in Sheets /\ s("Combined") \in Sheets
  <2>1. ASSUME NEW t \in {"Option Chain", "Combined"} PROVE s(t) \in ChainSheets
    BY <1>1, <1>2 DEF ChainSheets
  <2> QED BY <2>1 DEF Sheets
<1>4. w \in Sheets
  BY <1>2 DEF Sheets, TechSheets
<1>5. s("Option Chain").day = m.day /\ s("Combined").day = m.day /\ w.day = m.day
  OBVIOUS
<1>6. Export!SeparateTabs(m) = <<s("Option Chain"), w>> /\ Export!Combined(m) = <<s("Combined")>>
  BY DEF Export!SeparateTabs, Export!Combined
<1>7. CASE p.tabs
  <2>1. PICK x, y : x = s("Option Chain") /\ y = w
    OBVIOUS
  <2>2. x \in Sheets /\ y \in Sheets /\ x.day = m.day /\ y.day = m.day
    BY <1>3, <1>4, <1>5, <2>1
  <2>3. Export!SeparateTabs(m) = <<x, y>> /\ Pages(p) = 2
    BY <1>6, <1>7, <2>1 DEF Pages
  <2> QED BY <1>7, <2>2, <2>3
<1>8. CASE ~p.tabs
  <2>1. PICK x : x = s("Combined")
    OBVIOUS
  <2>2. x \in Sheets /\ x.day = m.day
    BY <1>3, <1>5, <2>1
  <2>3. Export!Combined(m) = <<x>> /\ Pages(p) = 1
    BY <1>6, <1>8, <2>1 DEF Pages
  <2> QED BY <1>8, <2>2, <2>3
<1> QED BY <1>7, <1>8

LEMMA ExportWrite ==
  ASSUME ExportInv, Export!Write PROVE ExportInv'
<1> USE DEF ExportInv
<1>1. /\ stage = "write" /\ days # <<>> /\ days \in Seq(MarketDays) /\ sheets \in Seq(Sheets)
      /\ UNCHANGED <<today, yahoo, asked, fetchedOn>>
  BY DEF ExportTypes, Export!Write
<1>2. PICK m : m = Head(days)
  OBVIOUS
<1>3. m = days[1] /\ m \in MarketDays /\ 1 \in DOMAIN days
  BY <1>1, <1>2
<1>4. PICK p \in asked : \A q \in asked : q = p
  BY <1>1 DEF ExportTypes, RequestOK
<1>5. p.tabs \in BOOLEAN
  BY ExportConstants DEF ExportTypes
<1>6. MarketDays' = MarketDays
  BY <1>1 DEF MarketDays
<1>7. CASE m.spot = NaN
  <2>1. Export!Reply(500) /\ UNCHANGED <<days, sheets>>
    BY <1>2, <1>7 DEF Export!Write
  <2>2. ExportTypes'
    BY <1>1, <1>6, <2>1 DEF ExportTypes, Export!Reply
  <2>3. \E d \in DOMAIN yahoo : yahoo[d] = NaN
    BY <1>3, <1>7 DEF MarketDays
  <2>4. RequestOK'
    BY <1>1, <2>1, <2>3 DEF RequestOK, Export!Reply
  <2>5. InOrder'
    BY <2>1 DEF WorkbookOK, InOrder
  <2>6. WorkbookOK'
    BY <2>1, <2>5 DEF WorkbookOK, Export!Reply
  <2> QED BY <2>2, <2>4, <2>6
<1>8. CASE m.spot # NaN
  <2> DEFINE new == IF p.tabs THEN Export!SeparateTabs(m) ELSE Export!Combined(m)
  <2>1. sheets' = sheets \o new /\ days' = Tail(days) /\ UNCHANGED <<stage, status>>
    BY <1>2, <1>4, <1>8 DEF Export!Write
  <2>2. new \in Seq(Sheets) /\ Len(new) = Pages(p) /\ \A i \in 1 .. Len(new) : new[i].day = m.day
    BY <1>3, <1>5, <1>8, PagesOfADay
  <2> HIDE DEF new
  <2>3. /\ sheets' \in Seq(Sheets) /\ Len(sheets') = Len(sheets) + Pages(p)
        /\ \A i \in 1 .. Len(sheets) : sheets'[i] = sheets[i]
        /\ \A i \in Len(sheets) + 1 .. Len(sheets) + Pages(p) : sheets'[i].day = m.day
    <3>1. /\ sheets' \in Seq(Sheets) /\ Len(sheets') = Len(sheets) + Len(new)
          /\ \A i \in 1 .. Len(sheets) + Len(new) :
                sheets'[i] = IF i <= Len(sheets) THEN sheets[i] ELSE new[i - Len(sheets)]
      BY <1>1, <2>1, <2>2, ConcatProperties
    <3>2. Len(sheets) \in Nat /\ Len(new) \in Nat
      BY <1>1, <2>2
    <3>3. ASSUME NEW i \in Len(sheets) + 1 .. Len(sheets) + Pages(p) PROVE sheets'[i].day = m.day
      <4>1. i \in 1 .. Len(sheets) + Len(new) /\ ~(i <= Len(sheets)) /\ i - Len(sheets) \in 1 .. Len(new)
        BY <2>2, <3>2
      <4> QED BY <2>2, <3>1, <4>1
    <3> QED BY <2>2, <3>1, <3>2, <3>3
  <2>4. /\ days' \in Seq(MarketDays) /\ Len(days') = Len(days) - 1 /\ Len(days) \in Nat
        /\ \A i \in 1 .. Len(days') : days'[i] = days[i + 1]
    BY <1>1, <2>1, HeadTailProperties
  <2>5. DOMAIN days' = 1 .. Len(days) - 1 /\ DOMAIN days = 1 .. Len(days) /\ Len(days) >= 1
    BY <1>1, <1>3, <2>4
  <2>6. Len(sheets) \in Nat /\ DOMAIN sheets = 1 .. Len(sheets) /\ DOMAIN sheets' = 1 .. Len(sheets) + Pages(p)
        /\ Pages(p) \in {1, 2}
    BY <1>1, <2>3 DEF Pages
  <2>7. ExportTypes'
    BY <1>1, <1>6, <2>1, <2>3, <2>4 DEF ExportTypes
  <2>8. RequestOK'
    BY <1>1, <2>1 DEF RequestOK
  <2>9. InOrder
    BY DEF WorkbookOK
  <2>10. \A i \in DOMAIN sheets' :
           \/ i \in DOMAIN sheets /\ sheets'[i] = sheets[i] /\ sheets'[i].day < m.day
           \/ i > Len(sheets) /\ sheets'[i].day = m.day
    BY <1>3, <2>3, <2>6, <2>9 DEF InOrder
  <2>11. \A j \in DOMAIN days' : j + 1 \in DOMAIN days /\ days'[j] = days[j + 1] /\ m.day < days'[j].day
    BY <1>3, <2>4, <2>5, <2>9 DEF InOrder
  <2>12. \A d \in MarketDays : d.day \in Nat
    BY ExportConstants DEF ExportTypes, MarketDays
  <2>13. \A j \in DOMAIN days' : days'[j] \in MarketDays /\ days'[j].day \in Nat
    BY <2>4, <2>12
  <2>14. \A i \in DOMAIN sheets' : sheets'[i].day \in Nat
    <3>1. \A s \in Sheets : s.day \in Nat
      BY DEF Sheets, ChainSheets, TechSheets
    <3> QED BY <2>3, <3>1
  <2>15. m.day \in Nat
    BY <1>3, <2>12
  <2>16. InOrder'
    <3>1. ASSUME NEW i \in DOMAIN days', NEW j \in DOMAIN days', i < j PROVE days'[i].day < days'[j].day
      BY <2>5, <2>9, <2>11, <3>1 DEF InOrder
    <3>2. ASSUME NEW i \in DOMAIN sheets', NEW j \in DOMAIN sheets', i < j PROVE sheets'[i].day <= sheets'[j].day
      BY <2>6, <2>9, <2>10, <2>14, <2>15, <3>2 DEF InOrder
    <3>3. ASSUME NEW i \in DOMAIN sheets', NEW j \in DOMAIN days' PROVE sheets'[i].day < days'[j].day
      BY <2>10, <2>11, <2>13, <2>14, <2>15
    <3> QED BY <3>1, <3>2, <3>3 DEF InOrder
  <2> DEFINE W == TradingDays(p, fetchedOn)
             done == {sheets[i].day : i \in DOMAIN sheets}
             rest == {days[j].day : j \in DOMAIN days}
  <2>17. done \cup rest = W /\ Len(sheets) = (Cardinality(W) - Len(days)) * Pages(p)
    BY <1>1, <1>4 DEF WorkbookOK, Complete
  <2>18. {sheets'[i].day : i \in DOMAIN sheets'} = done \cup {m.day}
    <3>1. Len(sheets) + 1 \in DOMAIN sheets' /\ sheets'[Len(sheets) + 1].day = m.day
      BY <2>3, <2>6
    <3>2. \A i \in DOMAIN sheets : i \in DOMAIN sheets' /\ sheets'[i] = sheets[i]
      BY <2>3, <2>6
    <3> QED BY <3>1, <3>2, <2>10
  <2>19. {days'[j].day : j \in DOMAIN days'} \cup {m.day} = rest
    <3>1. \A j \in DOMAIN days : j = 1 \/ (j - 1 \in DOMAIN days' /\ days'[j - 1] = days[j])
      BY <2>4, <2>5
    <3> QED BY <3>1, <2>11, <1>3
  <2>20. Cardinality(W) \in Nat
    <3>1. W \subseteq 0 .. fetchedOn /\ fetchedOn \in Nat
      BY ExportConstants DEF TradingDays, ExportTypes
    <3> HIDE DEF W
    <3> QED BY <3>1, SortedLists
  <2> HIDE DEF W, done, rest
  <2>21. Len(sheets') = (Cardinality(W) - Len(days')) * Pages(p)
    <3>1. Len(sheets') = (Cardinality(W) - Len(days)) * Pages(p) + Pages(p)
      BY <2>3, <2>17
    <3> QED BY <3>1, <2>4, <2>6, <2>20
  <2>22. {sheets'[i].day : i \in DOMAIN sheets'} \cup {days'[j].day : j \in DOMAIN days'} = W
    BY <2>17, <2>18, <2>19
  <2>23. W = TradingDays(p, fetchedOn)'
    BY <1>1 DEF W, TradingDays
  <2>24. Complete(TradingDays(p, fetchedOn), Pages(p))'
    BY <2>21, <2>22, <2>23 DEF Complete, Pages
  <2>25. WorkbookOK'
    BY <1>1, <1>4, <2>16, <2>24 DEF WorkbookOK
  <2> QED BY <2>7, <2>8, <2>25
<1> QED BY <1>7, <1>8

LEMMA ExportStep == ExportInv /\ [Export!Next]_exportVars => ExportInv'
BY ExportAsk, ExportFetch, ExportFetchFails, ExportWrite, ExportSave, ExportMidnight, ExportStutter
   DEF Export!Next

LEMMA ExportImplies == ExportInv => Export!TypeOK /\ ExportIsHonest
<1> SUFFICES ASSUME ExportInv PROVE Export!TypeOK /\ ExportIsHonest
  OBVIOUS
<1> USE DEF ExportInv
<1>1. sheets \in Seq(Sheets) /\ days \in Seq(MarketDays)
  BY DEF ExportTypes
<1>2. Export!TypeOK
  <2>1. Cardinality(asked) <= 1
    <3>1. CASE asked = {}
      BY <3>1, FS_EmptySet
    <3>2. CASE asked # {}
      <4>1. PICK p \in asked : asked = {p}
        BY <3>2 DEF ExportTypes
      <4>2. Cardinality({p}) = 1
        BY FS_Singleton
      <4> QED BY <4>1, <4>2
    <3> QED BY <3>1, <3>2
  <2>2. \A i \in DOMAIN days : days[i].day \in DOMAIN yahoo
    BY <1>1 DEF MarketDays
  <2> QED BY <2>1, <2>2, ExportCardinality DEF ExportTypes, Export!TypeOK
<1>3. Export!CoversThePeriod
  <2> SUFFICES ASSUME status = 200, NEW p \in asked
               PROVE
      /\ Export!Written = TradingDays(p, fetchedOn)
      /\ Len(sheets) = Cardinality(Export!Written) * Pages(p)
      /\ \A i, j \in DOMAIN sheets : i < j => sheets[i].day <= sheets[j].day
    BY ExportCardinality DEF Export!CoversThePeriod, TradingDays, Pages
  <2>1. days = <<>> /\ DOMAIN days = {} /\ Len(days) = 0
    BY DEF RequestOK
  <2>2. Complete(TradingDays(p, fetchedOn), Pages(p)) /\ InOrder
    BY DEF WorkbookOK
  <2>3. Export!Written = TradingDays(p, fetchedOn)
    BY <2>1, <2>2 DEF Complete, Export!Written
  <2>4. Cardinality(TradingDays(p, fetchedOn)) \in Nat
    <3> DEFINE W == TradingDays(p, fetchedOn)
    <3>1. W \subseteq 0 .. fetchedOn /\ fetchedOn \in Nat
      BY ExportConstants DEF TradingDays, ExportTypes
    <3> HIDE DEF W
    <3> QED BY <3>1, SortedLists DEF W
  <2>5. Len(sheets) = Cardinality(Export!Written) * Pages(p)
    BY <2>1, <2>2, <2>3, <2>4 DEF Complete
  <2> QED BY <2>2, <2>3, <2>5 DEF InOrder
<1>4. \A i \in DOMAIN sheets :
        /\ sheets[i].tab = "Technicals" => sheets[i] \in TechSheets
        /\ sheets[i].tab # "Technicals" => sheets[i] \in ChainSheets
  <2>1. \A s \in ChainSheets : s.tab # "Technicals"
    BY DEF ChainSheets
  <2>2. \A s \in TechSheets : s.tab = "Technicals"
    BY DEF TechSheets
  <2>3. \A i \in DOMAIN sheets : sheets[i] \in ChainSheets \cup TechSheets
    BY <1>1 DEF Sheets
  <2> QED BY <2>1, <2>2, <2>3
<1>5. Export!NoLookahead
  <2> SUFFICES ASSUME NEW i \in DOMAIN sheets,
                      NEW w, w = IF sheets[i].tab = "Technicals" THEN sheets[i].window ELSE sheets[i].chain.vol,
                      w # <<>>
               PROVE  w[Len(w)] = sheets[i].day /\ \A j \in DOMAIN w : w[j] <= sheets[i].day
    BY DEF Export!NoLookahead
  <2>1. EndsWith(w, sheets[i].day)
    BY <1>4 DEF TechSheets, ChainSheets, ChainOK
  <2>2. w \in Seq(Nat) /\ DOMAIN w = 1 .. Len(w)
    BY <2>1 DEF EndsWith
  <2> QED BY <2>1, <2>2 DEF EndsWith
<1>6. Export!MarksAreRight
  <2> SUFFICES ASSUME NEW i \in DOMAIN sheets, sheets[i].tab # "Technicals",
                      NEW c, c = sheets[i].chain, NEW b, b = Export!Interval(c.spot)
               PROVE
      /\ c.atm \in c.strikes
      /\ \A k \in {Export!Most(c.atm - b, b), c.atm + b} :
             Export!Distance(c.atm, c.spot) <= Export!Distance(k, c.spot)
      /\ c.calls \cap c.puts = {c.atm} /\ c.calls \cup c.puts = c.strikes
      /\ \A k \in c.calls \ {c.atm} : k < c.spot
      /\ \A k \in c.puts \ {c.atm}  : k > c.spot
    BY DEF Export!MarksAreRight
  <2>1. c \in ChainFormat /\ ChainOK(c, sheets[i].day)
    BY <1>4 DEF ChainSheets
  <2>2. c.strikes \subseteq Nat /\ c.atm \in Nat
    BY <2>1 DEF ChainFormat
  <2>3. Marked(c.strikes, c.atm, b, c.spot)
    BY <2>1 DEF ChainOK
  <2>4. c.calls = {k \in c.strikes : k <= c.atm} /\ c.puts = {k \in c.strikes : k >= c.atm}
    BY <2>1 DEF ChainOK
  <2> QED BY <2>2, <2>3, <2>4 DEF Marked
<1>7. Export!RefusalsAreMeant
  BY DEF RequestOK, Export!RefusalsAreMeant
<1> QED BY <1>2, <1>3, <1>5, <1>6, <1>7 DEF ExportIsHonest, Export!ExportIsHonest

LEMMA ExportAlways == PathsSpec => []ExportInv
<1>1. PathsInit => ExportInv
  BY ExportInit DEF PathsInit
<1>2. ExportInv /\ [PathsNext]_allVars => ExportInv'
  <2> SUFFICES ASSUME ExportInv, [PathsNext]_allVars PROVE ExportInv'
    OBVIOUS
  <2>1. [Export!Next]_exportVars
    BY DEF PathsNext, allVars, moreVars
  <2> QED BY <2>1, ExportStep
<1> QED BY <1>1, <1>2, PTL DEF PathsSpec

(* A workbook that is delivered has every trading day of its period once,  *)
(* in order and without a glance at a later day; the strikes are marked as *)
(* they are, and an export that is refused was refused for its reason.     *)
THEOREM ExportHonest == PathsSpec => []ExportIsHonest
<1>1. ExportInv => ExportIsHonest
  BY ExportImplies
<1> QED BY <1>1, ExportAlways, PTL

-----------------------------------------------------------------------------
(* The migrations beside the other components.                             *)
LEMMA MigrationsAlways == PathsSpec => []IInv
<1>1. PathsInit => IInv
  BY MigrationsInitially, PathsAssumption DEF PathsInit
<1>2. IInv /\ [PathsNext]_allVars => IInv'
  <2> SUFFICES ASSUME IInv, [PathsNext]_allVars PROVE IInv'
    OBVIOUS
  <2>1. [Next]_vars
    BY DEF PathsNext, allVars, moreVars
  <2> QED BY <2>1, MigrationsStep
<1> QED BY <1>1, <1>2, PTL DEF PathsSpec

LEMMA ClientsAlways == PathsSpec => []ClientsInv
BY ClientsInitially, ClientsStep, PTL DEF PathsSpec

(* Every component of the data paths keeps to its types: the runners, the  *)
(* backtests, the dataset, the adapters, the catalogue, the pool, the Redis*)
(* client, the workbook and the API.                                       *)
THEOREM PathsWellTyped == PathsSpec => []PathsTypeOK
<1>1. ASSUME IInv, TradingInv, DatasetInv, MarketInv, ClientsInv, ExportInv, ApiInv PROVE PathsTypeOK
  <2>1. TypeOK /\ Trading!TypeOK /\ Dataset!TypeOK
    BY <1>1, TradingImplies, DatasetImplies DEF IInv
  <2>2. Market!TypeOK /\ Export!TypeOK /\ Api!TypeOK
    BY <1>1, MarketImplies, ExportImplies, ApiImplies
  <2>3. Catalog!TypeOK /\ Pool!TypeOK /\ Redis!TypeOK
    BY <1>1, CatalogImplies, PoolImplies, RedisImplies DEF ClientsInv
  <2> QED BY <2>1, <2>2, <2>3 DEF PathsTypeOK
<1> QED BY <1>1, MigrationsAlways, TradingAlways, DatasetAlways, MarketAlways, ClientsAlways,
           ExportAlways, ApiAlways, PTL
=============================================================================
