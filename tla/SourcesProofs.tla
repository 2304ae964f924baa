--------------------------- MODULE SourcesProofs ---------------------------
(***************************************************************************)
(* Proofs about components of MCDataPaths, for every instance: the dataset *)
(* of the studies, the market-data adapters, the API that reads the keys.  *)
(***************************************************************************)
EXTENDS MCDataPaths, FiniteSetTheorems, WellFoundedInduction, TLAPS

(* Sets of natural numbers have a least element.                           *)
LEMMA LeastElement ==
  ASSUME NEW S, S \subseteq Nat, S # {} PROVE \E x \in S : \A y \in S : x <= y
<1>1. PICK x \in S : \A y \in S : <<y, x>> \notin OpToRel(<, Nat)
  BY NatLessThanWellFounded, WFMin
<1>2. \A y \in S : ~(y < x)
  BY <1>1 DEF OpToRel
<1> QED BY <1>2

-----------------------------------------------------------------------------
(* The dataset. *)

RowType   == [day : Dates, expiry : Nat, signal : BOOLEAN]
ChainType == [day : Dates, expiry : Nat]

DatasetTypes ==
  /\ file \in [Dates -> {"absent", "partial", "whole"}]
  /\ job \in {"none", "all", "collect", "cache"} /\ pc \in {"idle", "download", "walk", "save"}
  /\ missing \subseteq Dates /\ todo \subseteq Dates
  /\ panel \subseteq RowType /\ chain \subseteq ChainType
  /\ failed \in [Dates -> 0 .. MaxFailures] /\ error \in {"none", "broken file", "nothing"}
  /\ builds \in 0 .. MaxBuilds /\ faults \in 0 .. MaxFaults /\ torn \in BOOLEAN

\* The days that are being fetched: there are no more of them than threads,
\* each once, and none while nothing runs or only the cache is read.
FetchesOK ==
  /\ busy \subseteq [day : Dates, writing : BOOLEAN] /\ IsFiniteSet(busy) /\ Cardinality(busy) <= Threads
  /\ \A a, b \in busy : a.day = b.day => a = b
  /\ \A b \in busy :
       b.day \notin todo /\ file[b.day] # "whole" /\ (b.writing => b.day \in DOMAIN Archives)
  /\ pc \in {"idle", "save"} \/ job \in {"none", "cache"} => busy = {}
  /\ pc = "download" => job = "all" /\ todo \subseteq missing /\ \A d \in todo : file[d] = "absent"
  /\ job = "none" => pc = "idle"
  /\ pc = "save" => todo = {}

\* Half a file is being written, or something went wrong.
FilesOK ==
  /\ \A d \in Dates : file[d] # "absent" => d \in DOMAIN Archives
  /\ \A d \in Dates : file[d] = "partial" => faults > 0 \/ \E b \in busy : b.day = d /\ b.writing
  /\ error # "none" => pc = "idle"
  /\ error = "broken file" => faults > 0 /\ \E d \in Dates : file[d] = "partial"

Fetching(d) == \E b \in busy : b.day = d

\* What a day still lacks has had its failures.
Fetched(d) ==
  d \in missing => d \in todo \/ Fetching(d) \/ file[d] = "whole" \/ failed[d] >= 1

Walked(d) ==
  IF d \in todo THEN d \in missing => file[d] = "whole" \/ failed[d] >= 1
  ELSE \/ Dataset!Rows(d) \subseteq panel
       \/ failed[d] >= (IF d \in missing THEN 1 ELSE 0) + (IF Fetching(d) THEN 0 ELSE 1)

GapsOK ==
  job # "cache" => \A d \in DOMAIN Archives :
    /\ pc = "download" => Fetched(d)
    /\ pc \in {"walk", "save"} => Walked(d)

DatasetInv == DatasetTypes /\ FetchesOK /\ FilesOK /\ GapsOK

\* Rows of a panel whose contracts a chain lists, the signals in time.
Fits(rows, listed) ==
  \A r \in rows :
    /\ [day |-> r.day, expiry |-> r.expiry] \in listed
    /\ r.signal => r.expiry - r.day >= 14

OneBuild(pair) ==
  pair.panel.build = pair.chain.build /\ Fits(pair.panel.rows, pair.chain.rows)

\* A rebuild from the cache has a chain for its panel, and saves it first.
StudyInv ==
  /\ job = "cache" /\ pc \in {"walk", "save"} => Fits(panel, chain)
  /\ job = "cache" /\ pc = "save" => saved.chain = [rows |-> chain, build |-> builds]
  /\ ~torn /\ ~(job = "cache" /\ pc = "save") => OneBuild(saved)
  /\ saved = [panel |-> saved.panel, chain |-> saved.chain]

LEMMA DatasetConstants ==
  /\ Dates \subseteq Nat /\ DOMAIN Archives \subseteq Dates
  /\ Threads \in Nat \ {0} /\ MaxBuilds \in Nat /\ MaxFaults \in Nat /\ MaxFailures \in Nat
BY PathsAssumption DEF Dataset!ConstantsAssumption

LEMMA ArchiveExpiries == \A d \in DOMAIN Archives : \A c \in Archives[d] : c.expiry \in Nat
BY PathsAssumption DEF Dataset!ConstantsAssumption

LEMMA DatasetCardinality == \A S : Dataset!Cardinality(S) = Cardinality(S)
BY DEF Dataset!Cardinality, Cardinality

LEMMA RowsFixed == job' = job => \A d : Dataset!Rows(d)' = Dataset!Rows(d)
BY DEF Dataset!Rows

(* What a day gives to a panel is of its archive, and a signal is on the   *)
(* nearest of the expiries at least fourteen days away.                    *)
LEMMA RowsAreTyped ==
  ASSUME NEW d \in DOMAIN Archives
  PROVE  /\ Dataset!PanelRows(d) \subseteq RowType /\ Dataset!CollectRows(d) \subseteq RowType
         /\ Dataset!SignalRows(d) \subseteq RowType /\ Dataset!ChainRows(d) \subseteq ChainType
         /\ Fits(Dataset!SignalRows(d), Dataset!ChainRows(d))
<1>1. /\ d \in Dates /\ d \in Nat
      /\ \A c \in Archives[d] : c.expiry \in Nat
  BY DatasetConstants, ArchiveExpiries
<1>2. ASSUME NEW pool, pool \subseteq Archives[d] PROVE Dataset!Nearest(d, pool) \subseteq RowType
  <2>1. \A c \in pool : [day |-> d, expiry |-> c.expiry, signal |-> TRUE] \in RowType
    BY <1>1, <1>2 DEF RowType
  <2> QED BY <2>1 DEF Dataset!Nearest
<1>3. Dataset!PanelRows(d) \subseteq RowType /\ Dataset!CollectRows(d) \subseteq RowType
  <2>1. Dataset!Far(d) \subseteq Archives[d]
    BY DEF Dataset!Far
  <2> QED BY <1>2, <2>1 DEF Dataset!PanelRows, Dataset!CollectRows
<1>4. Dataset!ChainRows(d) \subseteq ChainType
  BY <1>1 DEF Dataset!ChainRows, ChainType
<1> DEFINE range    == {c \in Archives[d] : Dataset!Dte(d, c) \in 2 .. 45}
           eligible == {c.expiry : c \in {x \in range : Dataset!Dte(d, x) >= 14}}
           Signal(c) == eligible # {} /\ c.expiry = Dataset!Min(eligible)
           row(c) == [day |-> d, expiry |-> c.expiry, signal |-> Signal(c)]
<1>5. Dataset!SignalRows(d) = {row(c) : c \in {x \in range : x.traded}}
  BY DEF Dataset!SignalRows
<1>6. ASSUME NEW c \in range, Signal(c) PROVE c.expiry - d >= 14
  <2>1. eligible \subseteq Nat /\ eligible # {}
    BY <1>1, <1>6
  <2>2. \E x \in eligible : \A y \in eligible : x <= y
    <3> HIDE DEF eligible
    <3> QED BY <2>1, LeastElement
  <2>3. Dataset!Min(eligible) \in eligible
    <3> HIDE DEF eligible
    <3> QED BY <2>2 DEF Dataset!Min
  <2>4. c.expiry \in eligible
    BY <1>6, <2>3
  <2>5. \E x \in Archives[d] : x.expiry = c.expiry /\ Dataset!Dte(d, x) >= 14
    BY <2>4
  <2> QED BY <2>5 DEF Dataset!Dte
<1>7. ASSUME NEW c \in range PROVE c.expiry \in Nat /\ [day |-> d, expiry |-> c.expiry] \in Dataset!ChainRows(d)
  <2>1. c \in Archives[d] /\ Dataset!Dte(d, c) \in 0 .. 60
    BY <1>1 DEF Dataset!Dte
  <2> QED BY <1>1, <2>1 DEF Dataset!ChainRows
<1> HIDE DEF range, Signal
<1>8. ASSUME NEW c \in range
      PROVE  /\ row(c) \in RowType
             /\ row(c).day = d /\ row(c).expiry = c.expiry /\ (row(c).signal <=> Signal(c))
  <2>1. (Signal(c)) \in BOOLEAN
    BY DEF Signal
  <2>2. PICK v \in BOOLEAN : v = Signal(c)
    BY <2>1
  <2>3. row(c) = [day |-> d, expiry |-> c.expiry, signal |-> v]
    BY <2>2
  <2> HIDE DEF row
  <2>4. row(c) \in RowType /\ row(c).day = d /\ row(c).expiry = c.expiry /\ row(c).signal = v
    <3>1. c.expiry \in Nat /\ d \in Dates
      BY <1>1, <1>7
    <3> QED BY <2>3, <3>1 DEF RowType
  <2>5. row(c).signal <=> Signal(c)
    BY <2>2, <2>4
  <2> QED BY <2>4, <2>5
<1> HIDE DEF row
<1>9. Dataset!SignalRows(d) \subseteq RowType
  BY <1>5, <1>8
<1>10. Fits(Dataset!SignalRows(d), Dataset!ChainRows(d))
  BY <1>5, <1>6, <1>7, <1>8 DEF Fits
<1> QED BY <1>3, <1>4, <1>9, <1>10

LEMMA DatasetInitially == Dataset!Init => DatasetInv /\ StudyInv
<1> SUFFICES ASSUME Dataset!Init PROVE DatasetInv /\ StudyInv
  OBVIOUS
<1> USE DatasetConstants DEF Dataset!Init
<1>1. DatasetTypes
  <2>1. 0 \in 0 .. MaxFailures /\ 0 \in 0 .. MaxBuilds /\ 0 \in 0 .. MaxFaults
    OBVIOUS
  <2> QED BY <2>1 DEF DatasetTypes
<1>2. FetchesOK
  BY FS_EmptySet DEF FetchesOK
<1>3. FilesOK /\ GapsOK
  BY DEF FilesOK, GapsOK
<1>4. StudyInv
  BY DEF StudyInv, OneBuild, Fits, Dataset!Nothing
<1> QED BY <1>1, <1>2, <1>3, <1>4 DEF DatasetInv

LEMMA DatasetStart ==
  ASSUME DatasetInv, StudyInv, NEW j \in {"all", "collect", "cache"}, Dataset!Start(j)
  PROVE  DatasetInv' /\ StudyInv'
<1> USE DatasetConstants DEF DatasetInv
<1>1. /\ pc = "idle" /\ busy' = {} /\ job' = j /\ error' = "none" /\ failed' = [d \in Dates |-> 0]
      /\ builds < MaxBuilds /\ builds' = builds + 1
      /\ panel' = {} /\ chain' = {} /\ UNCHANGED <<file, saved, study, faults, torn>>
  BY DEF Dataset!Start
<1>2. \/ j = "all" /\ pc' = "download" /\ missing' = {d \in Dates : file[d] = "absent"} /\ todo' = missing'
      \/ j # "all" /\ pc' = "walk" /\ missing' = {} /\ todo' = Dates
  BY DEF Dataset!Start
<1>3. DatasetTypes'
  <2>1. 0 \in 0 .. MaxFailures /\ builds' \in 0 .. MaxBuilds
    <3>1. builds \in 0 .. MaxBuilds
      BY DEF DatasetTypes
    <3> QED BY <1>1, <3>1
  <2>2. missing' \subseteq Dates /\ todo' \subseteq Dates
    BY <1>2
  <2>3. failed' \in [Dates -> 0 .. MaxFailures]
    BY <1>1, <2>1
  <2> QED BY <1>1, <1>2, <2>1, <2>2, <2>3 DEF DatasetTypes
<1>4. FetchesOK'
  BY <1>1, <1>2, FS_EmptySet DEF FetchesOK
<1>5. busy = {}
  BY <1>1 DEF FetchesOK
<1>6. FilesOK'
  BY <1>1, <1>5 DEF FilesOK
<1>7. GapsOK'
  BY <1>1, <1>2 DEF GapsOK, Fetched, Walked
<1>8. StudyInv'
  BY <1>1, <1>2 DEF StudyInv, OneBuild, Fits
<1> QED BY <1>3, <1>4, <1>6, <1>7, <1>8

LEMMA DatasetTake ==
  ASSUME DatasetInv, StudyInv, NEW d \in todo, Dataset!Take(d)
  PROVE  DatasetInv' /\ StudyInv'
<1> USE DatasetConstants DEF DatasetInv
<1> DEFINE b == [day |-> d, writing |-> FALSE]
<1>1. /\ pc = "download" /\ todo' = todo \ {d} /\ busy' = busy \cup {b} /\ Cardinality(busy) < Threads
      /\ UNCHANGED <<file, job, pc, missing, panel, chain, failed, error, saved, study, builds, faults, torn>>
  BY DatasetCardinality DEF Dataset!Take
<1>2. b \in [day : Dates, writing : BOOLEAN] /\ b.day = d /\ b.writing = FALSE
  BY DEF DatasetTypes
<1> HIDE DEF b
<1>3. DatasetTypes'
  BY <1>1 DEF DatasetTypes
<1>4. FetchesOK'
  <2>1. IsFiniteSet(busy') /\ Cardinality(busy') <= Threads
    <3>1. Cardinality(busy) \in Nat /\ IsFiniteSet(busy)
      BY FS_CardinalityType DEF FetchesOK
    <3>2. IsFiniteSet(busy \cup {b}) /\ Cardinality(busy \cup {b}) <= Cardinality(busy) + 1
      <4>1. /\ IsFiniteSet(busy \cup {b})
            /\ Cardinality(busy \cup {b}) = IF b \in busy THEN Cardinality(busy) ELSE Cardinality(busy) + 1
        BY <3>1, FS_AddElement
      <4> QED BY <3>1, <4>1
    <3>3. \A n, k \in Nat : n < k => n + 1 <= k
      OBVIOUS
    <3>4. Cardinality(busy \cup {b}) \in Nat
      BY <3>2, FS_CardinalityType
    <3> QED BY <1>1, <3>1, <3>2, <3>3, <3>4
  <2>2. busy' \subseteq [day : Dates, writing : BOOLEAN]
    BY <1>1, <1>2 DEF FetchesOK
  <2>0. /\ \A a \in busy : a.day # d
        /\ \A a, c \in busy : a.day = c.day => a = c
        /\ \A a \in busy : a.day \notin todo /\ file[a.day] # "whole" /\ (a.writing => a.day \in DOMAIN Archives)
        /\ file[d] = "absent"
    BY <1>1 DEF FetchesOK
  <2>3. \A a, c \in busy' : a.day = c.day => a = c
    BY <1>1, <1>2, <2>0
  <2>4. \A a \in busy' : a.day \notin todo' /\ file'[a.day] # "whole" /\ (a.writing => a.day \in DOMAIN Archives)
    BY <1>1, <1>2, <2>0
  <2>5. pc' \notin {"idle", "save"} /\ job' \notin {"none", "cache"}
    BY <1>1 DEF FetchesOK
  <2>6. pc' = "download" => job' = "all" /\ todo' \subseteq missing' /\ \A x \in todo' : file'[x] = "absent"
    BY <1>1 DEF FetchesOK
  <2> QED BY <2>1, <2>2, <2>3, <2>4, <2>5, <2>6 DEF FetchesOK
<1>5. FilesOK'
  BY <1>1 DEF FilesOK
<1>6. GapsOK'
  BY <1>1, <1>2 DEF GapsOK, Fetched, Fetching
<1>7. StudyInv'
  BY <1>1 DEF StudyInv, OneBuild, Fits
<1> QED BY <1>3, <1>4, <1>5, <1>6, <1>7

LEMMA FailuresCounted == DatasetTypes => \A d \in Dates : failed[d] \in Nat /\ failed[d] <= MaxFailures
<1> SUFFICES ASSUME DatasetTypes, NEW d \in Dates PROVE failed[d] \in Nat /\ failed[d] <= MaxFailures
  OBVIOUS
<1>1. failed \in [Dates -> 0 .. MaxFailures] /\ MaxFailures \in Nat
  BY DatasetConstants DEF DatasetTypes
<1>2. failed[d] \in 0 .. MaxFailures
  BY <1>1
<1> QED BY <1>1, <1>2

LEMMA DatasetWalk ==
  ASSUME DatasetInv, StudyInv, NEW d \in todo, Dataset!Walk(d)
  PROVE  DatasetInv' /\ StudyInv'
<1> USE DatasetConstants DEF DatasetInv
<1>1. /\ pc = "walk" /\ busy = {} /\ d \in Dates
      /\ UNCHANGED <<file, job, missing, failed, saved, study, builds, faults, torn>>
  BY DEF Dataset!Walk, DatasetTypes
<1>2. CASE file[d] = "partial" /\ job = "cache"
  <2>1. pc' = "idle" /\ error' = "broken file" /\ UNCHANGED <<todo, busy, panel, chain>>
    BY <1>2 DEF Dataset!Walk
  <2>2. DatasetTypes' /\ FetchesOK'
    BY <1>1, <1>2, <2>1 DEF DatasetTypes, FetchesOK
  <2>3. FilesOK'
    BY <1>1, <1>2, <2>1 DEF FilesOK
  <2>4. GapsOK' /\ StudyInv'
    BY <1>1, <1>2, <2>1 DEF GapsOK, StudyInv, OneBuild, Fits
  <2> QED BY <2>2, <2>3, <2>4
<1>3. CASE file[d] = "whole"
  <2>1. /\ todo' = todo \ {d} /\ UNCHANGED <<pc, error, busy>>
        /\ panel' = panel \cup Dataset!Rows(d)
        /\ chain' = chain \cup (IF job = "cache" THEN Dataset!ChainRows(d) ELSE {})
    BY <1>3 DEF Dataset!Walk, Dataset!Read
  <2>2. d \in DOMAIN Archives
    BY <1>1, <1>3 DEF FilesOK
  <2>3. job \in {"all", "collect", "cache"}
    BY <1>1 DEF DatasetTypes, FetchesOK
  <2>4. Dataset!Rows(d) \subseteq RowType /\ Dataset!ChainRows(d) \subseteq ChainType
    BY <2>2, <2>3, RowsAreTyped DEF Dataset!Rows
  <2>5. RowType' = RowType /\ ChainType' = ChainType
    BY DEF RowType, ChainType
  <2>6. DatasetTypes'
    BY <1>1, <2>1, <2>4, <2>5 DEF DatasetTypes
  <2>7. FetchesOK' /\ FilesOK'
    BY <1>1, <2>1 DEF FetchesOK, FilesOK
  <2>8. GapsOK'
    <3> SUFFICES ASSUME job # "cache", NEW x \in DOMAIN Archives PROVE Walked(x)'
      BY <1>1, <2>1 DEF GapsOK
    <3>1. Walked(x) /\ Dataset!Rows(x)' = Dataset!Rows(x)
      BY <1>1, RowsFixed DEF GapsOK
    <3>2. CASE x = d
      BY <1>1, <2>1, <3>1, <3>2 DEF Walked
    <3>3. CASE x # d
      BY <1>1, <2>1, <3>1, <3>3 DEF Walked, Fetching
    <3> QED BY <3>2, <3>3
  <2>9. StudyInv'
    <3>1. job = "cache" => Fits(Dataset!Rows(d), Dataset!ChainRows(d))
      BY <2>2, RowsAreTyped DEF Dataset!Rows
    <3>2. job = "cache" => Fits(panel', chain')
      BY <1>1, <2>1, <3>1 DEF StudyInv, Fits
    <3> QED BY <1>1, <2>1, <3>2 DEF StudyInv, OneBuild, Fits
  <2> QED BY <2>6, <2>7, <2>8, <2>9
<1>4. CASE file[d] # "whole" /\ ~(file[d] = "partial" /\ job = "cache")
  <2>1. /\ todo' = todo \ {d} /\ UNCHANGED <<pc, error, panel, chain>>
        /\ busy' = IF job = "cache" THEN {} ELSE {[day |-> d, writing |-> FALSE]}
    BY <1>1, <1>4 DEF Dataset!Walk
  <2>2. DatasetTypes'
    BY <1>1, <2>1 DEF DatasetTypes
  <2>3. FetchesOK'
    <3>1. IsFiniteSet(busy') /\ Cardinality(busy') <= 1
      <4>1. Cardinality({}) = 0 /\ IsFiniteSet({})
        BY FS_EmptySet
      <4>2. \A x : IsFiniteSet({x}) /\ Cardinality({x}) = 1
        BY FS_Singleton
      <4>3. CASE job = "cache"
        BY <2>1, <4>1, <4>3
      <4>4. CASE job # "cache"
        <5> DEFINE b == [day |-> d, writing |-> FALSE]
        <5>1. busy' = {b}
          BY <2>1, <4>4
        <5>2. IsFiniteSet({b}) /\ Cardinality({b}) = 1
          BY <4>2
        <5> HIDE DEF b
        <5> QED BY <5>1, <5>2
      <4> QED BY <4>3, <4>4
    <3>2. Cardinality(busy') <= Threads
      BY <3>1, FS_CardinalityType
    <3>3. [day |-> d, writing |-> FALSE] \in [day : Dates, writing : BOOLEAN]
      BY <1>1
    <3>4. job # "none"
      BY <1>1 DEF FetchesOK
    <3>5. \A b \in busy' : b = [day |-> d, writing |-> FALSE] /\ job # "cache"
      BY <2>1
    <3>6. busy' \subseteq [day : Dates, writing : BOOLEAN]
      BY <3>3, <3>5
    <3>7. job' = "cache" => busy' = {}
      BY <1>1, <2>1
    <3>8. \A b \in busy' : b.day \notin todo' /\ file'[b.day] # "whole" /\ ~b.writing
      BY <1>1, <1>4, <2>1, <3>5
    <3>9. \A a, b \in busy' : a = b
      BY <3>5
    <3> QED BY <1>1, <2>1, <3>1, <3>2, <3>4, <3>6, <3>7, <3>8, <3>9 DEF FetchesOK
  <2>4. FilesOK'
    BY <1>1, <2>1 DEF FilesOK
  <2>5. GapsOK'
    <3> SUFFICES ASSUME job # "cache", NEW x \in DOMAIN Archives PROVE Walked(x)'
      BY <1>1, <2>1 DEF GapsOK
    <3>1. Walked(x) /\ Dataset!Rows(x)' = Dataset!Rows(x) /\ failed[x] \in Nat
      <4>1. x \in Dates
        OBVIOUS
      <4>2. failed[x] \in Nat
        BY <4>1, FailuresCounted
      <4> QED BY <1>1, <4>2, RowsFixed DEF GapsOK
    <3>2. CASE x = d
      <4>1. Fetching(x)' /\ (x \in missing => failed[x] >= 1)
        BY <1>4, <2>1, <3>1, <3>2 DEF Walked, Fetching
      <4> QED BY <1>1, <2>1, <3>1, <3>2, <4>1 DEF Walked
    <3>3. CASE x # d
      BY <1>1, <2>1, <3>1, <3>3 DEF Walked, Fetching
    <3> QED BY <3>2, <3>3
  <2>6. StudyInv'
    BY <1>1, <2>1 DEF StudyInv, OneBuild, Fits
  <2> QED BY <2>2, <2>3, <2>4, <2>5, <2>6
<1> QED BY <1>2, <1>3, <1>4

(* A day that is fetched, and what it becomes when the fetch ends.         *)
LEMMA FetchEnds ==
  ASSUME DatasetInv, NEW b \in busy, busy' = busy \ {b},
         UNCHANGED <<job, pc, missing, todo>>,
         \A x \in Dates : x # b.day => file'[x] = file[x]
  PROVE  /\ FetchesOK'
         /\ b.day \in Dates /\ b.day \notin todo /\ Fetching(b.day) /\ ~Fetching(b.day)'
         /\ \A x : x # b.day => (Fetching(x)' <=> Fetching(x))
         /\ pc \in {"download", "walk"} /\ job \in {"all", "collect"}
<1> USE DEF DatasetInv
<1>1. /\ busy \subseteq [day : Dates, writing : BOOLEAN] /\ IsFiniteSet(busy) /\ Cardinality(busy) <= Threads
      /\ \A a, c \in busy : a.day = c.day => a = c
      /\ \A a \in busy : a.day \notin todo /\ file[a.day] # "whole" /\ (a.writing => a.day \in DOMAIN Archives)
      /\ pc \in {"idle", "save"} \/ job \in {"none", "cache"} => busy = {}
      /\ pc = "download" => job = "all" /\ todo \subseteq missing /\ \A d \in todo : file[d] = "absent"
      /\ job = "none" => pc = "idle"
  BY DEF FetchesOK
<1>2. /\ pc \in {"idle", "download", "walk", "save"} /\ job \in {"none", "all", "collect", "cache"}
      /\ todo \subseteq Dates
  BY DEF DatasetTypes
<1>3. IsFiniteSet(busy') /\ Cardinality(busy') <= Threads
  <2>1. /\ IsFiniteSet(busy \ {b}) /\ Cardinality(busy) \in Nat
        /\ Cardinality(busy \ {b}) = IF b \in busy THEN Cardinality(busy) - 1 ELSE Cardinality(busy)
    BY <1>1, FS_RemoveElement, FS_CardinalityType
  <2>2. Threads \in Nat
    BY DatasetConstants
  <2> QED BY <1>1, <2>1, <2>2
<1>4. \A a \in busy' : a \in busy /\ a.day # b.day /\ a.day \in Dates
  BY <1>1
<1>5. \A a \in busy' : a.day \notin todo' /\ file'[a.day] # "whole" /\ (a.writing => a.day \in DOMAIN Archives)
  BY <1>1, <1>4
<1>6. pc' = "download" => job' = "all" /\ todo' \subseteq missing' /\ \A d \in todo' : file'[d] = "absent"
  <2>1. \A d \in todo : d # b.day /\ d \in Dates
    BY <1>1, <1>2
  <2> QED BY <1>1, <2>1
<1>7. FetchesOK'
  <2>1. busy' \subseteq [day : Dates, writing : BOOLEAN] /\ \A a, c \in busy' : a.day = c.day => a = c
    BY <1>1
  <2>2. (pc' \in {"idle", "save"} \/ job' \in {"none", "cache"} => busy' = {}) /\ (job' = "none" => pc' = "idle")
    BY <1>1
  <2> QED BY <1>3, <1>5, <1>6, <2>1, <2>2 DEF FetchesOK
<1>8. Fetching(b.day) /\ ~Fetching(b.day)' /\ \A x : x # b.day => (Fetching(x)' <=> Fetching(x))
  BY <1>4 DEF Fetching
<1>9. pc \in {"download", "walk"} /\ job \in {"all", "collect"}
  BY <1>1, <1>2
<1> QED BY <1>1, <1>7, <1>8, <1>9

LEMMA DatasetRefused ==
  ASSUME DatasetInv, StudyInv, NEW b \in busy, Dataset!Refused(b) \/ Dataset!WriteFailed(b)
  PROVE  DatasetInv' /\ StudyInv'
<1> USE DEF DatasetInv
<1>1. /\ busy' = busy \ {b}
      /\ UNCHANGED <<file, job, pc, missing, todo, panel, chain, error, saved, study, builds, torn>>
      /\ \/ b.day \notin DOMAIN Archives /\ UNCHANGED failed
         \/ failed[b.day] < MaxFailures /\ failed' = [failed EXCEPT ![b.day] = @ + 1]
      /\ (~b.writing /\ faults' = faults) \/ (faults < MaxFaults /\ faults' = faults + 1)
  BY DEF Dataset!Refused, Dataset!WriteFailed
<1>2. /\ FetchesOK'
      /\ b.day \in Dates /\ b.day \notin todo /\ Fetching(b.day) /\ ~Fetching(b.day)'
      /\ \A x : x # b.day => (Fetching(x)' <=> Fetching(x))
      /\ pc \in {"download", "walk"} /\ job \in {"all", "collect"}
  BY <1>1, FetchEnds
<1>3. \A x \in Dates : failed[x] \in Nat /\ failed[x] <= MaxFailures
  BY FailuresCounted
<1>4. /\ failed' \in [Dates -> 0 .. MaxFailures]
      /\ \A x \in Dates : failed'[x] = failed[x] \/ (x = b.day /\ failed'[x] = failed[x] + 1)
      /\ b.day \in DOMAIN Archives => failed'[b.day] = failed[b.day] + 1
  <2>1. failed \in [Dates -> 0 .. MaxFailures] /\ MaxFailures \in Nat
    BY DatasetConstants DEF DatasetTypes
  <2>2. CASE b.day \notin DOMAIN Archives /\ UNCHANGED failed
    BY <2>1, <2>2
  <2>3. CASE failed[b.day] < MaxFailures /\ failed' = [failed EXCEPT ![b.day] = @ + 1]
    <3>1. failed[b.day] + 1 \in 0 .. MaxFailures
      BY <1>2, <1>3, <2>1, <2>3
    <3> QED BY <1>2, <2>1, <2>3, <3>1
  <2> QED BY <1>1, <2>2, <2>3
<1>5. faults' \in 0 .. MaxFaults /\ (faults > 0 => faults' > 0) /\ (b.writing => faults' > 0)
  <2>1. faults \in 0 .. MaxFaults /\ MaxFaults \in Nat
    BY DatasetConstants DEF DatasetTypes
  <2> QED BY <1>1, <2>1
<1>6. DatasetTypes'
  BY <1>1, <1>4, <1>5 DEF DatasetTypes, RowType, ChainType
<1>7. FilesOK'
  <2>1. ASSUME NEW x \in Dates, file'[x] = "partial"
        PROVE  faults' > 0 \/ \E a \in busy' : a.day = x /\ a.writing
    <3>1. CASE faults > 0
      BY <1>5, <3>1
    <3>2. ASSUME NEW a \in busy, a.day = x, a.writing PROVE faults' > 0 \/ a \in busy'
      BY <1>1, <1>5, <3>2
    <3>3. file[x] = "partial"
      BY <1>1, <2>1
    <3> QED BY <3>1, <3>2, <3>3 DEF FilesOK
  <2> QED BY <1>1, <1>5, <2>1 DEF FilesOK
<1>8. GapsOK'
  <2> SUFFICES ASSUME NEW x \in DOMAIN Archives
               PROVE (pc = "download" => Fetched(x)') /\ (pc \in {"walk", "save"} => Walked(x)')
    BY <1>1 DEF GapsOK
  <2>1. /\ pc = "download" => Fetched(x)
        /\ pc \in {"walk", "save"} => Walked(x)
        /\ x \in Dates /\ Dataset!Rows(x)' = Dataset!Rows(x)
    BY <1>1, <1>2, DatasetConstants, RowsFixed DEF GapsOK
  <2>2. failed[x] \in Nat /\ failed'[x] \in Nat /\ failed'[x] >= failed[x]
    BY <1>3, <1>4, <2>1
  <2>3. CASE x = b.day
    <3>1. failed'[x] = failed[x] + 1 /\ ~Fetching(x)' /\ x \notin todo' /\ Fetching(x)
      BY <1>1, <1>2, <1>4, <2>3
    <3>2. pc = "download" => Fetched(x)'
      BY <2>2, <3>1 DEF Fetched
    <3>3. pc \in {"walk", "save"} => Walked(x)'
      BY <1>1, <2>1, <2>2, <3>1 DEF Walked
    <3> QED BY <3>2, <3>3
  <2>4. CASE x # b.day
    <3>1. (Fetching(x)' <=> Fetching(x)) /\ UNCHANGED <<file, missing, todo, panel>>
      BY <1>1, <1>2, <2>4
    <3>2. pc = "download" => Fetched(x)'
      BY <2>1, <2>2, <3>1 DEF Fetched
    <3>3. pc \in {"walk", "save"} => Walked(x)'
      BY <2>1, <2>2, <3>1 DEF Walked
    <3> QED BY <3>2, <3>3
  <2> QED BY <2>3, <2>4
<1>9. StudyInv'
  BY <1>1 DEF StudyInv, OneBuild, Fits
<1> QED BY <1>2, <1>6, <1>7, <1>8, <1>9

LEMMA DatasetReceived ==
  ASSUME DatasetInv, StudyInv, NEW b \in busy, Dataset!Received(b)
  PROVE  DatasetInv' /\ StudyInv'
<1> USE DEF DatasetInv
<1>0. PICK w : w = [day |-> b.day, writing |-> TRUE]
  OBVIOUS
<1>1. /\ ~b.writing /\ b.day \in DOMAIN Archives /\ file' = [file EXCEPT ![b.day] = "partial"]
      /\ b \in [day : Dates, writing : BOOLEAN]
      /\ UNCHANGED <<job, pc, missing, todo, panel, chain, failed, error, saved, study, builds, faults, torn>>
  BY DEF Dataset!Received, FetchesOK
<1>2. busy' = (busy \ {b}) \cup {w} /\ w \in [day : Dates, writing : BOOLEAN] /\ w.day = b.day /\ w.writing
  BY <1>0, <1>1 DEF Dataset!Received
<1>3. /\ file' \in [Dates -> {"absent", "partial", "whole"}] /\ b.day \in Dates
      /\ \A x \in Dates : file'[x] = IF x = b.day THEN "partial" ELSE file[x]
  BY <1>1 DEF DatasetTypes
<1>4. DatasetTypes'
  BY <1>1, <1>3 DEF DatasetTypes, RowType, ChainType
<1>5. FetchesOK'
  <2>1. /\ busy \subseteq [day : Dates, writing : BOOLEAN] /\ IsFiniteSet(busy) /\ Cardinality(busy) <= Threads
        /\ \A a, c \in busy : a.day = c.day => a = c
        /\ \A a \in busy : a.day \notin todo /\ file[a.day] # "whole" /\ (a.writing => a.day \in DOMAIN Archives)
        /\ pc \in {"idle", "save"} \/ job \in {"none", "cache"} => busy = {}
        /\ pc = "download" => job = "all" /\ todo \subseteq missing /\ \A d \in todo : file[d] = "absent"
        /\ job = "none" => pc = "idle"
    BY DEF FetchesOK
  <2>2. todo \subseteq Dates /\ Threads \in Nat
    BY DatasetConstants DEF DatasetTypes
  <2>3. IsFiniteSet(busy') /\ Cardinality(busy') <= Threads
    <3>1. /\ IsFiniteSet(busy \ {b}) /\ Cardinality(busy) \in Nat /\ Cardinality(busy \ {b}) \in Nat
          /\ Cardinality(busy \ {b}) = IF b \in busy THEN Cardinality(busy) - 1 ELSE Cardinality(busy)
      BY <2>1, FS_RemoveElement, FS_CardinalityType
    <3>2. /\ IsFiniteSet((busy \ {b}) \cup {w})
          /\ Cardinality((busy \ {b}) \cup {w}) = IF w \in busy \ {b} THEN Cardinality(busy \ {b}) ELSE Cardinality(busy \ {b}) + 1
      BY <3>1, FS_AddElement
    <3> QED BY <1>2, <2>1, <2>2, <3>1, <3>2
  <2>4. \A a \in busy' : a = w \/ (a \in busy /\ a.day # b.day)
    BY <1>2, <2>1
  <2>5. \A a, c \in busy' : a.day = c.day => a = c
    BY <1>2, <2>1, <2>4
  <2>6. \A a \in busy' : a.day \notin todo' /\ file'[a.day] # "whole" /\ (a.writing => a.day \in DOMAIN Archives)
    BY <1>1, <1>2, <1>3, <2>1, <2>4
  <2>7. pc' = "download" => job' = "all" /\ todo' \subseteq missing' /\ \A d \in todo' : file'[d] = "absent"
    <3>1. \A d \in todo : d # b.day /\ d \in Dates
      BY <2>1, <2>2
    <3> QED BY <1>1, <1>3, <2>1, <3>1
  <2>8. busy' \subseteq [day : Dates, writing : BOOLEAN]
    BY <1>2, <2>1
  <2>9. ~(pc' \in {"idle", "save"} \/ job' \in {"none", "cache"})
    BY <1>1, <2>1
  <2> QED BY <2>3, <2>5, <2>6, <2>7, <2>8, <2>9 DEF FetchesOK
<1>6. FilesOK'
  <2>1. ASSUME NEW x \in Dates PROVE file'[x] # "absent" => x \in DOMAIN Archives
    BY <1>1, <1>3 DEF FilesOK
  <2>2. ASSUME NEW x \in Dates, file'[x] = "partial"
        PROVE  faults' > 0 \/ \E a \in busy' : a.day = x /\ a.writing
    <3>1. CASE x = b.day
      BY <1>2, <3>1
    <3>2. CASE x # b.day
      BY <1>1, <1>2, <1>3, <2>2, <3>2 DEF FilesOK
    <3> QED BY <3>1, <3>2
  <2>3. error' # "none" => pc' = "idle"
    BY <1>1 DEF FilesOK
  <2>4. error' = "broken file" => faults' > 0 /\ \E d \in Dates : file'[d] = "partial"
    BY <1>1, <1>3 DEF FilesOK
  <2> QED BY <2>1, <2>2, <2>3, <2>4 DEF FilesOK
<1>7. GapsOK'
  <2> SUFFICES ASSUME job # "cache", NEW x \in DOMAIN Archives
               PROVE (pc = "download" => Fetched(x)') /\ (pc \in {"walk", "save"} => Walked(x)')
    BY <1>1 DEF GapsOK
  <2>1. /\ pc = "download" => Fetched(x)
        /\ pc \in {"walk", "save"} => Walked(x)
        /\ x \in Dates /\ Dataset!Rows(x)' = Dataset!Rows(x)
    BY <1>1, DatasetConstants, RowsFixed DEF GapsOK
  <2>2. Fetching(x)' <=> Fetching(x)
    BY <1>2 DEF Fetching
  <2>3. x = b.day => x \notin todo /\ Fetching(x)
    BY DEF Fetching, FetchesOK
  <2>4. x # b.day => file'[x] = file[x]
    BY <1>3, <2>1
  <2> QED BY <1>1, <2>1, <2>2, <2>3, <2>4 DEF Fetched, Walked
<1>8. StudyInv'
  BY <1>1 DEF StudyInv, OneBuild, Fits
<1> QED BY <1>4, <1>5, <1>6, <1>7, <1>8

LEMMA DatasetWritten ==
  ASSUME DatasetInv, StudyInv, NEW b \in busy, Dataset!Written(b)
  PROVE  DatasetInv' /\ StudyInv'
<1> USE DEF DatasetInv
<1>1. /\ b.writing /\ file' = [file EXCEPT ![b.day] = "whole"] /\ busy' = busy \ {b}
      /\ UNCHANGED <<job, pc, missing, todo, failed, error, saved, study, builds, faults, torn>>
  BY DEF Dataset!Written
<1>2. file \in [Dates -> {"absent", "partial", "whole"}] /\ b.day \in Dates /\ b.day \in DOMAIN Archives
  BY <1>1 DEF DatasetTypes, FetchesOK
<1>3. /\ file' \in [Dates -> {"absent", "partial", "whole"}]
      /\ \A x \in Dates : file'[x] = IF x = b.day THEN "whole" ELSE file[x]
  BY <1>1, <1>2
<1>4. /\ FetchesOK'
      /\ b.day \in Dates /\ b.day \notin todo /\ Fetching(b.day) /\ ~Fetching(b.day)'
      /\ \A x : x # b.day => (Fetching(x)' <=> Fetching(x))
      /\ pc \in {"download", "walk"} /\ job \in {"all", "collect"}
  <2>1. \A x \in Dates : x # b.day => file'[x] = file[x]
    BY <1>3
  <2> QED BY <1>1, <2>1, FetchEnds
<1>5. /\ chain' = chain /\ panel \subseteq panel' /\ panel' \subseteq panel \cup Dataset!Rows(b.day)
      /\ pc = "walk" => Dataset!Rows(b.day) \subseteq panel'
  BY <1>4 DEF Dataset!Written, Dataset!Read
<1>6. Dataset!Rows(b.day) \subseteq RowType
  BY <1>2, <1>4, RowsAreTyped DEF Dataset!Rows
<1>7. DatasetTypes'
  <2>1. RowType' = RowType /\ ChainType' = ChainType
    BY DEF RowType, ChainType
  <2>2. panel' \subseteq RowType
    BY <1>5, <1>6 DEF DatasetTypes
  <2> QED BY <1>1, <1>3, <1>5, <2>1, <2>2 DEF DatasetTypes
<1>8. FilesOK'
  <2>1. \A x \in Dates : file'[x] # "absent" => x \in DOMAIN Archives
    BY <1>2, <1>3 DEF FilesOK
  <2>2. ASSUME NEW x \in Dates, file'[x] = "partial"
        PROVE  faults' > 0 \/ \E a \in busy' : a.day = x /\ a.writing
    BY <1>1, <1>3, <2>2 DEF FilesOK
  <2>3. error' = "none"
    BY <1>1, <1>4 DEF FilesOK
  <2> QED BY <2>1, <2>2, <2>3 DEF FilesOK
<1>9. GapsOK'
  <2> SUFFICES ASSUME NEW x \in DOMAIN Archives
               PROVE (pc = "download" => Fetched(x)') /\ (pc = "walk" => Walked(x)')
    BY <1>1, <1>4 DEF GapsOK
  <2>1. /\ pc = "download" => Fetched(x)
        /\ pc = "walk" => Walked(x)
        /\ x \in Dates /\ Dataset!Rows(x)' = Dataset!Rows(x)
    BY <1>1, <1>4, DatasetConstants, RowsFixed DEF GapsOK
  <2>2. CASE x = b.day
    BY <1>1, <1>3, <1>4, <1>5, <2>1, <2>2 DEF Fetched, Walked
  <2>3. CASE x # b.day
    <3>1. (Fetching(x)' <=> Fetching(x)) /\ file'[x] = file[x]
      BY <1>3, <1>4, <2>1, <2>3
    <3>2. pc = "download" => Fetched(x)'
      BY <1>1, <2>1, <3>1 DEF Fetched
    <3>3. pc = "walk" => Walked(x)'
      BY <1>1, <1>5, <2>1, <3>1 DEF Walked
    <3> QED BY <3>2, <3>3
  <2> QED BY <2>2, <2>3
<1>10. StudyInv'
  BY <1>1, <1>4 DEF StudyInv, OneBuild, Fits
<1> QED BY <1>4, <1>7, <1>8, <1>9, <1>10

LEMMA DatasetDownloaded ==
  ASSUME DatasetInv, StudyInv, Dataset!Downloaded PROVE DatasetInv' /\ StudyInv'
<1> USE DEF DatasetInv
<1>1. /\ pc = "download" /\ todo = {} /\ busy = {} /\ pc' = "walk" /\ todo' = Dates
      /\ UNCHANGED <<file, job, missing, busy, panel, chain, failed, error, saved, study, builds, faults, torn>>
  BY DEF Dataset!Downloaded
<1>2. DatasetTypes'
  BY <1>1 DEF DatasetTypes, RowType, ChainType
<1>3. FetchesOK' /\ FilesOK' /\ job = "all"
  BY <1>1 DEF FetchesOK, FilesOK
<1>4. GapsOK'
  <2> SUFFICES ASSUME NEW x \in DOMAIN Archives PROVE Walked(x)'
    BY <1>1 DEF GapsOK
  <2>1. Fetched(x) /\ x \in Dates
    BY <1>1, <1>3, DatasetConstants DEF GapsOK
  <2> QED BY <1>1, <2>1 DEF Fetched, Fetching, Walked
<1>5. StudyInv'
  BY <1>1, <1>3 DEF StudyInv, OneBuild, Fits
<1> QED BY <1>2, <1>3, <1>4, <1>5

LEMMA SavedTwo == ASSUME NEW p, NEW c, NEW r
                  PROVE  /\ [[panel |-> p, chain |-> c] EXCEPT !.panel = r] = [panel |-> r, chain |-> c]
                         /\ [[panel |-> p, chain |-> c] EXCEPT !.chain = r] = [panel |-> p, chain |-> r]
OBVIOUS

LEMMA DatasetSaveChain ==
  ASSUME DatasetInv, StudyInv, Dataset!SaveChain PROVE DatasetInv' /\ StudyInv'
<1> USE DEF DatasetInv
<1>1. /\ pc = "walk" /\ todo = {} /\ busy = {}
      /\ UNCHANGED <<file, job, missing, todo, busy, panel, chain, failed, study, builds, faults, torn>>
  BY DEF Dataset!SaveChain
<1>2. CASE pc' = "idle" /\ error' = "nothing" /\ UNCHANGED saved
  <2>1. DatasetTypes'
    BY <1>1, <1>2 DEF DatasetTypes, RowType, ChainType
  <2>2. FetchesOK' /\ FilesOK' /\ GapsOK'
    BY <1>1, <1>2 DEF FetchesOK, FilesOK, GapsOK
  <2>3. StudyInv'
    BY <1>1, <1>2 DEF StudyInv, OneBuild, Fits
  <2> QED BY <2>1, <2>2, <2>3
<1>3. CASE /\ pc' = "save" /\ UNCHANGED error
           /\ saved' = IF job = "cache"
                       THEN [saved EXCEPT !.chain = [rows |-> chain, build |-> builds]] ELSE saved
  <2>1. DatasetTypes'
    BY <1>1, <1>3 DEF DatasetTypes, RowType, ChainType
  <2>2. FetchesOK' /\ FilesOK'
    BY <1>1, <1>3 DEF FetchesOK, FilesOK
  <2>3. GapsOK'
    BY <1>1, <1>3, RowsFixed DEF GapsOK, Walked, Fetching
  <2>4. StudyInv'
    <3>1. CASE job = "cache"
      <4>1. PICK c : c = [rows |-> chain, build |-> builds]
        OBVIOUS
      <4>2. saved' = [panel |-> saved.panel, chain |-> c]
        BY <1>3, <3>1, <4>1, SavedTwo DEF StudyInv
      <4>3. saved'.chain = c /\ saved' = [panel |-> saved'.panel, chain |-> saved'.chain]
        BY <4>2
      <4> QED BY <1>1, <1>3, <3>1, <4>1, <4>3 DEF StudyInv, Fits
    <3>2. CASE job # "cache"
      BY <1>1, <1>3, <3>2 DEF StudyInv, OneBuild, Fits
    <3> QED BY <3>1, <3>2
  <2> QED BY <2>1, <2>2, <2>3, <2>4
<1> QED BY <1>2, <1>3 DEF Dataset!SaveChain

LEMMA DatasetSavePanel ==
  ASSUME DatasetInv, StudyInv, Dataset!SavePanel PROVE DatasetInv' /\ StudyInv'
<1> USE DEF DatasetInv
<1>1. /\ pc = "save" /\ pc' = "idle"
      /\ UNCHANGED <<file, job, missing, todo, busy, panel, chain, failed, error, study, builds, faults>>
      /\ saved' = IF job = "cache"
                  THEN [saved EXCEPT !.panel = [rows |-> panel, build |-> builds]] ELSE saved
  BY DEF Dataset!SavePanel
<1>2. torn' \in BOOLEAN /\ (torn' <=> torn /\ job # "cache")
  BY DEF Dataset!SavePanel
<1>3. DatasetTypes'
  BY <1>1, <1>2 DEF DatasetTypes, RowType, ChainType
<1>4. FetchesOK' /\ FilesOK' /\ GapsOK'
  BY <1>1 DEF FetchesOK, FilesOK, GapsOK
<1>5. StudyInv'
  <2>1. CASE job = "cache"
    <3>1. PICK p : p = [rows |-> panel, build |-> builds]
      OBVIOUS
    <3>2. saved' = [panel |-> p, chain |-> saved.chain]
      BY <1>1, <2>1, <3>1, SavedTwo DEF StudyInv
    <3>3. saved'.panel = p /\ saved'.chain = saved.chain /\ saved' = [panel |-> saved'.panel, chain |-> saved'.chain]
      BY <3>2
    <3>4. saved.chain = [rows |-> chain, build |-> builds] /\ Fits(panel, chain)
      BY <1>1, <2>1 DEF StudyInv
    <3>5. /\ saved'.panel.build = saved'.chain.build /\ saved'.panel.rows = panel /\ saved'.chain.rows = chain
      BY <3>1, <3>3, <3>4
    <3>6. OneBuild(saved')
      BY <3>4, <3>5 DEF OneBuild
    <3>7. OneBuild(saved)'
      BY <3>6 DEF OneBuild, Fits
    <3> QED BY <1>1, <3>3, <3>7 DEF StudyInv
  <2>2. CASE job # "cache"
    BY <1>1, <1>2, <2>2 DEF StudyInv, OneBuild, Fits
  <2> QED BY <2>1, <2>2
<1> QED BY <1>3, <1>4, <1>5

LEMMA DatasetCrash ==
  ASSUME DatasetInv, StudyInv, Dataset!Crash PROVE DatasetInv' /\ StudyInv'
<1> USE DEF DatasetInv
<1>1. /\ pc # "idle" /\ pc' = "idle" /\ faults < MaxFaults /\ faults' = faults + 1 /\ todo' = {} /\ busy' = {}
      /\ UNCHANGED <<file, job, missing, panel, chain, failed, error, saved, study, builds>>
  BY DEF Dataset!Crash
<1>2. torn' \in BOOLEAN /\ (torn' <=> torn \/ (pc = "save" /\ job = "cache"))
  BY DEF Dataset!Crash, DatasetTypes
<1>3. faults' \in 0 .. MaxFaults /\ faults' > 0
  <2>1. faults \in 0 .. MaxFaults /\ MaxFaults \in Nat
    BY DatasetConstants DEF DatasetTypes
  <2> QED BY <1>1, <2>1
<1>4. DatasetTypes'
  BY <1>1, <1>2, <1>3 DEF DatasetTypes, RowType, ChainType
<1>5. FetchesOK'
  <2>1. IsFiniteSet({}) /\ Cardinality({}) = 0 /\ Threads \in Nat
    BY FS_EmptySet, DatasetConstants
  <2> QED BY <1>1, <2>1 DEF FetchesOK
<1>6. FilesOK' /\ GapsOK'
  BY <1>1, <1>3 DEF FilesOK, GapsOK
<1>7. StudyInv'
  BY <1>1, <1>2 DEF StudyInv, OneBuild, Fits
<1> QED BY <1>4, <1>5, <1>6, <1>7

LEMMA DatasetRest ==
  ASSUME DatasetInv, StudyInv, Dataset!LoadStudy \/ UNCHANGED datasetVars
  PROVE  DatasetInv' /\ StudyInv'
<1>1. UNCHANGED <<file, job, pc, missing, todo, busy, panel, chain, failed, error, saved, builds, faults, torn>>
  BY DEF Dataset!LoadStudy, datasetVars
<1>2. DatasetTypes'
  BY <1>1 DEF DatasetInv, DatasetTypes, RowType, ChainType
<1>3. FetchesOK' /\ FilesOK'
  BY <1>1 DEF DatasetInv, FetchesOK, FilesOK
<1>4. GapsOK'
  BY <1>1, RowsFixed DEF DatasetInv, GapsOK, Fetched, Walked, Fetching
<1>5. StudyInv'
  BY <1>1 DEF StudyInv, OneBuild, Fits
<1> QED BY <1>2, <1>3, <1>4, <1>5 DEF DatasetInv

LEMMA DatasetStep ==
  ASSUME DatasetInv, StudyInv, [Dataset!Next]_datasetVars PROVE DatasetInv' /\ StudyInv'
<1>1. CASE \E j \in {"all", "collect", "cache"} : Dataset!Start(j)
  BY <1>1, DatasetStart
<1>2. CASE \E d \in todo : Dataset!Take(d) \/ Dataset!Walk(d)
  BY <1>2, DatasetTake, DatasetWalk
<1>3. CASE \E b \in busy : Dataset!Refused(b) \/ Dataset!Received(b) \/ Dataset!Written(b) \/ Dataset!WriteFailed(b)
  BY <1>3, DatasetRefused, DatasetReceived, DatasetWritten
<1>4. CASE Dataset!Downloaded \/ Dataset!SaveChain \/ Dataset!SavePanel \/ Dataset!Crash
  BY <1>4, DatasetDownloaded, DatasetSaveChain, DatasetSavePanel, DatasetCrash
<1>5. CASE Dataset!LoadStudy \/ UNCHANGED datasetVars
  BY <1>5, DatasetRest
<1> QED BY <1>1, <1>2, <1>3, <1>4, <1>5 DEF Dataset!Next

LEMMA DatasetImplies == DatasetInv => Dataset!TypeOK /\ Dataset!FaultsExplainGaps
<1> SUFFICES ASSUME DatasetInv PROVE Dataset!TypeOK /\ Dataset!FaultsExplainGaps
  OBVIOUS
<1> USE DEF DatasetInv
<1>1. Dataset!TypeOK
  BY DatasetCardinality DEF Dataset!TypeOK, DatasetTypes, FetchesOK, RowType, ChainType
<1>2. Dataset!RebuildStoppedByFault
  BY DEF Dataset!RebuildStoppedByFault, FilesOK
<1>3. Dataset!GapsNeedFailures
  <2> SUFFICES ASSUME pc = "save", job # "cache", NEW d \in DOMAIN Archives, ~(Dataset!Rows(d) \subseteq panel)
               PROVE  failed[d] >= IF d \in missing THEN 2 ELSE 1
    BY DEF Dataset!GapsNeedFailures
  <2>1. busy = {} /\ todo = {} /\ Walked(d) /\ d \in Dates
    BY DatasetConstants DEF FetchesOK, GapsOK
  <2>2. failed[d] \in Nat
    BY <2>1, FailuresCounted
  <2> QED BY <2>1, <2>2 DEF Walked, Fetching
<1> QED BY <1>1, <1>2, <1>3 DEF Dataset!FaultsExplainGaps

LEMMA DatasetAlways == PathsSpec => [](DatasetInv /\ StudyInv)
<1>1. PathsInit => DatasetInv /\ StudyInv
  BY DatasetInitially DEF PathsInit
<1>2. DatasetInv /\ StudyInv /\ [PathsNext]_allVars => (DatasetInv /\ StudyInv)'
  <2> SUFFICES ASSUME DatasetInv, StudyInv, [PathsNext]_allVars PROVE (DatasetInv /\ StudyInv)'
    OBVIOUS
  <2>1. [Dataset!Next]_datasetVars
    BY DEF PathsNext, allVars
  <2> QED BY <2>1, DatasetStep
<1> QED BY <1>1, <1>2, PTL DEF PathsSpec

(* A gap of a finished panel has its failures behind it, and a rebuild that*)
(* a broken file stopped has a crash or a failed write behind it.          *)
THEOREM GapsExplained == PathsSpec => []FaultsExplainGaps
<1>1. DatasetInv => FaultsExplainGaps
  BY DatasetImplies DEF FaultsExplainGaps
<1> QED BY <1>1, DatasetAlways, PTL

(* The two files that a study loads come from one build, unless a rebuild  *)
(* died between writing them, and its signals are on listed contracts.     *)
THEOREM StudiesSound == PathsSpec => StudyIsOneBuild
<1>1. ASSUME DatasetInv, StudyInv, [PathsNext]_allVars
      PROVE  [study' # study =>
                \/ torn
                \/ /\ study'.panel.build = study'.chain.build
                   /\ \A r \in study'.panel.rows :
                        /\ [day |-> r.day, expiry |-> r.expiry] \in study'.chain.rows
                        /\ r.signal => r.expiry - r.day >= 14]_study
  <2>1. CASE ~Dataset!LoadStudy
    <3>1. Dataset!Next => UNCHANGED study
      BY <2>1 DEF Dataset!Next, Dataset!Start, Dataset!Take, Dataset!Walk, Dataset!Refused, Dataset!Received,
           Dataset!Written, Dataset!WriteFailed, Dataset!Downloaded, Dataset!SaveChain, Dataset!SavePanel, Dataset!Crash
    <3>2. UNCHANGED study
      BY <1>1, <3>1 DEF PathsNext, allVars, datasetVars
    <3> QED BY <3>2
  <2>2. CASE Dataset!LoadStudy
    <3>1. pc = "idle" /\ study' = saved
      BY <2>2 DEF Dataset!LoadStudy
    <3>2. torn \/ OneBuild(saved)
      BY <1>1, <3>1 DEF StudyInv
    <3> QED BY <3>1, <3>2 DEF OneBuild, Fits
  <2> QED BY <2>1, <2>2
<1> QED BY <1>1, DatasetAlways, PTL DEF PathsSpec, StudyIsOneBuild, Dataset!StudyIsOneBuild

-----------------------------------------------------------------------------
(* The market-data adapters. *)

Request ==
  [pc      : {"idle", "token", "expiries", "nse", "nse chain", "yahoo", "endpoint", "quote",
              "yahoo price", "dividend", "groww chain", "store"},
   kind    : {"chain", "price"},
   day     : Nat,
   listing : BOOLEAN,
   refused : 0 .. MaxRefused,
   list    : SUBSET Expiries,
   rows    : SUBSET Expiries,
   spot    : BOOLEAN,
   bare    : BOOLEAN,
   yield   : SUBSET [seen : Nat, told : BOOLEAN],
   failed  : SUBSET {"groww", "nse", "yahoo"}]

\* The expiries that were still to come on some day from d to today.
Upcoming(list, d) == list # {} /\ \E x \in d .. Market!Day : list = {e \in Expiries : e >= x}

AtMostOne(S) == \A a, b \in S : a = b

CachesOK ==
  /\ now \in 0 .. MaxTime
  /\ DOMAIN expiryCache = 0 .. MaxTime \div DayLength
  /\ \A d \in DOMAIN expiryCache : \A c \in expiryCache[d] : Upcoming(c.list, d) /\ c.at \in 0 .. now
  /\ AtMostOne(infoCache) /\ AtMostOne(yieldCache)
  /\ infoCache \subseteq Market!Yields
  /\ \A y \in infoCache : now - y.seen < DayLength
  /\ yieldCache \subseteq [seen : 0 .. now, told : BOOLEAN, at : 0 .. now]
  /\ \A c \in yieldCache : c.seen <= c.at /\ c.at - c.seen < DayLength /\ now - c.at < DayLength

\* What holds of a call r when the sources in f have refused: where it may be,
\* what it knows there, and what it has when it ends.
Sound(r, f) ==
  /\ r.yield \subseteq Market!Yields /\ r.day \in 0 .. Market!Day
  /\ r.kind = "price" => r.pc \in {"token", "quote", "yahoo price", "dividend", "store"}
  /\ r.kind = "chain" /\ r.pc \in {"quote", "yahoo price", "dividend", "groww chain", "nse chain"}
       => Upcoming(r.list, r.day)
  /\ r.pc = "yahoo price" => "groww" \in f
  /\ r.pc \in {"nse", "nse chain", "yahoo"} /\ ~r.listing => "groww" \in f
  /\ r.pc = "yahoo" => "nse" \in f
  /\ r.pc = "dividend" => r.spot
  /\ r.pc = "groww chain" => r.spot \/ "groww" \in f
  /\ r.pc = "store" /\ r.kind = "price" /\ ~r.spot => {"groww", "yahoo"} \subseteq f
  /\ r.pc = "store" /\ r.kind = "chain" =>
       /\ r.rows = {} => "groww" \in f /\ (r.bare \/ {"nse", "yahoo"} \subseteq f)
       /\ \A e \in r.rows : e >= r.day
       /\ f = {} => r.spot /\ \E d \in r.day .. Market!Day :
                               r.rows = Market!NearestTwo({e \in Expiries : e >= d})

CallOK == req \in Request /\ Sound(req, req.failed)

MarketInv == CachesOK /\ CallOK

LEMMA MarketConstants ==
  /\ Expiries \subseteq Nat /\ DayLength \in Nat \ {0} /\ MaxRefused \in Nat /\ MaxTime \in Nat
BY PathsAssumption DEF Market!ConstantsAssumption

LEMMA MarketCardinality == \A S : Market!Cardinality(S) = Cardinality(S)
BY DEF Market!Cardinality, Cardinality

LEMMA AtMostOneCounted == ASSUME NEW S, AtMostOne(S) PROVE Cardinality(S) <= 1
<1>1. CASE S = {}
  <2>1. Cardinality({}) = 0
    BY FS_EmptySet
  <2> QED BY <1>1, <2>1
<1>2. CASE S # {}
  <2>1. PICK x : x \in S
    BY <1>2
  <2>2. S = {x}
    BY <2>1 DEF AtMostOne
  <2>3. Cardinality({x}) = 1
    BY FS_Singleton
  <2> QED BY <2>2, <2>3
<1> QED BY <1>1, <1>2

(* Days do not go back.                                                    *)
LEMMA DaysPass ==
  ASSUME NEW t \in Nat, NEW u \in Nat, t <= u
  PROVE  t \div DayLength \in Nat /\ t \div DayLength <= u \div DayLength
<1>1. PICK n \in Nat : n = DayLength /\ n > 0
  BY MarketConstants
<1>2. t \div n \in Int /\ u \div n \in Int
  BY <1>1
<1>3. t \div n >= 0 /\ n * (t \div n) <= t /\ u < n * (u \div n) + n
  BY <1>1, <1>2
<1>4. PICK a \in Int, b \in Int : a = t \div n /\ b = u \div n
  BY <1>2
<1>5. n * a < n * b + n
  BY <1>3, <1>4, <1>1
<1>6. a <= b
  <2> SUFFICES ASSUME a >= b + 1 PROVE FALSE
    BY <1>4
  <2>1. n * a >= n * (b + 1)
    BY <1>1, <1>4
  <2>2. n * (b + 1) = n * b + n
    BY <1>1, <1>4
  <2> QED BY <1>1, <1>4, <1>5, <2>1, <2>2
<1> QED BY <1>1, <1>3, <1>4, <1>6

(* A step of the call edits its record.                                    *)
LEMMA CallMoves ==
  ASSUME NEW r \in Request, NEW who \in SUBSET {"groww", "nse", "yahoo"}, Market!Go(r, who)
  PROVE  /\ req' \in Request /\ req'.failed = r.failed \cup who
         /\ req'.pc = r.pc /\ req'.kind = r.kind /\ req'.day = r.day /\ req'.listing = r.listing
         /\ req'.list = r.list /\ req'.rows = r.rows /\ req'.spot = r.spot /\ req'.yield = r.yield
         /\ req'.bare = r.bare
BY DEF Market!Go, Request

LEMMA CallKept ==
  ASSUME NEW r \in Request, NEW who \in SUBSET {"groww", "nse", "yahoo"},
         Market!Go(r, who), now' = now, Sound(r, r.failed \cup who)
  PROVE  CallOK'
<1>1. Market!Day' = Market!Day /\ Market!Yields' = Market!Yields
  BY DEF Market!Day, Market!Yields
<1>2. /\ req' \in Request /\ req'.failed = r.failed \cup who
      /\ req'.pc = r.pc /\ req'.kind = r.kind /\ req'.day = r.day /\ req'.listing = r.listing
      /\ req'.list = r.list /\ req'.rows = r.rows /\ req'.spot = r.spot /\ req'.yield = r.yield
      /\ req'.bare = r.bare
  BY CallMoves
<1>3. Sound(req, req.failed)' <=> Sound(req', req'.failed)
  BY <1>1 DEF Sound, Upcoming
<1>4. Sound(req', req'.failed)
  BY <1>2 DEF Sound
<1> QED BY <1>2, <1>3, <1>4 DEF CallOK

(* The caches change only with time and where they are written.            *)
LEMMA CachesKept == ASSUME CachesOK, UNCHANGED <<now, expiryCache, yieldCache, infoCache>> PROVE CachesOK'
<1>1. Market!Day' = Market!Day /\ Market!Yields' = Market!Yields
  BY DEF Market!Day, Market!Yields
<1> QED BY <1>1 DEF CachesOK, Upcoming, AtMostOne

LEMMA FallsBack ==
  ASSUME CallOK, now' = now, Market!Go(Market!Fallback(req), {"groww"}) PROVE CallOK'
<1>1. PICK r : r = Market!Fallback(req)
  OBVIOUS
<1>2. /\ r \in Request /\ r.failed = req.failed /\ r.kind = req.kind /\ r.day = req.day
      /\ r.yield = req.yield /\ r.list = req.list
      /\ r.pc = IF req.kind = "chain" THEN "nse" ELSE "yahoo price"
  <2>1. 0 \in 0 .. MaxRefused
    BY MarketConstants
  <2> QED BY <1>1, <2>1 DEF CallOK, Request, Market!Fallback
<1>3. Sound(r, r.failed \cup {"groww"})
  <2>1. req.kind \in {"chain", "price"}
    BY DEF CallOK, Request
  <2>2. CASE req.kind = "chain"
    BY <1>2, <2>2 DEF CallOK, Sound
  <2>3. CASE req.kind = "price"
    BY <1>2, <2>3 DEF CallOK, Sound
  <2> QED BY <2>1, <2>2, <2>3
<1> QED BY <1>1, <1>2, <1>3, CallKept

LEMMA MarketGetToken == ASSUME MarketInv, Market!GetToken PROVE MarketInv'
<1> USE DEF MarketInv
<1>1. req.pc = "token" /\ UNCHANGED <<now, expiryCache, yieldCache, infoCache, stored>> /\ req \in Request
  BY DEF Market!GetToken, Market!Caches, CallOK
<1>2. CASE Market!Go([req EXCEPT !.pc = IF req.kind = "chain" THEN "expiries" ELSE "quote"], {})
  <2>1. PICK r : r = [req EXCEPT !.pc = IF req.kind = "chain" THEN "expiries" ELSE "quote"]
    OBVIOUS
  <2>2. /\ r \in Request /\ r.failed = req.failed /\ r.kind = req.kind /\ r.day = req.day /\ r.yield = req.yield
        /\ r.pc = IF req.kind = "chain" THEN "expiries" ELSE "quote"
    BY <1>1, <2>1 DEF Request
  <2>3. Sound(r, r.failed \cup {})
    BY <1>1, <2>2 DEF CallOK, Sound
  <2> QED BY <1>1, <1>2, <2>1, <2>2, <2>3, CallKept, CachesKept
<1>3. CASE Market!Go(Market!Fallback(req), {"groww"})
  BY <1>1, <1>3, FallsBack, CachesKept
<1> QED BY <1>2, <1>3 DEF Market!GetToken

LEMMA DayInRange ==
  CachesOK => Market!Day \in Nat /\ Market!Day \in DOMAIN expiryCache
              /\ \A d \in 0 .. Market!Day : d \in DOMAIN expiryCache /\ Market!Day \in d .. Market!Day
<1> SUFFICES ASSUME CachesOK
             PROVE  /\ Market!Day \in Nat /\ Market!Day \in DOMAIN expiryCache
                    /\ \A d \in 0 .. Market!Day : d \in DOMAIN expiryCache /\ Market!Day \in d .. Market!Day
  OBVIOUS
<1>1. now \in Nat /\ now <= MaxTime /\ MaxTime \in Nat /\ DOMAIN expiryCache = 0 .. MaxTime \div DayLength
  BY MarketConstants DEF CachesOK
<1>2. now \div DayLength \in Nat /\ now \div DayLength <= MaxTime \div DayLength /\ MaxTime \div DayLength \in Nat
  BY <1>1, DaysPass
<1> QED BY <1>1, <1>2 DEF Market!Day

(* What is listed today may be used for a call that began by then.         *)
LEMMA ListedIsUpcoming ==
  ASSUME MarketInv, Market!Listed # {}
  PROVE  Upcoming(Market!Listed, req.day) /\ Market!Listed \subseteq Expiries
<1>1. req.day \in 0 .. Market!Day
  BY DEF MarketInv, CallOK, Sound
<1>2. Market!Day \in req.day .. Market!Day
  BY <1>1, DayInRange DEF MarketInv
<1> QED BY <1>2 DEF Upcoming, Market!Listed

LEMMA MarketReadExpiries == ASSUME MarketInv, Market!ReadExpiries PROVE MarketInv'
<1> USE DEF MarketInv
<1>1. req.pc = "expiries" /\ UNCHANGED <<now, expiryCache, yieldCache, infoCache, stored>> /\ req \in Request
  BY DEF Market!ReadExpiries, Market!Caches, CallOK
<1>2. ASSUME NEW c \in expiryCache[req.day], Market!Go([req EXCEPT !.pc = "quote", !.list = c.list], {})
      PROVE  CallOK'
  <2>1. PICK r : r = [req EXCEPT !.pc = "quote", !.list = c.list]
    OBVIOUS
  <2>2. req.day \in DOMAIN expiryCache
    BY DayInRange DEF CallOK, Sound
  <2>3. Upcoming(c.list, req.day) /\ c.list \subseteq Expiries
    BY <2>2 DEF CachesOK, Upcoming
  <2>4. /\ r \in Request /\ r.failed = req.failed /\ r.kind = req.kind /\ r.day = req.day /\ r.yield = req.yield
        /\ r.pc = "quote" /\ r.list = c.list
    BY <1>1, <2>1, <2>3 DEF Request
  <2>5. Sound(r, r.failed \cup {})
    BY <1>1, <2>3, <2>4 DEF CallOK, Sound
  <2> QED BY <1>1, <1>2, <2>1, <2>4, <2>5, CallKept
<1>3. CASE Market!Go([req EXCEPT !.pc = "nse", !.listing = TRUE], {})
  <2>1. PICK r : r = [req EXCEPT !.pc = "nse", !.listing = TRUE]
    OBVIOUS
  <2>2. /\ r \in Request /\ r.failed = req.failed /\ r.kind = req.kind /\ r.day = req.day /\ r.yield = req.yield
        /\ r.pc = "nse" /\ r.listing
    BY <1>1, <2>1 DEF Request
  <2>3. req.kind = "chain"
    BY <1>1 DEF CallOK, Sound, Request
  <2>4. Sound(r, r.failed \cup {})
    BY <1>1, <2>2, <2>3 DEF CallOK, Sound
  <2> QED BY <1>1, <1>3, <2>1, <2>2, <2>4, CallKept, CachesKept
<1> QED BY <1>1, <1>2, <1>3, CachesKept DEF Market!ReadExpiries

LEMMA MarketNseInfo == ASSUME MarketInv, Market!NseInfo PROVE MarketInv'
<1> USE DEF MarketInv
<1>1. req.pc = "nse" /\ UNCHANGED <<now, expiryCache, yieldCache, infoCache, stored>> /\ req \in Request
  BY DEF Market!NseInfo, Market!Caches, CallOK
<1>2. req.kind = "chain" /\ (req.listing \/ "groww" \in req.failed)
  BY <1>1 DEF CallOK, Sound, Request
<1>3. CASE req.refused < MaxRefused /\ Market!Go([req EXCEPT !.refused = @ + 1], {})
  <2>1. PICK r : r = [req EXCEPT !.refused = @ + 1]
    OBVIOUS
  <2>2. req.refused + 1 \in 0 .. MaxRefused
    <3>1. req.refused \in 0 .. MaxRefused
      BY <1>1 DEF Request
    <3> QED BY <1>3, <3>1, MarketConstants
  <2>3. /\ r \in Request /\ r.failed = req.failed /\ r.kind = req.kind /\ r.day = req.day /\ r.yield = req.yield
        /\ r.pc = "nse" /\ r.listing = req.listing
    BY <1>1, <2>1, <2>2 DEF Request
  <2>4. Sound(r, r.failed \cup {})
    BY <1>1, <1>2, <2>3 DEF CallOK, Sound
  <2> QED BY <1>1, <1>3, <2>1, <2>3, <2>4, CallKept, CachesKept
<1>4. CASE Market!Go([req EXCEPT !.pc = "yahoo"], {"nse"})
  <2>1. PICK r : r = [req EXCEPT !.pc = "yahoo"]
    OBVIOUS
  <2>2. /\ r \in Request /\ r.failed = req.failed /\ r.kind = req.kind /\ r.day = req.day /\ r.yield = req.yield
        /\ r.pc = "yahoo" /\ r.listing = req.listing
    BY <1>1, <2>1 DEF Request
  <2>3. Sound(r, r.failed \cup {"nse"})
    BY <1>1, <1>2, <2>2 DEF CallOK, Sound
  <2> QED BY <1>1, <1>4, <2>1, <2>2, <2>3, CallKept, CachesKept
<1>5. CASE Market!Listed # {} /\ Market!Go([req EXCEPT !.pc = "nse chain", !.list = Market!Listed], {})
  <2>1. PICK r : r = [req EXCEPT !.pc = "nse chain", !.list = Market!Listed]
    OBVIOUS
  <2>2. Upcoming(Market!Listed, req.day) /\ Market!Listed \subseteq Expiries
    BY <1>5, ListedIsUpcoming
  <2>3. /\ r \in Request /\ r.failed = req.failed /\ r.kind = req.kind /\ r.day = req.day /\ r.yield = req.yield
        /\ r.pc = "nse chain" /\ r.listing = req.listing /\ r.list = Market!Listed
    BY <1>1, <2>1, <2>2 DEF Request
  <2>4. Sound(r, r.failed \cup {})
    BY <1>1, <1>2, <2>2, <2>3 DEF CallOK, Sound
  <2> QED BY <1>1, <1>5, <2>1, <2>3, <2>4, CallKept, CachesKept
<1> QED BY <1>1, <1>3, <1>4, <1>5 DEF Market!NseInfo

LEMMA MarketEndpoint == ASSUME MarketInv, Market!ExpiriesEndpoint PROVE MarketInv'
<1> USE DEF MarketInv
<1>1. req.pc = "endpoint" /\ UNCHANGED <<now, expiryCache, yieldCache, infoCache, stored>> /\ req \in Request
  BY DEF Market!ExpiriesEndpoint, Market!Caches, CallOK
<1>2. CASE Market!Listed # {} /\ Market!Go([req EXCEPT !.pc = "quote", !.list = Market!Listed], {})
  <2>1. PICK r : r = [req EXCEPT !.pc = "quote", !.list = Market!Listed]
    OBVIOUS
  <2>2. Upcoming(Market!Listed, req.day) /\ Market!Listed \subseteq Expiries
    BY <1>2, ListedIsUpcoming
  <2>3. /\ r \in Request /\ r.failed = req.failed /\ r.kind = req.kind /\ r.day = req.day /\ r.yield = req.yield
        /\ r.pc = "quote" /\ r.list = Market!Listed
    BY <1>1, <2>1, <2>2 DEF Request
  <2>4. Sound(r, r.failed \cup {})
    BY <1>1, <2>2, <2>3 DEF CallOK, Sound
  <2> QED BY <1>1, <1>2, <2>1, <2>3, <2>4, CallKept, CachesKept
<1>3. CASE Market!Go(Market!Fallback(req), {"groww"})
  BY <1>1, <1>3, FallsBack, CachesKept
<1> QED BY <1>2, <1>3 DEF Market!ExpiriesEndpoint

LEMMA MarketQuote == ASSUME MarketInv, Market!Quote PROVE MarketInv'
<1> USE DEF MarketInv
<1>1. req.pc = "quote" /\ UNCHANGED <<now, expiryCache, yieldCache, infoCache, stored>> /\ req \in Request
  BY DEF Market!Quote, Market!Caches, CallOK
<1>2. CASE Market!Go([req EXCEPT !.pc = "dividend", !.spot = TRUE], {})
  <2>1. PICK r : r = [req EXCEPT !.pc = "dividend", !.spot = TRUE]
    OBVIOUS
  <2>2. /\ r \in Request /\ r.failed = req.failed /\ r.kind = req.kind /\ r.day = req.day /\ r.yield = req.yield
        /\ r.pc = "dividend" /\ r.list = req.list /\ r.spot
    BY <1>1, <2>1 DEF Request
  <2>3. Sound(r, r.failed \cup {})
    BY <1>1, <2>2 DEF CallOK, Sound
  <2> QED BY <1>1, <1>2, <2>1, <2>2, <2>3, CallKept, CachesKept
<1>3. CASE Market!Go([req EXCEPT !.pc = "yahoo price"], {"groww"})
  <2>1. PICK r : r = [req EXCEPT !.pc = "yahoo price"]
    OBVIOUS
  <2>2. /\ r \in Request /\ r.failed = req.failed /\ r.kind = req.kind /\ r.day = req.day /\ r.yield = req.yield
        /\ r.pc = "yahoo price" /\ r.list = req.list
    BY <1>1, <2>1 DEF Request
  <2>3. Sound(r, r.failed \cup {"groww"})
    BY <1>1, <2>2 DEF CallOK, Sound
  <2> QED BY <1>1, <1>3, <2>1, <2>2, <2>3, CallKept, CachesKept
<1> QED BY <1>2, <1>3 DEF Market!Quote

LEMMA UpcomingIsLater ==
  ASSUME CachesOK, NEW list, NEW d \in Nat, Upcoming(list, d), NEW e \in list PROVE e >= d
<1>1. Market!Day \in Nat
  BY DayInRange
<1>2. PICK x \in d .. Market!Day : list = {y \in Expiries : y >= x}
  BY DEF Upcoming
<1>3. e >= x /\ e \in Nat
  BY <1>2, MarketConstants
<1>4. x \in Nat /\ x >= d
  BY <1>1, <1>2
<1> QED BY <1>3, <1>4

(* A list is cached under the day on which its call began.                 *)
LEMMA ExpiriesCached ==
  ASSUME CachesOK, NEW list, NEW d \in DOMAIN expiryCache, Upcoming(list, d),
         UNCHANGED <<now, yieldCache, infoCache>>,
         expiryCache' = [expiryCache EXCEPT ![d] = {[list |-> list, at |-> now]}]
  PROVE  CachesOK'
<1>1. PICK new : new = [list |-> list, at |-> now]
  OBVIOUS
<1>2. new.list = list /\ new.at = now
  BY <1>1
<1>3. now \in 0 .. now
  <2>1. now \in 0 .. MaxTime
    BY DEF CachesOK
  <2> QED BY <2>1, MarketConstants
<1>4. /\ DOMAIN expiryCache' = DOMAIN expiryCache
      /\ \A x \in DOMAIN expiryCache : expiryCache'[x] = IF x = d THEN {new} ELSE expiryCache[x]
  BY <1>1
<1>5. Market!Day' = Market!Day /\ Market!Yields' = Market!Yields
  BY DEF Market!Day, Market!Yields
<1>6. \A x \in DOMAIN expiryCache : \A c \in expiryCache[x] : Upcoming(c.list, x) /\ c.at \in 0 .. now
  BY DEF CachesOK
<1>7. \A x \in DOMAIN expiryCache : \A c \in expiryCache'[x] : Upcoming(c.list, x) /\ c.at \in 0 .. now
  <2> SUFFICES ASSUME NEW x \in DOMAIN expiryCache, NEW c \in expiryCache'[x]
               PROVE  Upcoming(c.list, x) /\ c.at \in 0 .. now
    OBVIOUS
  <2>1. CASE x = d
    <3>1. c = new
      BY <1>4, <2>1
    <3> QED BY <1>2, <1>3, <2>1, <3>1
  <2>2. CASE x # d
    BY <1>4, <1>6, <2>2
  <2> QED BY <2>1, <2>2
<1>8. \A l, x : Upcoming(l, x)' <=> Upcoming(l, x)
  BY <1>5 DEF Upcoming
<1>9. \A x \in DOMAIN expiryCache' : \A c \in expiryCache'[x] : Upcoming(c.list, x)' /\ c.at \in 0 .. now'
  BY <1>4, <1>7, <1>8
<1> QED BY <1>4, <1>5, <1>9 DEF CachesOK, AtMostOne

(* A fetched chain is returned where it was asked for.                     *)
LEMMA MarketReturns ==
  ASSUME MarketInv, req.pc \in {"nse chain", "yahoo"}, now' = now,
         NEW list \in SUBSET Expiries, NEW rows \in SUBSET list, NEW spot \in BOOLEAN,
         NEW who \in SUBSET {"groww", "nse", "yahoo"},
         list # {} => Upcoming(list, req.day), list = {} => "yahoo" \in who /\ req.pc = "yahoo",
         Market!Return(req, list, rows, spot, who)
  PROVE  MarketInv'
<1> USE DEF MarketInv
<1>1. /\ req \in Request /\ req.kind = "chain" /\ (req.listing \/ "groww" \in req.failed)
      /\ req.pc = "yahoo" => "nse" \in req.failed
  BY DEF CallOK, Sound, Request
<1>2. CASE ~req.listing
  <2>0. PICK bare \in BOOLEAN :
          /\ bare = (list # {} /\ rows = {})
          /\ Market!Go([req EXCEPT !.pc = "store", !.rows = rows, !.spot = spot, !.bare = bare], who)
          /\ UNCHANGED <<expiryCache, yieldCache, infoCache>>
    BY <1>2 DEF Market!Return, Market!Caches
  <2>1. PICK r : r = [req EXCEPT !.pc = "store", !.rows = rows, !.spot = spot, !.bare = bare]
    OBVIOUS
  <2>2. /\ r \in Request /\ r.failed = req.failed /\ r.kind = req.kind /\ r.day = req.day /\ r.yield = req.yield
        /\ r.pc = "store" /\ r.rows = rows /\ r.bare = bare
    BY <1>1, <2>1 DEF Request
  <2>3. "groww" \in r.failed \cup who /\ r.failed \cup who \in SUBSET {"groww", "nse", "yahoo"}
    BY <1>1, <1>2, <2>2 DEF Request
  <2>4. rows = {} => r.bare \/ {"nse", "yahoo"} \subseteq r.failed \cup who
    <3> SUFFICES ASSUME list = {} PROVE {"nse", "yahoo"} \subseteq r.failed \cup who
      BY <2>0, <2>2
    <3> QED BY <1>1, <2>2
  <2>5. \A e \in rows : e >= req.day
    <3>1. req.day \in Nat
      BY <1>1 DEF Request
    <3>2. \A e \in list : list # {} => e >= req.day
      BY <3>1, UpcomingIsLater
    <3> QED BY <3>2
  <2>6. r.failed \cup who # {}
    BY <2>3
  <2>7. Sound(r, r.failed \cup who)
    BY <1>1, <2>2, <2>3, <2>4, <2>5, <2>6 DEF CallOK, Sound
  <2> QED BY <2>0, <2>1, <2>2, <2>7, CallKept, CachesKept
<1>3. CASE req.listing /\ list = {}
  <2>0. Market!Go([req EXCEPT !.pc = "endpoint"], who) /\ UNCHANGED <<expiryCache, yieldCache, infoCache>>
    BY <1>3 DEF Market!Return, Market!Caches
  <2>1. PICK r : r = [req EXCEPT !.pc = "endpoint"]
    OBVIOUS
  <2>2. /\ r \in Request /\ r.failed = req.failed /\ r.kind = req.kind /\ r.day = req.day /\ r.yield = req.yield
        /\ r.pc = "endpoint"
    BY <1>1, <2>1 DEF Request
  <2>3. Sound(r, r.failed \cup who)
    BY <1>1, <2>2 DEF CallOK, Sound
  <2> QED BY <2>0, <2>1, <2>2, <2>3, CallKept, CachesKept
<1>4. CASE req.listing /\ list # {}
  <2>0. /\ Market!Go([req EXCEPT !.pc = "quote", !.list = list], who) /\ UNCHANGED <<yieldCache, infoCache>>
        /\ \/ expiryCache' = expiryCache
           \/ expiryCache' = [expiryCache EXCEPT ![req.day] = {[list |-> list, at |-> now]}]
    BY <1>4 DEF Market!Return
  <2>1. PICK r : r = [req EXCEPT !.pc = "quote", !.list = list]
    OBVIOUS
  <2>2. /\ r \in Request /\ r.failed = req.failed /\ r.kind = req.kind /\ r.day = req.day /\ r.yield = req.yield
        /\ r.pc = "quote" /\ r.list = list
    BY <1>1, <2>1 DEF Request
  <2>3. Sound(r, r.failed \cup who)
    BY <1>1, <1>4, <2>2 DEF CallOK, Sound
  <2>4. CallOK'
    BY <2>0, <2>1, <2>2, <2>3, CallKept
  <2>5. CachesOK'
    <3>1. CASE expiryCache' = expiryCache
      BY <2>0, <3>1, CachesKept
    <3>2. CASE expiryCache' = [expiryCache EXCEPT ![req.day] = {[list |-> list, at |-> now]}]
      <4>1. req.day \in DOMAIN expiryCache
        BY DayInRange DEF CallOK, Sound
      <4> QED BY <1>4, <2>0, <3>2, <4>1, ExpiriesCached
    <3> QED BY <2>0, <3>1, <3>2
  <2> QED BY <2>4, <2>5
<1> QED BY <1>2, <1>3, <1>4

LEMMA MarketNseChain == ASSUME MarketInv, Market!NseChain PROVE MarketInv'
<1> USE DEF MarketInv
<1>1. req.pc = "nse chain" /\ now' = now /\ req \in Request /\ req.kind = "chain" /\ Upcoming(req.list, req.day)
      /\ (req.listing \/ "groww" \in req.failed)
  BY DEF Market!NseChain, CallOK, Sound, Request
<1>2. ASSUME NEW named \in SUBSET Market!NearestTwo(req.list), NEW rows \in SUBSET named, NEW spot \in BOOLEAN,
             NEW who \in {{}, {"nse"}}, Market!Return(req, req.list, rows, spot, who)
      PROVE  MarketInv'
  <2>1. req.list \in SUBSET Expiries /\ req.list # {} /\ rows \in SUBSET req.list /\ who \in SUBSET {"groww", "nse", "yahoo"}
    BY <1>1, <1>2 DEF Market!NearestTwo, Upcoming, Request
  <2> QED BY <1>1, <1>2, <2>1, MarketReturns
<1>3. CASE Market!Go([req EXCEPT !.pc = "yahoo"], {"nse"}) /\ UNCHANGED <<expiryCache, yieldCache, infoCache>>
  <2>1. PICK r : r = [req EXCEPT !.pc = "yahoo"]
    OBVIOUS
  <2>2. /\ r \in Request /\ r.failed = req.failed /\ r.kind = req.kind /\ r.day = req.day /\ r.yield = req.yield
        /\ r.pc = "yahoo" /\ r.listing = req.listing
    BY <1>1, <2>1 DEF Request
  <2>3. Sound(r, r.failed \cup {"nse"})
    BY <1>1, <2>2 DEF CallOK, Sound
  <2> QED BY <1>1, <1>3, <2>1, <2>2, <2>3, CallKept, CachesKept
<1> QED BY <1>2, <1>3 DEF Market!NseChain, Market!Caches

LEMMA MarketYahooChain == ASSUME MarketInv, Market!YahooChain PROVE MarketInv'
<1> USE DEF MarketInv
<1>1. req.pc = "yahoo" /\ now' = now
  BY DEF Market!YahooChain
<1>2. CASE Market!Return(req, {}, {}, FALSE, {"yahoo"})
  BY <1>1, <1>2, MarketReturns
<1>3. ASSUME NEW rows \in SUBSET Market!NearestTwo(Market!Listed), NEW spot \in BOOLEAN,
             NEW who \in {{}, {"yahoo"}}, Market!Listed # {},
             Market!Return(req, Market!Listed, rows, spot, who)
      PROVE  MarketInv'
  <2>1. Upcoming(Market!Listed, req.day) /\ Market!Listed \subseteq Expiries
    BY <1>3, ListedIsUpcoming
  <2>2. rows \in SUBSET Market!Listed
    BY DEF Market!NearestTwo
  <2>3. who \in SUBSET {"groww", "nse", "yahoo"}
    OBVIOUS
  <2> QED BY <1>1, <1>3, <2>1, <2>2, <2>3, MarketReturns
<1> QED BY <1>2, <1>3 DEF Market!YahooChain

LEMMA YieldRecords ==
  \A a, b, v : [[seen |-> a, told |-> b] EXCEPT !.told = v] = [seen |-> a, told |-> v]
OBVIOUS

(* What Yahoo told of a yield, now or as long ago as a cache keeps it.     *)
LEMMA YieldsToldNow ==
  ASSUME CachesOK
  PROVE  /\ now \in Nat /\ DayLength \in Nat /\ DayLength > 0
         /\ Market!NoYield \in Market!Yields /\ Market!NoYield.seen = now
         /\ [Market!NoYield EXCEPT !.told = TRUE] \in Market!Yields
         /\ [Market!NoYield EXCEPT !.told = TRUE].seen = now
<1>1. now \in Nat /\ DayLength \in Nat /\ DayLength > 0
  <2>1. now \in 0 .. MaxTime
    BY DEF CachesOK
  <2> QED BY <2>1, MarketConstants
<1>2. now \in 0 .. now
  BY <1>1
<1>3. [Market!NoYield EXCEPT !.told = TRUE] = [seen |-> now, told |-> TRUE]
  <2>1. [[seen |-> now, told |-> FALSE] EXCEPT !.told = TRUE] = [seen |-> now, told |-> TRUE]
    BY YieldRecords
  <2>2. Market!NoYield = [seen |-> now, told |-> FALSE]
    BY DEF Market!NoYield
  <2> QED BY <2>1, <2>2
<1> QED BY <1>1, <1>2, <1>3 DEF Market!NoYield, Market!Yields

LEMMA YieldsTyped == CachesOK => Market!Yields \subseteq [seen : Nat, told : BOOLEAN]
<1> SUFFICES ASSUME CachesOK PROVE Market!Yields \subseteq [seen : Nat, told : BOOLEAN]
  OBVIOUS
<1>1. now \in Nat
  BY YieldsToldNow
<1>2. 0 .. now \subseteq Nat
  BY <1>1
<1> QED BY <1>2 DEF Market!Yields

\* The yield y is of the last day, and the cache of Yahoo's `info' is in order.
InfoKept(y) ==
  /\ y \in Market!Yields /\ now - y.seen < DayLength
  /\ AtMostOne(infoCache') /\ infoCache' \subseteq Market!Yields
  /\ \A x \in infoCache' : now - x.seen < DayLength

LEMMA InfoAnswers ==
  ASSUME CachesOK, NEW y, Market!YahooInfo(y) \/ (y = Market!NoYield /\ UNCHANGED infoCache)
  PROVE  InfoKept(y)
<1>1. /\ AtMostOne(infoCache) /\ infoCache \subseteq Market!Yields
      /\ \A x \in infoCache : now - x.seen < DayLength
  BY DEF CachesOK
<1>2. now - now < DayLength
  BY YieldsToldNow
<1>3. CASE infoCache = {y} /\ UNCHANGED infoCache
  BY <1>1, <1>3 DEF InfoKept, AtMostOne
<1>4. CASE y = Market!NoYield /\ UNCHANGED infoCache
  BY <1>1, <1>2, <1>4, YieldsToldNow DEF InfoKept, AtMostOne
<1>5. CASE y \in {Market!NoYield, [Market!NoYield EXCEPT !.told = TRUE]} /\ infoCache' = {y}
  <2>1. y \in Market!Yields /\ y.seen = now
    BY <1>5, YieldsToldNow
  <2> QED BY <1>2, <1>5, <2>1 DEF InfoKept, AtMostOne
<1> QED BY <1>3, <1>4, <1>5 DEF Market!YahooInfo

LEMMA InfoCached ==
  ASSUME CachesOK, NEW y, InfoKept(y), UNCHANGED <<now, expiryCache, yieldCache>> PROVE CachesOK'
<1>1. Market!Day' = Market!Day /\ Market!Yields' = Market!Yields
  BY DEF Market!Day, Market!Yields
<1> QED BY <1>1 DEF CachesOK, InfoKept, Upcoming, AtMostOne

LEMMA PricedIsSound ==
  ASSUME NEW r \in Request, NEW f, r.pc = (IF r.kind = "chain" THEN "groww chain" ELSE "store"),
         r.yield \subseteq Market!Yields, r.day \in 0 .. Market!Day,
         r.kind = "chain" => Upcoming(r.list, r.day), r.spot \/ {"groww", "yahoo"} \subseteq f
  PROVE  Sound(r, f)
<1>1. r.kind \in {"chain", "price"}
  BY DEF Request
<1>2. CASE r.kind = "chain"
  BY <1>2 DEF Sound
<1>3. CASE r.kind = "price"
  BY <1>3 DEF Sound
<1> QED BY <1>1, <1>2, <1>3

LEMMA ChainIsSound ==
  ASSUME NEW r \in Request, NEW f, r.pc = "store", r.kind = "chain", r.rows # {},
         r.yield \subseteq Market!Yields, r.day \in 0 .. Market!Day, \A e \in r.rows : e >= r.day,
         f = {} => r.spot /\ \E d \in r.day .. Market!Day : r.rows = Market!NearestTwo({e \in Expiries : e >= d})
  PROVE  Sound(r, f)
BY DEF Sound

(* A priced call goes on to the chain, or has what it was made for.        *)
LEMMA PricedGoesOn ==
  ASSUME CachesOK, CallOK, now' = now, req.pc \in {"yahoo price", "dividend"}, NEW y \in Market!Yields,
         NEW spot \in BOOLEAN, NEW who \in SUBSET {"groww", "nse", "yahoo"}, NEW r,
         r = [Market!Priced(req, y) EXCEPT !.spot = spot], Market!Go(r, who),
         spot = TRUE \/ (req.pc = "yahoo price" /\ "yahoo" \in who)
  PROVE  CallOK'
<1>1. req \in Request /\ (req.pc = "yahoo price" => "groww" \in req.failed)
  BY DEF CallOK, Sound
<1>2. y \in [seen : Nat, told : BOOLEAN]
  BY YieldsTyped
<1>3. PICK p : p = Market!Priced(req, y)
  OBVIOUS
<1>4. /\ p \in Request /\ p.failed = req.failed /\ p.kind = req.kind /\ p.day = req.day /\ p.list = req.list
      /\ p.pc = (IF req.kind = "chain" THEN "groww chain" ELSE "store")
      /\ p.yield \subseteq {y}
  BY <1>1, <1>2, <1>3 DEF Market!Priced, Request
<1>5. /\ r \in Request /\ r.failed = req.failed /\ r.kind = req.kind /\ r.day = req.day /\ r.list = req.list
      /\ r.pc = (IF req.kind = "chain" THEN "groww chain" ELSE "store")
      /\ r.yield \subseteq {y} /\ r.spot = spot
  BY <1>3, <1>4 DEF Request
<1>6. req.kind \in {"chain", "price"} /\ r.yield \subseteq Market!Yields
  BY <1>1, <1>5 DEF Request
<1>7. r.spot \/ {"groww", "yahoo"} \subseteq r.failed \cup who
  BY <1>1, <1>5
<1>8. r.kind = "chain" => Upcoming(r.list, r.day)
  BY <1>5 DEF CallOK, Sound
<1>9. r.day \in 0 .. Market!Day
  BY <1>5 DEF CallOK, Sound
<1>10. Sound(r, r.failed \cup who)
  BY <1>5, <1>6, <1>7, <1>8, <1>9, PricedIsSound
<1> QED BY <1>5, <1>10, CallKept

LEMMA MarketYahooPrice == ASSUME MarketInv, Market!YahooPrice PROVE MarketInv'
<1> USE DEF MarketInv
<1>1. req.pc = "yahoo price" /\ UNCHANGED <<now, expiryCache, yieldCache>>
  BY DEF Market!YahooPrice
<1>2. CASE Market!Go([Market!Priced(req, Market!NoYield) EXCEPT !.spot = FALSE], {"yahoo"}) /\ UNCHANGED infoCache
  <2>1. CallOK'
    BY <1>1, <1>2, YieldsToldNow, PricedGoesOn
  <2> QED BY <1>1, <1>2, <2>1, CachesKept
<1>3. ASSUME NEW y \in Market!Yields, Market!YahooInfo(y),
             Market!Go([Market!Priced(req, y) EXCEPT !.spot = TRUE], {})
      PROVE  MarketInv'
  <2>1. CallOK'
    BY <1>1, <1>3, PricedGoesOn
  <2> QED BY <1>1, <1>3, <2>1, InfoAnswers, InfoCached
<1> QED BY <1>2, <1>3 DEF Market!YahooPrice

LEMMA MarketDividend == ASSUME MarketInv, Market!Dividend PROVE MarketInv'
<1> USE DEF MarketInv
<1>1. req.pc = "dividend" /\ UNCHANGED <<now, expiryCache>> /\ req \in Request /\ req.spot = TRUE
  BY DEF Market!Dividend, CallOK, Sound, Request
<1>2. ASSUME NEW y \in Market!Yields, Market!Go(Market!Priced(req, y), {}) PROVE CallOK'
  <2>1. y \in [seen : Nat, told : BOOLEAN]
    BY YieldsTyped
  <2>2. PICK p : p = Market!Priced(req, y)
    OBVIOUS
  <2>3. p \in Request /\ p.spot = TRUE
    BY <1>1, <2>1, <2>2 DEF Market!Priced, Request
  <2>4. p = [p EXCEPT !.spot = TRUE]
    BY <2>3 DEF Request
  <2> QED BY <1>1, <1>2, <2>2, <2>4, PricedGoesOn
<1>3. ASSUME NEW c \in yieldCache, Market!Go(Market!Priced(req, [seen |-> c.seen, told |-> c.told]), {}),
             UNCHANGED <<yieldCache, infoCache>>
      PROVE  MarketInv'
  <2>1. [seen |-> c.seen, told |-> c.told] \in Market!Yields
    BY DEF CachesOK, Market!Yields
  <2> QED BY <1>1, <1>2, <1>3, <2>1, CachesKept
<1>4. ASSUME NEW y \in Market!Yields, Market!YahooInfo(y) \/ (y = Market!NoYield /\ UNCHANGED infoCache),
             yieldCache = {}, Market!Go(Market!Priced(req, y), {}),
             yieldCache' \in {{}, {[seen |-> y.seen, told |-> y.told, at |-> now]}}
      PROVE  MarketInv'
  <2>1. InfoKept(y)
    BY <1>4, InfoAnswers
  <2>2. PICK new : new = [seen |-> y.seen, told |-> y.told, at |-> now]
    OBVIOUS
  <2>3. now \in Nat /\ y.seen \in 0 .. now /\ y.told \in BOOLEAN /\ now - y.seen < DayLength
    BY <2>1, YieldsToldNow DEF Market!Yields, InfoKept
  <2>4. /\ new \in [seen : 0 .. now, told : BOOLEAN, at : 0 .. now]
        /\ new.seen <= new.at /\ new.at - new.seen < DayLength /\ now - new.at < DayLength
    BY <2>2, <2>3, YieldsToldNow
  <2>5. /\ yieldCache' \subseteq [seen : 0 .. now, told : BOOLEAN, at : 0 .. now] /\ AtMostOne(yieldCache')
        /\ \A c \in yieldCache' : c.seen <= c.at /\ c.at - c.seen < DayLength /\ now - c.at < DayLength
    <3>1. \A c \in yieldCache' : c = new
      BY <1>4, <2>2
    <3> QED BY <2>4, <3>1 DEF AtMostOne
  <2>6. Market!Day' = Market!Day /\ Market!Yields' = Market!Yields
    BY <1>1 DEF Market!Day, Market!Yields
  <2>7. CachesOK'
    BY <1>1, <2>1, <2>5, <2>6 DEF CachesOK, InfoKept, Upcoming, AtMostOne
  <2> QED BY <1>2, <1>4, <2>7
<1>5. CASE Market!Go(Market!Priced(req, Market!NoYield), {}) /\ UNCHANGED <<yieldCache, infoCache>>
  BY <1>1, <1>2, <1>5, YieldsToldNow, CachesKept
<1> QED BY <1>3, <1>4, <1>5 DEF Market!Dividend

LEMMA MarketGrowwChain == ASSUME MarketInv, Market!GrowwChain PROVE MarketInv'
<1> USE DEF MarketInv
<1>1. req.pc = "groww chain" /\ UNCHANGED <<now, expiryCache, yieldCache, infoCache, stored>> /\ req \in Request
  BY DEF Market!GrowwChain, Market!Caches, CallOK
<1>2. CASE Market!Go(Market!Fallback(req), {"groww"})
  BY <1>1, <1>2, FallsBack, CachesKept
<1>3. ASSUME NEW rows \in (SUBSET Market!NearestTwo(req.list)) \ {{}}, NEW own \in BOOLEAN,
             Market!Go([req EXCEPT !.pc = "store", !.rows = rows, !.spot = @ \/ own, !.list = {}],
                       IF rows = Market!NearestTwo(req.list) THEN {} ELSE {"groww"})
      PROVE  MarketInv'
  <2>1. PICK spot \in BOOLEAN : spot = (req.spot \/ own)
    OBVIOUS
  <2>2. PICK who : who = IF rows = Market!NearestTwo(req.list) THEN {} ELSE {"groww"}
    OBVIOUS
  <2>3. PICK r : r = [req EXCEPT !.pc = "store", !.rows = rows, !.spot = spot, !.list = {}]
    OBVIOUS
  <2>4. Market!Go(r, who)
    BY <1>3, <2>1, <2>2, <2>3
  <2>5. rows \subseteq Expiries /\ rows \subseteq req.list
    BY <1>1 DEF Market!NearestTwo, Request
  <2>6. /\ r \in Request /\ r.failed = req.failed /\ r.kind = req.kind /\ r.day = req.day /\ r.yield = req.yield
        /\ r.pc = "store" /\ r.rows = rows /\ r.spot = spot
    BY <1>1, <2>3, <2>5 DEF Request
  <2>7. /\ req.kind = "chain" /\ Upcoming(req.list, req.day) /\ (req.spot \/ "groww" \in req.failed)
        /\ req.day \in Nat
    BY <1>1 DEF CallOK, Sound, Request
  <2>8. \A e \in rows : e >= req.day
    BY <2>5, <2>7, UpcomingIsLater
  <2>9. r.failed \cup who = {} =>
          r.spot /\ \E d \in req.day .. Market!Day : rows = Market!NearestTwo({e \in Expiries : e >= d})
    <3> SUFFICES ASSUME r.failed \cup who = {}
                 PROVE  r.spot /\ \E d \in req.day .. Market!Day : rows = Market!NearestTwo({e \in Expiries : e >= d})
      OBVIOUS
    <3>1. rows = Market!NearestTwo(req.list) /\ "groww" \notin req.failed
      BY <2>2, <2>6
    <3> QED BY <2>1, <2>6, <2>7, <3>1 DEF Upcoming
  <2>10. Sound(r, r.failed \cup who)
    <3>1. r.rows # {} /\ r.yield \subseteq Market!Yields /\ r.day \in 0 .. Market!Day
      <4>1. rows # {}
        OBVIOUS
      <4>2. req.yield \subseteq Market!Yields /\ req.day \in 0 .. Market!Day
        BY DEF CallOK, Sound
      <4> QED BY <2>6, <4>1, <4>2
    <3> QED BY <2>6, <2>7, <2>8, <2>9, <3>1, ChainIsSound
  <2>11. who \in SUBSET {"groww", "nse", "yahoo"}
    BY <2>2
  <2> QED BY <1>1, <2>4, <2>6, <2>10, <2>11, CallKept, CachesKept
<1> QED BY <1>2, <1>3 DEF Market!GrowwChain

LEMMA MarketStart == ASSUME MarketInv, NEW kind \in {"chain", "price"}, Market!Start(kind) PROVE MarketInv'
<1> USE DEF MarketInv
<1>1. UNCHANGED <<now, expiryCache, yieldCache, infoCache>>
  BY DEF Market!Start, Market!Caches
<1>2. Market!Day' = Market!Day /\ Market!Yields' = Market!Yields /\ Market!Day \in Nat
  BY <1>1, DayInRange DEF Market!Day, Market!Yields
<1>3. 0 \in 0 .. MaxRefused
  BY MarketConstants
<1>4. PICK i : i = Market!Idle
  OBVIOUS
<1>5. i \in Request /\ i.yield = {} /\ i.failed = {}
  BY <1>3, <1>4 DEF Market!Idle, Request
<1>6. req' = [i EXCEPT !.pc = "token", !.kind = kind, !.day = Market!Day]
  BY <1>4 DEF Market!Start
<1>7. req' \in Request /\ req'.pc = "token" /\ req'.kind = kind /\ req'.day = Market!Day /\ req'.yield = {}
  BY <1>2, <1>5, <1>6 DEF Request
<1>8. Market!Day \in 0 .. Market!Day
  BY <1>2
<1>9. CallOK'
  BY <1>2, <1>7, <1>8 DEF CallOK, Sound
<1> QED BY <1>1, <1>9, CachesKept

LEMMA MarketStore == ASSUME MarketInv, Market!Store PROVE MarketInv'
<1>1. req' = Market!Idle /\ UNCHANGED <<now, expiryCache, yieldCache, infoCache>>
  BY DEF Market!Store, Market!Caches
<1>2. PICK i : i = Market!Idle
  OBVIOUS
<1>3. i \in Request /\ i.pc = "idle" /\ i.kind = "chain" /\ i.day = 0 /\ i.yield = {}
  <2>1. 0 \in 0 .. MaxRefused
    BY MarketConstants
  <2> QED BY <1>2, <2>1 DEF Market!Idle, Request
<1>4. Market!Day' = Market!Day /\ 0 \in 0 .. Market!Day
  <2>1. Market!Day \in Nat
    BY DayInRange DEF MarketInv
  <2> QED BY <1>1, <2>1 DEF Market!Day
<1>5. CallOK'
  BY <1>1, <1>2, <1>3, <1>4 DEF CallOK, Sound
<1> QED BY <1>1, <1>5, CachesKept DEF MarketInv

LEMMA RangeGrows ==
  ASSUME NEW a \in Nat, NEW b \in Nat, a <= b PROVE \A n \in Nat : n .. a \subseteq n .. b
OBVIOUS

LEMMA MarketTick == ASSUME MarketInv, Market!Tick PROVE MarketInv'
<1> USE DEF MarketInv
<1>1. /\ now < MaxTime /\ now' = now + 1 /\ req' = req
      /\ expiryCache' = [d \in DOMAIN expiryCache |-> {c \in expiryCache[d] : now' - c.at < DayLength}]
      /\ yieldCache' = {c \in yieldCache : now' - c.at < DayLength}
      /\ infoCache'  = {c \in infoCache : now' - c.seen < DayLength}
  BY DEF Market!Tick
<1>2. now \in Nat /\ now' \in Nat /\ now <= now' /\ now' \in 0 .. MaxTime
  <2>1. now \in Nat
    BY YieldsToldNow
  <2> QED BY <1>1, <2>1, MarketConstants
<1>3. Market!Day \in Nat /\ Market!Day' \in Nat /\ Market!Day <= Market!Day'
  <2>1. Market!Day' = now' \div DayLength
    BY DEF Market!Day
  <2>2. now \div DayLength \in Nat /\ now' \div DayLength \in Nat /\ now \div DayLength <= now' \div DayLength
    BY <1>2, DaysPass
  <2> QED BY <2>1, <2>2 DEF Market!Day
<1>4. 0 .. now \subseteq 0 .. now' /\ \A n \in Nat : n .. Market!Day \subseteq n .. Market!Day'
  BY <1>2, <1>3, RangeGrows
<1>5. Market!Yields \subseteq Market!Yields'
  BY <1>4 DEF Market!Yields
<1>6. \A l : \A d \in Nat : Upcoming(l, d) => Upcoming(l, d)'
  BY <1>4 DEF Upcoming
<1>7. CachesOK'
  <2>1. \A d \in DOMAIN expiryCache' : d \in Nat /\ \A c \in expiryCache'[d] : c \in expiryCache[d]
    BY <1>1 DEF CachesOK
  <2>2. DOMAIN expiryCache' = DOMAIN expiryCache
    BY <1>1
  <2>3. \A d \in DOMAIN expiryCache : \A c \in expiryCache[d] : Upcoming(c.list, d) /\ c.at \in 0 .. now
    BY DEF CachesOK
  <2>4. \A d \in DOMAIN expiryCache' : \A c \in expiryCache'[d] : Upcoming(c.list, d)' /\ c.at \in 0 .. now'
    BY <1>4, <1>6, <2>1, <2>2, <2>3
  <2>5. AtMostOne(infoCache') /\ AtMostOne(yieldCache') /\ infoCache' \subseteq infoCache /\ yieldCache' \subseteq yieldCache
    BY <1>1 DEF CachesOK, AtMostOne
  <2>6. infoCache' \subseteq Market!Yields' /\ \A y \in infoCache' : now' - y.seen < DayLength
    BY <1>1, <1>5, <2>5 DEF CachesOK
  <2>7. yieldCache' \subseteq [seen : 0 .. now', told : BOOLEAN, at : 0 .. now']
    BY <1>4, <2>5 DEF CachesOK
  <2>8. \A c \in yieldCache' : c.seen <= c.at /\ c.at - c.seen < DayLength /\ now' - c.at < DayLength
    BY <1>1, <2>5 DEF CachesOK
  <2>9. DOMAIN expiryCache' = 0 .. MaxTime \div DayLength
    BY <2>2 DEF CachesOK
  <2> QED BY <1>2, <2>4, <2>5, <2>6, <2>7, <2>8, <2>9 DEF CachesOK, AtMostOne
<1>8. CallOK'
  <2>1. req \in Request /\ req.day \in Nat /\ Sound(req, req.failed)
    BY DEF CallOK, Request
  <2>2. req.yield \subseteq Market!Yields' /\ req.day \in 0 .. Market!Day'
    BY <1>3, <1>4, <1>5, <2>1 DEF Sound
  <2>3. Upcoming(req.list, req.day) => Upcoming(req.list, req.day)'
    BY <1>1, <1>6, <2>1
  <2>4. Sound(req, req.failed)'
    BY <1>1, <1>4, <2>1, <2>2, <2>3 DEF Sound
  <2> QED BY <1>1, <2>1, <2>4 DEF CallOK
<1> QED BY <1>7, <1>8

LEMMA MarketStep == ASSUME MarketInv, [Market!Next]_marketVars PROVE MarketInv'
<1>1. CASE UNCHANGED marketVars
  <2>1. UNCHANGED <<now, expiryCache, yieldCache, infoCache, req>>
    BY <1>1 DEF marketVars
  <2>2. Market!Day' = Market!Day /\ Market!Yields' = Market!Yields
    BY <2>1 DEF Market!Day, Market!Yields
  <2>3. CallOK'
    BY <2>1, <2>2 DEF MarketInv, CallOK, Sound, Upcoming
  <2> QED BY <2>1, <2>3, CachesKept DEF MarketInv
<1>2. CASE Market!Next
  BY <1>2, MarketStart, MarketGetToken, MarketReadExpiries, MarketNseInfo, MarketNseChain, MarketYahooChain,
     MarketEndpoint, MarketQuote, MarketYahooPrice, MarketDividend, MarketGrowwChain, MarketStore, MarketTick
     DEF Market!Next
<1> QED BY <1>1, <1>2

LEMMA MarketInitially == Market!Init => MarketInv
<1> SUFFICES ASSUME Market!Init PROVE MarketInv
  OBVIOUS
<1>1. /\ now = 0 /\ expiryCache = [d \in 0 .. MaxTime \div DayLength |-> {}]
      /\ yieldCache = {} /\ infoCache = {} /\ req = Market!Idle
  BY DEF Market!Init
<1>2. CachesOK
  <2>1. now \in 0 .. MaxTime
    BY <1>1, MarketConstants
  <2>2. DOMAIN expiryCache = 0 .. MaxTime \div DayLength /\ \A d \in DOMAIN expiryCache : expiryCache[d] = {}
    BY <1>1
  <2> QED BY <1>1, <2>1, <2>2 DEF CachesOK, AtMostOne
<1>3. PICK i : i = Market!Idle
  OBVIOUS
<1>4. i \in Request /\ i.pc = "idle" /\ i.kind = "chain" /\ i.day = 0 /\ i.yield = {}
  <2>1. 0 \in 0 .. MaxRefused
    BY MarketConstants
  <2> QED BY <1>3, <2>1 DEF Market!Idle, Request
<1>5. 0 \in 0 .. Market!Day
  BY <1>2, DayInRange
<1> QED BY <1>1, <1>2, <1>3, <1>4, <1>5 DEF MarketInv, CallOK, Sound

LEMMA MarketImplies == MarketInv => Market!TypeOK /\ Market!MarketIsTold
<1> SUFFICES ASSUME MarketInv PROVE Market!TypeOK /\ Market!MarketIsTold
  OBVIOUS
<1> USE DEF MarketInv
<1>1. req \in Request /\ Sound(req, req.failed)
  BY DEF CallOK
<1>2. Market!TypeOK
  <2>1. Market!Cardinality(infoCache) <= 1 /\ Market!Cardinality(yieldCache) <= 1
    BY AtMostOneCounted, MarketCardinality DEF CachesOK
  <2>2. \A d \in DOMAIN expiryCache : \A c \in expiryCache[d] :
           c.list \subseteq Expiries /\ c.list # {} /\ c.at \in 0 .. now
    BY DEF CachesOK, Upcoming
  <2>3. /\ req.list \cup req.rows \subseteq Expiries /\ req.refused \in 0 .. MaxRefused
        /\ req.failed \subseteq {"groww", "nse", "yahoo"} /\ req.yield \subseteq Market!Yields
        /\ req.bare \in BOOLEAN
    BY <1>1 DEF Request, Sound
  <2> QED BY <2>1, <2>2, <2>3 DEF Market!TypeOK, CachesOK
<1>3. Market!AnswersUnlessAllFail
  BY <1>1 DEF Sound, Market!AnswersUnlessAllFail
<1>4. Market!ChainIsCurrent
  BY <1>1 DEF Sound, Market!ChainIsCurrent
<1>5. Market!YieldIsRecent
  <2> SUFFICES ASSUME NEW c \in yieldCache PROVE now - c.seen < 2 * DayLength
    BY DEF Market!YieldIsRecent
  <2>1. /\ c \in [seen : 0 .. now, told : BOOLEAN, at : 0 .. now]
        /\ c.seen <= c.at /\ c.at - c.seen < DayLength /\ now - c.at < DayLength
    BY DEF CachesOK
  <2>2. now \in Nat /\ DayLength \in Nat
    BY YieldsToldNow
  <2>3. c.seen \in Nat /\ c.at \in Nat
    BY <2>1, <2>2
  <2> QED BY <2>1, <2>2, <2>3
<1> QED BY <1>2, <1>3, <1>4, <1>5 DEF Market!MarketIsTold

LEMMA MarketAlways == PathsSpec => []MarketInv
<1>1. PathsInit => MarketInv
  BY MarketInitially DEF PathsInit
<1>2. MarketInv /\ [PathsNext]_allVars => MarketInv'
  <2> SUFFICES ASSUME MarketInv, [PathsNext]_allVars PROVE MarketInv'
    OBVIOUS
  <2>1. [Market!Next]_marketVars
    BY DEF PathsNext, allVars
  <2> QED BY <2>1, MarketStep
<1> QED BY <1>1, <1>2, PTL DEF PathsSpec

(* A call gives up only after every source it may use has refused, a chain *)
(* has no expiry of the past and is complete when nobody refused anything, *)
(* and no yield is older than the two caches it may have gone through.     *)
THEOREM MarketTold == PathsSpec => []MarketIsTold
<1>1. MarketInv => MarketIsTold
  BY MarketImplies DEF MarketIsTold
<1> QED BY <1>1, MarketAlways, PTL

-----------------------------------------------------------------------------
(* The API that reads the keys. *)

KeyedChain  == [at : Nat, until : Nat, spot : BOOLEAN, calls : SUBSET Nat, puts : SUBSET Nat]
KeyedPrice  == [at : Nat, until : Nat, last : BOOLEAN]
KeyedStamp  == [at : Nat, until : Nat]
KeyedCloses == [at : Nat, until : Nat, known : BOOLEAN]
Estimate    == [at : Nat, known : BOOLEAN]

AskType ==
  [kind   : {"none", "ticker", "derivatives", "technicals"},
   pc     : {"idle", "chain", "price", "wait", "fetch", "hv", "answer", "priced", "history", "download"},
   began  : Nat,
   chain  : SUBSET KeyedChain,
   price  : SUBSET KeyedPrice,
   priced : {{}},
   hv     : SUBSET Estimate,
   spot   : BOOLEAN]

ReplyType ==
  [kind     : {"none", "ticker", "derivatives", "technicals"},
   code     : {0, 200, 202, 422, 500, 503},
   began    : Nat,
   at       : Nat,
   chain    : SUBSET KeyedChain,
   priced   : SUBSET KeyedStamp,
   hv       : SUBSET Estimate,
   contract : SUBSET Nat,
   stale    : BOOLEAN,
   closes   : SUBSET Estimate]

\* A chain without a spot has a source behind it that did not give one.
Blamed(c) == c.spot = FALSE => c.at < trouble

TimeOK == clock \in 0 .. MaxClock /\ trouble \in 0 .. clock + 1

ChainKeyOK ==
  AtMostOne(chainKey) /\ \A c \in chainKey :
    c \in KeyedChain /\ c.at <= clock /\ clock < c.until /\ c.until = c.at + ChainTtl /\ Blamed(c)
PriceKeyOK ==
  AtMostOne(priceKey) /\ \A p \in priceKey : p \in KeyedPrice /\ p.at <= clock /\ clock < p.until
PricedKeyOK ==
  AtMostOne(pricedKey) /\ \A v \in pricedKey :
    /\ v \in KeyedStamp /\ v.at <= clock /\ clock < v.until
    /\ v.at + PricedTtl <= v.until /\ v.until <= v.at + PricedTtl + Lag
HistoryKeyOK ==
  AtMostOne(historyKey) /\ \A v \in historyKey :
    v \in KeyedCloses /\ v.at <= clock /\ clock < v.until /\ v.until = v.at + HistoryTtl /\ v.known = TRUE
HvCacheOK ==
  AtMostOne(hvCache) /\ \A h \in hvCache : h \in Estimate /\ h.at <= clock /\ h.known = TRUE

KeysOK == TimeOK /\ ChainKeyOK /\ PriceKeyOK /\ PricedKeyOK /\ HistoryKeyOK /\ HvCacheOK

\* What a request q has, it read since it began, from a key that was alive.
Asked(q) ==
  /\ q \in AskType
  /\ q.pc # "idle" => q.began <= clock /\ clock <= q.began + Patience
  /\ AtMostOne(q.chain)
  /\ \A c \in q.chain : c.at <= clock /\ q.began < c.at + ChainTtl /\ Blamed(c)
  /\ \A h \in q.hv    : h.at <= clock /\ q.began < h.at + HvTtl /\ (h.known = FALSE => h.at >= q.began)

ReplyOK == Api!AnswersAreOfNow /\ reply.code \in {0, 200, 202, 422, 500, 503}

ApiInv == KeysOK /\ Asked(ask) /\ ReplyOK

LEMMA ApiConstants ==
  /\ ChainTtl \in Nat /\ PriceTtl \in Nat /\ PricedTtl \in Nat /\ HistoryTtl \in Nat /\ HvTtl \in Nat
  /\ ChainTtl > 0 /\ PriceTtl > 0 /\ PricedTtl > 0 /\ HistoryTtl > 0 /\ HvTtl > 0
  /\ Patience \in Nat /\ Lag \in Nat /\ MaxClock \in Nat
BY PathsAssumption DEF Api!ConstantsAssumption

LEMMA ShapesTyped ==
  \A s \in Shapes : s.spot \in BOOLEAN /\ s.calls \subseteq Nat /\ s.puts \subseteq Nat
BY PathsAssumption DEF Api!ConstantsAssumption

LEMMA TimeTyped == TimeOK => clock \in Nat /\ trouble \in Nat /\ trouble <= clock + 1 /\ clock <= MaxClock
BY ApiConstants DEF TimeOK

LEMMA NoReplyTyped == Api!NoReply \in ReplyType
BY DEF Api!NoReply, ReplyType

LEMMA NothingSaid == reply' = Api!NoReply => ReplyOK'
<1>1. PICK r : r = Api!NoReply
  OBVIOUS
<1>2. r.chain = {} /\ r.priced = {} /\ r.hv = {} /\ r.closes = {} /\ r.contract = {} /\ r.code = 0
  BY <1>1 DEF Api!NoReply
<1> QED BY <1>1, <1>2 DEF ReplyOK, Api!AnswersAreOfNow, Api!AnswersAreRecent, Api!ContractIsNearest, Api!FailuresAreNotKept

(* Time stands still in a step of a request, and a source may be blamed.   *)
LEMMA BlameStays ==
  ASSUME TimeOK, clock' = clock, trouble' \in {trouble, clock + 1}
  PROVE  TimeOK' /\ trouble' \in Nat /\ trouble <= trouble'
         /\ \A c : c.at \in Nat /\ Blamed(c) => Blamed(c)'
<1>1. trouble' \in Nat /\ trouble <= trouble' /\ trouble' <= clock + 1 /\ clock \in Nat /\ trouble \in Nat
  BY TimeTyped
<1>2. TimeOK'
  BY <1>1 DEF TimeOK
<1>3. ASSUME NEW c, c.at \in Nat, Blamed(c) PROVE Blamed(c)'
  BY <1>1, <1>3 DEF Blamed
<1> QED BY <1>1, <1>2, <1>3

LEMMA KeysKept ==
  ASSUME KeysOK, clock' = clock, trouble' \in {trouble, clock + 1}
  PROVE  /\ TimeOK'
         /\ chainKey' = chainKey => ChainKeyOK'
         /\ priceKey' = priceKey => PriceKeyOK'
         /\ pricedKey' = pricedKey => PricedKeyOK'
         /\ historyKey' = historyKey => HistoryKeyOK'
         /\ hvCache' = hvCache => HvCacheOK'
<1>1. TimeOK' /\ \A c : c.at \in Nat /\ Blamed(c) => Blamed(c)'
  BY BlameStays DEF KeysOK
<1>2. ASSUME chainKey' = chainKey PROVE ChainKeyOK'
  <2>1. \A c \in chainKey' : c \in KeyedChain /\ c.at <= clock' /\ clock' < c.until /\ c.until = c.at + ChainTtl /\ c.at \in Nat /\ Blamed(c)
    BY <1>2 DEF KeysOK, ChainKeyOK, KeyedChain
  <2>2. \A c \in chainKey' : Blamed(c)'
    BY <1>1, <2>1
  <2>3. AtMostOne(chainKey')
    BY <1>2 DEF KeysOK, ChainKeyOK
  <2> QED BY <2>1, <2>2, <2>3 DEF ChainKeyOK, AtMostOne, KeyedChain
<1>3. (priceKey' = priceKey => PriceKeyOK') /\ (pricedKey' = pricedKey => PricedKeyOK')
  BY DEF KeysOK, PriceKeyOK, PricedKeyOK, AtMostOne, KeyedPrice, KeyedStamp
<1>4. (historyKey' = historyKey => HistoryKeyOK') /\ (hvCache' = hvCache => HvCacheOK')
  BY DEF KeysOK, HistoryKeyOK, HvCacheOK, AtMostOne, KeyedCloses, Estimate
<1> QED BY <1>1, <1>2, <1>3, <1>4

LEMMA AskedStill ==
  ASSUME KeysOK, NEW q, Asked(q), clock' = clock, trouble' \in {trouble, clock + 1} PROVE Asked(q)'
<1>1. \A c : c.at \in Nat /\ Blamed(c) => Blamed(c)'
  BY BlameStays DEF KeysOK
<1>2. \A c \in q.chain : c.at \in Nat
  BY DEF Asked, AskType, KeyedChain
<1>3. q \in AskType' /\ AtMostOne(q.chain)'
  BY DEF Asked, AskType, KeyedChain, KeyedPrice, Estimate, AtMostOne
<1> QED BY <1>1, <1>2, <1>3 DEF Asked

LEMMA AskGoes ==
  ASSUME KeysOK, NEW q, Asked(q), clock' = clock, trouble' \in {trouble, clock + 1}, Api!Go(q)
  PROVE  Asked(ask)' /\ ReplyOK'
<1>1. Asked(q)' /\ ask' = q /\ reply' = Api!NoReply
  BY AskedStill DEF Api!Go
<1> QED BY <1>1, NothingSaid DEF Asked

LEMMA NoRequestAsked == Asked(Api!NoRequest)
<1>1. PICK q : q = Api!NoRequest
  OBVIOUS
<1>2. q \in AskType /\ q.chain = {} /\ q.hv = {} /\ q.pc = "idle"
  BY <1>1 DEF Api!NoRequest, AskType
<1> QED BY <1>1, <1>2 DEF Asked, AtMostOne

Stamped(r, k, b, t, c) == [r EXCEPT !.kind = k, !.began = b, !.at = t, !.chain = c]

LEMMA ReplyStamped ==
  ASSUME NEW r \in ReplyType, NEW k \in {"none", "ticker", "derivatives", "technicals"}, NEW b \in Nat,
         NEW t \in Nat, NEW c \in SUBSET KeyedChain, NEW s,
         s = Stamped(r, k, b, t, c)
  PROVE  /\ s \in ReplyType /\ s.began = b /\ s.at = t /\ s.chain = c
         /\ s.code = r.code /\ s.priced = r.priced /\ s.hv = r.hv /\ s.contract = r.contract
         /\ s.stale = r.stale /\ s.closes = r.closes
<1>2. PICK x : x = [r EXCEPT !.kind = k]
  OBVIOUS
<1>3. /\ x \in ReplyType /\ x.code = r.code /\ x.priced = r.priced /\ x.hv = r.hv /\ x.contract = r.contract
      /\ x.stale = r.stale /\ x.closes = r.closes
  BY <1>2 DEF ReplyType
<1>4. PICK y : y = [x EXCEPT !.began = b]
  OBVIOUS
<1>5. /\ y \in ReplyType /\ y.code = x.code /\ y.priced = x.priced /\ y.hv = x.hv /\ y.contract = x.contract
      /\ y.stale = x.stale /\ y.closes = x.closes /\ y.began = b
  BY <1>3, <1>4 DEF ReplyType
<1>6. PICK z : z = [y EXCEPT !.at = t]
  OBVIOUS
<1>7. /\ z \in ReplyType /\ z.code = y.code /\ z.priced = y.priced /\ z.hv = y.hv /\ z.contract = y.contract
      /\ z.stale = y.stale /\ z.closes = y.closes /\ z.began = y.began /\ z.at = t
  BY <1>5, <1>6 DEF ReplyType
<1>8. s = [z EXCEPT !.chain = c]
  BY <1>2, <1>4, <1>6 DEF Stamped
<1>9. /\ s \in ReplyType /\ s.code = z.code /\ s.priced = z.priced /\ s.hv = z.hv /\ s.contract = z.contract
      /\ s.stale = z.stale /\ s.closes = z.closes /\ s.began = z.began /\ s.at = z.at /\ s.chain = c
  <2>1. s \in ReplyType
    BY <1>7, <1>8 DEF ReplyType
  <2>2. DOMAIN z = {"kind", "code", "began", "at", "chain", "priced", "hv", "contract", "stale", "closes"}
    BY <1>7 DEF ReplyType
  <2>3. /\ s.code = z.code /\ s.priced = z.priced /\ s.hv = z.hv /\ s.contract = z.contract
        /\ s.stale = z.stale /\ s.closes = z.closes /\ s.began = z.began /\ s.at = z.at /\ s.chain = c
    BY <1>8, <2>2
  <2> QED BY <2>1, <2>3
<1> QED BY <1>3, <1>5, <1>7, <1>9

LEMMA Answered ==
  ASSUME Asked(ask), clock \in Nat, NEW r \in ReplyType, Api!Answer(r)
  PROVE  /\ ask' = Api!NoRequest /\ reply' \in ReplyType
         /\ reply'.code = r.code /\ reply'.began = ask.began /\ reply'.at = clock /\ reply'.chain = ask.chain
         /\ reply'.priced = r.priced /\ reply'.hv = r.hv /\ reply'.contract = r.contract
         /\ reply'.stale = r.stale /\ reply'.closes = r.closes
<1>1. ask.kind \in {"none", "ticker", "derivatives", "technicals"} /\ ask.began \in Nat /\ ask.chain \in SUBSET KeyedChain
  BY DEF Asked, AskType
<1>2. reply' = Stamped(r, ask.kind, ask.began, clock, ask.chain) /\ ask' = Api!NoRequest
  BY DEF Api!Answer, Stamped
<1> QED BY <1>1, <1>2, ReplyStamped

(* The pricing expiry has not settled while any has not, and no earlier one*)
(* is left.                                                                *)
LEMMA PricingIsNearest ==
  ASSUME NEW list \in SUBSET Nat, NEW e \in Api!PricingExpiry(list), NEW f \in list, f > clock, clock \in Nat
  PROVE  clock < e /\ e <= f
<1>1. f \in {x \in list : x > clock}
  OBVIOUS
<1>2. e \in {x \in list : x > clock} /\ e <= f
  BY <1>1 DEF Api!PricingExpiry
<1>3. e \in Nat
  BY <1>2
<1> QED BY <1>2, <1>3

\* What an answer r may say while request ask is under way.
Sayable(r) ==
  /\ r \in ReplyType
  /\ \A v \in r.priced : /\ clock < v.at + PricedTtl + Lag
                         /\ r.stale = TRUE => v.until > v.at + PricedTtl
  /\ r.hv \subseteq ask.hv
  /\ \A v \in r.closes : clock < v.at + HistoryTtl /\ (v.known = FALSE => v.at >= ask.began)
  /\ \A e \in r.contract : \E c \in ask.chain : e \in Api!PricingExpiry(Api!ExpiriesOf(c))

LEMMA AnswerIsOfNow ==
  ASSUME KeysOK, Asked(ask), ask.pc # "idle", clock' = clock, trouble' \in {trouble, clock + 1},
         NEW r, Sayable(r), r.code = 503 => clock < trouble' + ChainTtl + Patience /\ trouble' > 0,
         Api!Answer(r)
  PROVE  Asked(ask)' /\ ReplyOK'
<1>0. clock \in Nat /\ r \in ReplyType /\ trouble' \in Nat
  BY TimeTyped, BlameStays DEF KeysOK, Sayable
<1>1. /\ ask' = Api!NoRequest /\ reply' \in ReplyType
      /\ reply'.code = r.code /\ reply'.began = ask.began /\ reply'.at = clock /\ reply'.chain = ask.chain
      /\ reply'.priced = r.priced /\ reply'.hv = r.hv /\ reply'.contract = r.contract
      /\ reply'.stale = r.stale /\ reply'.closes = r.closes
  BY <1>0, Answered
<1>2. Asked(ask)'
  <2>1. Asked(Api!NoRequest)'
    BY NoRequestAsked, AskedStill
  <2> QED BY <1>1, <2>1 DEF Asked
<1>3. ask \in AskType /\ ask.began \in Nat /\ clock <= ask.began + Patience
  BY DEF Asked, AskType
<1>4. \A c \in reply'.chain : reply'.at <= c.at + ChainTtl + Patience
  <2> SUFFICES ASSUME NEW c \in ask.chain PROVE clock <= c.at + ChainTtl + Patience
    BY <1>1
  <2>1. c.at \in Nat /\ ask.began < c.at + ChainTtl
    BY <1>3 DEF Asked, AskType, KeyedChain
  <2> QED BY <1>0, <1>3, <2>1, ApiConstants
<1>5. \A h \in reply'.hv : reply'.at <= h.at + HvTtl + Patience /\ (h.known = FALSE => h.at >= reply'.began)
  <2> SUFFICES ASSUME NEW h \in ask.hv
               PROVE clock <= h.at + HvTtl + Patience /\ (h.known = FALSE => h.at >= ask.began)
    BY <1>1 DEF Sayable
  <2>1. h.at \in Nat /\ ask.began < h.at + HvTtl /\ (h.known = FALSE => h.at >= ask.began)
    BY <1>3 DEF Asked, AskType, Estimate
  <2> QED BY <1>0, <1>3, <2>1, ApiConstants
<1>6. \A v \in reply'.priced : /\ reply'.at <= v.at + (PricedTtl + Lag) + Patience
                               /\ reply'.stale = TRUE => v.until > v.at + PricedTtl
  <2>1. \A v \in r.priced : /\ clock < v.at + PricedTtl + Lag
                            /\ r.stale = TRUE => v.until > v.at + PricedTtl
    BY DEF Sayable
  <2>2. ASSUME NEW v \in r.priced PROVE clock <= v.at + (PricedTtl + Lag) + Patience
    <3>1. v.at \in Nat
      BY <1>0 DEF ReplyType, KeyedStamp
    <3>2. clock < v.at + PricedTtl + Lag
      BY <2>1
    <3> QED BY <1>0, <3>1, <3>2, ApiConstants
  <2> QED BY <1>1, <2>1, <2>2
<1>7. \A v \in reply'.closes : reply'.at <= v.at + HistoryTtl + Patience /\ (v.known = FALSE => v.at >= reply'.began)
  <2> SUFFICES ASSUME NEW v \in r.closes
               PROVE clock <= v.at + HistoryTtl + Patience /\ (v.known = FALSE => v.at >= ask.began)
    BY <1>1
  <2>1. v.at \in Nat /\ clock < v.at + HistoryTtl /\ (v.known = FALSE => v.at >= ask.began)
    BY <1>0 DEF Sayable, ReplyType, Estimate
  <2> QED BY <1>0, <2>1, ApiConstants
<1>8. Api!AnswersAreRecent'
  BY <1>4, <1>5, <1>6, <1>7 DEF Api!AnswersAreRecent, Api!Within
<1>9. Api!ContractIsNearest'
  <2> SUFFICES ASSUME NEW e \in r.contract, NEW c \in ask.chain, NEW f \in Api!ExpiriesOf(c), f > clock
               PROVE  clock < e /\ e <= f
    BY <1>1 DEF Api!ContractIsNearest, Api!ExpiriesOf
  <2>1. PICK d \in ask.chain : e \in Api!PricingExpiry(Api!ExpiriesOf(d))
    BY DEF Sayable
  <2>2. d = c
    BY DEF Asked, AtMostOne
  <2>3. c \in KeyedChain
    BY <1>3 DEF AskType
  <2>4. Api!ExpiriesOf(c) \in SUBSET Nat
    BY <2>3 DEF KeyedChain, Api!ExpiriesOf
  <2> QED BY <1>0, <2>1, <2>2, <2>4, PricingIsNearest
<1>10. \A x \in reply'.hv \cup reply'.closes : x.known \in BOOLEAN
  BY <1>1 DEF ReplyType, Estimate
<1>11. Api!FailuresAreNotKept'
  BY <1>1, <1>5, <1>7, <1>10 DEF Api!FailuresAreNotKept
<1>12. reply'.code \in {0, 200, 202, 422, 500, 503}
  BY <1>1 DEF ReplyType
<1> QED BY <1>2, <1>8, <1>9, <1>11, <1>12 DEF ReplyOK, Api!AnswersAreOfNow

LEMMA RefusalIsOfNow ==
  ASSUME KeysOK, Asked(ask), ask.pc # "idle", clock' = clock, trouble' \in {trouble, clock + 1},
         NEW code \in {0, 200, 202, 422, 500, 503},
         code = 503 => clock < trouble' + ChainTtl + Patience /\ trouble' > 0, Api!Refuse(code)
  PROVE  Asked(ask)' /\ ReplyOK'
<1>1. PICK n : n = Api!NoReply
  OBVIOUS
<1>2. n \in ReplyType /\ n.priced = {} /\ n.hv = {} /\ n.closes = {} /\ n.contract = {}
  BY <1>1 DEF Api!NoReply, ReplyType
<1> DEFINE r == [n EXCEPT !.code = code]
<1>4. r \in ReplyType /\ r.priced = {} /\ r.hv = {} /\ r.closes = {} /\ r.contract = {} /\ r.code = code
  BY <1>2 DEF ReplyType
<1>5. Sayable(r)
  <2> HIDE DEF r
  <2> QED BY <1>4 DEF Sayable
<1>6. Api!Answer(r)
  BY <1>1 DEF Api!Refuse
<1> HIDE DEF r
<1> QED BY <1>4, <1>5, <1>6, AnswerIsOfNow

(* The writes.                                                             *)
LEMMA ChainKeyed ==
  ASSUME TimeOK, clock' = clock, NEW c \in KeyedChain, c.at = clock, trouble' \in Nat,
         c.spot = FALSE => trouble' = clock + 1, chainKey' = Api!Keyed(c, ChainTtl)
  PROVE  ChainKeyOK'
<1>0. clock \in Nat
  BY TimeTyped
<1>1. PICK x : x = [c EXCEPT !.until = clock + ChainTtl]
  OBVIOUS
<1>2. x \in KeyedChain /\ x.at = clock /\ x.until = clock + ChainTtl /\ x.spot = c.spot
  BY <1>0, <1>1, ApiConstants DEF KeyedChain
<1>3. chainKey' = {x}
  BY <1>1 DEF Api!Keyed
<1>4. Blamed(x)'
  BY <1>0, <1>2 DEF Blamed
<1>5. clock < clock + ChainTtl
  BY <1>0, ApiConstants
<1>6. \A y \in chainKey' : y = x
  BY <1>3
<1> QED BY <1>0, <1>2, <1>4, <1>5, <1>6 DEF ChainKeyOK, AtMostOne, Blamed, KeyedChain

LEMMA PriceKeyed ==
  ASSUME TimeOK, clock' = clock, priceKey' = Api!Keyed(Api!Price(TRUE), PriceTtl) PROVE PriceKeyOK'
<1>0. clock \in Nat
  BY TimeTyped
<1>1. PICK p : p = Api!Price(TRUE)
  OBVIOUS
<1>2. p \in KeyedPrice /\ p.at = clock
  BY <1>0, <1>1 DEF Api!Price, KeyedPrice
<1>3. PICK x : x = [p EXCEPT !.until = clock + PriceTtl]
  OBVIOUS
<1>4. x \in KeyedPrice /\ x.at = clock /\ x.until = clock + PriceTtl
  BY <1>0, <1>2, <1>3, ApiConstants DEF KeyedPrice
<1>5. clock < clock + PriceTtl
  BY <1>0, ApiConstants
<1>6. \A y \in priceKey' : y = x
  BY <1>1, <1>3 DEF Api!Keyed
<1>7. \A y \in priceKey' : y \in KeyedPrice /\ y.at <= clock' /\ clock' < y.until
  <2>1. clock' = clock /\ clock <= clock
    BY <1>0
  <2> QED BY <1>4, <1>5, <1>6, <2>1
<1>8. AtMostOne(priceKey')
  BY <1>6 DEF AtMostOne
<1> QED BY <1>7, <1>8 DEF PriceKeyOK, AtMostOne, KeyedPrice

LEMMA PricedKeyed ==
  ASSUME TimeOK, clock' = clock, NEW late \in 0 .. Lag, late <= clock,
         pricedKey' = Api!Keyed([Api!Stamp EXCEPT !.at = clock - late], PricedTtl)
  PROVE  PricedKeyOK'
<1>0. clock \in Nat /\ late \in Nat /\ late <= Lag
  BY TimeTyped, ApiConstants
<1>1. PICK at \in Nat : at = clock - late
  BY <1>0
<1>2. PICK p : p = [Api!Stamp EXCEPT !.at = at]
  OBVIOUS
<1>3. p \in KeyedStamp /\ p.at = at
  BY <1>0, <1>1, <1>2 DEF Api!Stamp, KeyedStamp
<1>4. PICK x : x = [p EXCEPT !.until = clock + PricedTtl]
  OBVIOUS
<1>5. x \in KeyedStamp /\ x.at = at /\ x.until = clock + PricedTtl
  BY <1>0, <1>3, <1>4, ApiConstants DEF KeyedStamp
<1>6. /\ at <= clock /\ clock < clock + PricedTtl /\ at + PricedTtl <= clock + PricedTtl
      /\ clock + PricedTtl <= at + PricedTtl + Lag
  BY <1>0, <1>1, ApiConstants
<1>7. \A y \in pricedKey' : y = x
  BY <1>1, <1>2, <1>4 DEF Api!Keyed
<1> QED BY <1>0, <1>5, <1>6, <1>7 DEF PricedKeyOK, AtMostOne, KeyedStamp

LEMMA ApiPolls ==
  ASSUME ApiInv, (\E s \in Shapes : Api!PollChain(s)) \/ Api!PollPrice \/ Api!StorePriced
  PROVE  ApiInv'
<1> USE DEF ApiInv
<1>1. TimeOK /\ clock \in Nat
  BY TimeTyped DEF KeysOK
<1>2. ASSUME NEW s \in Shapes, Api!PollChain(s) PROVE ApiInv'
  <2>1. /\ chainKey' = Api!Keyed(Api!Chain(s), ChainTtl) /\ reply' = Api!NoReply
        /\ trouble' = IF ~s.spot THEN clock + 1 ELSE trouble
        /\ UNCHANGED <<clock, priceKey, pricedKey, historyKey, hvCache, ask>>
    BY <1>2 DEF Api!PollChain, Api!Trouble
  <2>2. trouble' \in {trouble, clock + 1} /\ trouble' \in Nat
    BY <1>1, <2>1, TimeTyped
  <2>3. PICK c : c = Api!Chain(s)
    OBVIOUS
  <2>4. c \in KeyedChain /\ c.at = clock /\ c.spot = s.spot
    BY <1>1, <2>3, ShapesTyped DEF Api!Chain, KeyedChain
  <2>5. ChainKeyOK'
    BY <1>1, <2>1, <2>2, <2>3, <2>4, ChainKeyed
  <2>6. Asked(ask)'
    <3>1. PICK q : q = ask
      OBVIOUS
    <3>2. Asked(q)'
      BY <2>1, <2>2, <3>1, AskedStill
    <3> QED BY <2>1, <3>1, <3>2 DEF Asked
  <2> QED BY <2>1, <2>2, <2>5, <2>6, KeysKept, NothingSaid DEF KeysOK
<1>3. CASE Api!PollPrice \/ Api!StorePriced
  <2>1. /\ UNCHANGED <<clock, chainKey, historyKey, hvCache, ask, trouble>> /\ reply' = Api!NoReply
        /\ \/ priceKey' = Api!Keyed(Api!Price(TRUE), PriceTtl) /\ pricedKey' = pricedKey
           \/ /\ priceKey' = priceKey
              /\ \E late \in 0 .. Lag :
                   late <= clock /\ pricedKey' = Api!Keyed([Api!Stamp EXCEPT !.at = clock - late], PricedTtl)
    BY <1>3 DEF Api!PollPrice, Api!StorePriced
  <2>2. Asked(ask)'
    <3>1. PICK q : q = ask
      OBVIOUS
    <3>2. Asked(q)'
      BY <2>1, <3>1, AskedStill
    <3> QED BY <2>1, <3>1, <3>2 DEF Asked
  <2> QED BY <1>1, <2>1, <2>2, KeysKept, PriceKeyed, PricedKeyed, NothingSaid DEF KeysOK
<1> QED BY <1>2, <1>3

LEMMA ApiTick == ASSUME ApiInv, Api!Tick PROVE ApiInv'
<1> USE DEF ApiInv
<1>1. /\ clock < MaxClock /\ clock' = clock + 1 /\ (ask.pc # "idle" => clock < ask.began + Patience)
      /\ reply' = Api!NoReply /\ UNCHANGED <<hvCache, ask, trouble>>
      /\ chainKey' = {v \in chainKey : clock' < v.until} /\ priceKey' = {v \in priceKey : clock' < v.until}
      /\ pricedKey' = {v \in pricedKey : clock' < v.until} /\ historyKey' = {v \in historyKey : clock' < v.until}
  BY DEF Api!Tick, Api!Alive
<1>2. clock \in Nat /\ clock' \in Nat /\ clock <= clock' /\ trouble \in Nat /\ TimeOK'
  <2>1. clock \in Nat /\ trouble \in Nat /\ trouble <= clock + 1
    BY TimeTyped DEF KeysOK
  <2> QED BY <1>1, <2>1, ApiConstants DEF TimeOK
<1>3. \A n \in Nat : n <= clock => n <= clock'
  BY <1>1, <1>2
<1>4. ChainKeyOK'
  <2>1. \A c \in chainKey' : /\ c \in KeyedChain /\ c.at \in Nat /\ c.at <= clock /\ clock' < c.until
                             /\ c.until = c.at + ChainTtl /\ Blamed(c)
    BY <1>1 DEF KeysOK, ChainKeyOK, KeyedChain
  <2>2. AtMostOne(chainKey')
    BY <1>1 DEF KeysOK, ChainKeyOK, AtMostOne
  <2> QED BY <1>1, <1>3, <2>1, <2>2 DEF ChainKeyOK, AtMostOne, Blamed, KeyedChain
<1>5. PriceKeyOK'
  <2>1. \A c \in priceKey' : c \in KeyedPrice /\ c.at \in Nat /\ c.at <= clock /\ clock' < c.until
    BY <1>1 DEF KeysOK, PriceKeyOK, KeyedPrice
  <2>2. AtMostOne(priceKey')
    BY <1>1 DEF KeysOK, PriceKeyOK, AtMostOne
  <2> QED BY <1>3, <2>1, <2>2 DEF PriceKeyOK, AtMostOne, KeyedPrice
<1>6. PricedKeyOK'
  <2>1. \A c \in pricedKey' : /\ c \in KeyedStamp /\ c.at \in Nat /\ c.at <= clock /\ clock' < c.until
                              /\ c.at + PricedTtl <= c.until /\ c.until <= c.at + PricedTtl + Lag
    BY <1>1 DEF KeysOK, PricedKeyOK, KeyedStamp
  <2>2. AtMostOne(pricedKey')
    BY <1>1 DEF KeysOK, PricedKeyOK, AtMostOne
  <2> QED BY <1>3, <2>1, <2>2 DEF PricedKeyOK, AtMostOne, KeyedStamp
<1>7. HistoryKeyOK'
  <2>1. \A c \in historyKey' : /\ c \in KeyedCloses /\ c.at \in Nat /\ c.at <= clock /\ clock' < c.until
                               /\ c.until = c.at + HistoryTtl /\ c.known = TRUE
    BY <1>1 DEF KeysOK, HistoryKeyOK, KeyedCloses
  <2>2. AtMostOne(historyKey')
    BY <1>1 DEF KeysOK, HistoryKeyOK, AtMostOne
  <2> QED BY <1>3, <2>1, <2>2 DEF HistoryKeyOK, AtMostOne, KeyedCloses
<1>8. HvCacheOK'
  <2>1. \A h \in hvCache' : h \in Estimate /\ h.at \in Nat /\ h.at <= clock /\ h.known = TRUE
    BY <1>1 DEF KeysOK, HvCacheOK, Estimate
  <2> QED BY <1>1, <1>3, <2>1 DEF KeysOK, HvCacheOK, AtMostOne, Estimate
<1>9. Asked(ask)'
  <2>1. ask \in AskType /\ ask.began \in Nat
    BY DEF Asked, AskType
  <2>2. ask.pc # "idle" => ask.began <= clock' /\ clock' <= ask.began + Patience
    <3>1. ask.pc # "idle" => ask.began <= clock
      BY DEF Asked
    <3> QED BY <1>1, <1>2, <2>1, <3>1, ApiConstants
  <2>3. \A c \in ask.chain : c.at \in Nat /\ c.at <= clock /\ ask.began < c.at + ChainTtl /\ Blamed(c)
    BY <2>1 DEF Asked, AskType, KeyedChain
  <2>4. \A h \in ask.hv : h.at \in Nat /\ h.at <= clock /\ ask.began < h.at + HvTtl /\ (h.known = FALSE => h.at >= ask.began)
    BY <2>1 DEF Asked, AskType, Estimate
  <2>5. AtMostOne(ask.chain)
    BY DEF Asked
  <2> QED BY <1>1, <1>3, <2>1, <2>2, <2>3, <2>4, <2>5 DEF Asked, AtMostOne, Blamed, AskType, KeyedChain, KeyedPrice, Estimate
<1> QED BY <1>1, <1>2, <1>4, <1>5, <1>6, <1>7, <1>8, <1>9, NothingSaid DEF KeysOK

LEMMA ApiBegin ==
  ASSUME ApiInv, NEW kind \in Api!Endpoints, NEW spot \in BOOLEAN, Api!Begin(kind, spot) PROVE ApiInv'
<1> USE DEF ApiInv
<1>1. UNCHANGED <<clock, chainKey, priceKey, pricedKey, historyKey, hvCache, trouble>>
  BY DEF Api!Begin, Api!Keys
<1>2. PICK n : n = Api!NoRequest
  OBVIOUS
<1>3. n \in AskType /\ n.chain = {} /\ n.hv = {} /\ kind \in {"none", "ticker", "derivatives", "technicals"}
  BY <1>2 DEF Api!NoRequest, AskType, Api!Endpoints
<1>4. clock \in Nat
  BY TimeTyped DEF KeysOK
<1>5. PICK m : m = [n EXCEPT !.kind = kind, !.pc = "chain"]
  OBVIOUS
<1>6. m \in AskType /\ m.chain = {} /\ m.hv = {} /\ m.pc = "chain"
  BY <1>3, <1>5 DEF AskType
<1>7. PICK q : q = [m EXCEPT !.began = clock, !.spot = spot]
  OBVIOUS
<1>8. q \in AskType /\ q.chain = {} /\ q.hv = {} /\ q.pc = "chain" /\ q.began = clock
  BY <1>4, <1>6, <1>7 DEF AskType
<1>9. ask' = q /\ reply' = Api!NoReply
  BY <1>2, <1>5, <1>7 DEF Api!Begin
<1>10. Asked(q)
  BY <1>4, <1>8, ApiConstants DEF Asked, AtMostOne
<1>11. Api!Go(q)
  BY <1>9 DEF Api!Go
<1> QED BY <1>1, <1>10, <1>11, AskGoes, KeysKept DEF KeysOK

(* What a request reads on its way.                                        *)
LEMMA AskedNext ==
  ASSUME KeysOK, Asked(ask), ask.pc # "idle", NEW q \in AskType, q.began = ask.began,
         q.chain = ask.chain \/ q.chain = chainKey,
         q.hv = ask.hv \/ \A h \in q.hv : h.at <= clock /\ clock < h.at + HvTtl /\ (h.known = FALSE => h.at = clock)
  PROVE  Asked(q)
<1>1. clock \in Nat /\ ask.began \in Nat /\ ask.began <= clock /\ clock <= ask.began + Patience
  BY TimeTyped DEF KeysOK, Asked, AskType
<1>2. AtMostOne(q.chain) /\ \A c \in q.chain : c.at <= clock /\ ask.began < c.at + ChainTtl /\ Blamed(c)
  <2>1. CASE q.chain = ask.chain
    BY <2>1 DEF Asked
  <2>2. CASE q.chain = chainKey
    <3>1. \A c \in chainKey : c.at \in Nat /\ c.at <= clock /\ clock < c.at + ChainTtl /\ Blamed(c)
      BY DEF KeysOK, ChainKeyOK, KeyedChain
    <3>2. AtMostOne(chainKey)
      BY DEF KeysOK, ChainKeyOK
    <3>3. \A c \in chainKey : ask.began < c.at + ChainTtl
      <4> SUFFICES ASSUME NEW c \in chainKey PROVE ask.began < c.at + ChainTtl
        OBVIOUS
      <4>1. c.at \in Nat /\ clock < c.at + ChainTtl
        BY <3>1
      <4> QED BY <1>1, <4>1, ApiConstants
    <3> QED BY <2>2, <3>1, <3>2, <3>3
  <2> QED BY <2>1, <2>2
<1>3. \A h \in q.hv : h.at <= clock /\ ask.began < h.at + HvTtl /\ (h.known = FALSE => h.at >= ask.began)
  <2>1. CASE q.hv = ask.hv
    BY <2>1 DEF Asked
  <2>2. CASE \A h \in q.hv : h.at <= clock /\ clock < h.at + HvTtl /\ (h.known = FALSE => h.at = clock)
    <3> SUFFICES ASSUME NEW h \in q.hv
                 PROVE  h.at <= clock /\ ask.began < h.at + HvTtl /\ (h.known = FALSE => h.at >= ask.began)
      OBVIOUS
    <3>1. h.at \in Nat
      BY DEF AskType, Estimate
    <3> QED BY <1>1, <2>2, <3>1, ApiConstants
  <2> QED BY <2>1, <2>2
<1> QED BY <1>1, <1>2, <1>3 DEF Asked

(* A step that only moves the request.                                     *)
LEMMA ApiMoves ==
  ASSUME ApiInv, ask.pc # "idle", NEW q \in AskType, q.began = ask.began,
         q.chain = ask.chain \/ q.chain = chainKey, q.hv = ask.hv, Api!Go(q),
         UNCHANGED <<clock, chainKey, priceKey, pricedKey, historyKey, hvCache, trouble>>
  PROVE  ApiInv'
<1>1. Asked(q)
  BY AskedNext DEF ApiInv
<1>2. Asked(ask)' /\ ReplyOK'
  BY <1>1, AskGoes DEF ApiInv
<1> QED BY <1>2, KeysKept DEF ApiInv, KeysOK

LEMMA ApiRefuses ==
  ASSUME ApiInv, ask.pc # "idle", NEW code \in {422, 500}, Api!Refuse(code),
         UNCHANGED <<clock, chainKey, priceKey, pricedKey, historyKey, hvCache, trouble>>
  PROVE  ApiInv'
<1>1. Asked(ask)' /\ ReplyOK'
  BY RefusalIsOfNow DEF ApiInv
<1> QED BY <1>1, KeysKept DEF ApiInv, KeysOK

LEMMA ChainOfKey == ApiInv => chainKey \in SUBSET KeyedChain /\ priceKey \in SUBSET KeyedPrice /\ hvCache \in SUBSET Estimate
BY DEF ApiInv, KeysOK, ChainKeyOK, PriceKeyOK, HvCacheOK

LEMMA ApiReadChain == ASSUME ApiInv, Api!ReadChain PROVE ApiInv'
<1> USE DEF ApiInv
<1>1. ask.pc = "chain" /\ ask \in AskType
      /\ UNCHANGED <<clock, chainKey, priceKey, pricedKey, historyKey, hvCache, trouble>>
  BY DEF Api!ReadChain, Api!Keys, Asked
<1>2. ASSUME NEW step \in {"price", "priced"}, Api!Go([ask EXCEPT !.pc = step, !.chain = chainKey]) PROVE ApiInv'
  <2>1. PICK q : q = [ask EXCEPT !.pc = step, !.chain = chainKey]
    OBVIOUS
  <2>2. q \in AskType /\ q.began = ask.began /\ q.chain = chainKey /\ q.hv = ask.hv
    BY <1>1, <2>1, ChainOfKey DEF AskType
  <2> QED BY <1>1, <1>2, <2>1, <2>2, ApiMoves
<1>3. ASSUME NEW step \in {"wait", "history"}, Api!Go([ask EXCEPT !.pc = step]) PROVE ApiInv'
  <2>1. PICK q : q = [ask EXCEPT !.pc = step]
    OBVIOUS
  <2>2. q \in AskType /\ q.began = ask.began /\ q.chain = ask.chain /\ q.hv = ask.hv
    BY <1>1, <2>1 DEF AskType
  <2> QED BY <1>1, <1>3, <2>1, <2>2, ApiMoves
<1>4. ASSUME NEW code \in {422, 500}, Api!Refuse(code) PROVE ApiInv'
  BY <1>1, <1>4, ApiRefuses
<1> QED BY <1>2, <1>3, <1>4 DEF Api!ReadChain

LEMMA ApiReadPrice == ASSUME ApiInv, Api!ReadPrice PROVE ApiInv'
<1> USE DEF ApiInv
<1>1. ask.pc = "price" /\ ask \in AskType
      /\ UNCHANGED <<clock, chainKey, priceKey, pricedKey, historyKey, hvCache, trouble>>
  BY DEF Api!ReadPrice, Api!Keys, Asked
<1>2. PICK p \in {priceKey, {}}, step \in {"wait", "hv"} : Api!Go([ask EXCEPT !.pc = step, !.price = p])
  BY DEF Api!ReadPrice
<1>3. PICK q : q = [ask EXCEPT !.pc = step, !.price = p]
  OBVIOUS
<1>4. p \in SUBSET KeyedPrice
  BY ChainOfKey
<1>5. q \in AskType /\ q.began = ask.began /\ q.chain = ask.chain /\ q.hv = ask.hv
  BY <1>1, <1>3, <1>4 DEF AskType
<1> QED BY <1>1, <1>2, <1>3, <1>5, ApiMoves

LEMMA ApiWait == ASSUME ApiInv, Api!Wait PROVE ApiInv'
<1> USE DEF ApiInv
<1>1. ask.pc = "wait" /\ ask \in AskType
      /\ UNCHANGED <<clock, chainKey, priceKey, pricedKey, historyKey, hvCache, trouble>>
  BY DEF Api!Wait, Api!Keys, Asked
<1>2. CASE Api!Go([ask EXCEPT !.pc = "hv", !.chain = chainKey])
  <2>1. PICK q : q = [ask EXCEPT !.pc = "hv", !.chain = chainKey]
    OBVIOUS
  <2>2. q \in AskType /\ q.began = ask.began /\ q.chain = chainKey /\ q.hv = ask.hv
    BY <1>1, <2>1, ChainOfKey DEF AskType
  <2> QED BY <1>1, <1>2, <2>1, <2>2, ApiMoves
<1>3. CASE Api!Go([ask EXCEPT !.pc = "fetch"])
  <2>1. PICK q : q = [ask EXCEPT !.pc = "fetch"]
    OBVIOUS
  <2>2. q \in AskType /\ q.began = ask.began /\ q.chain = ask.chain /\ q.hv = ask.hv
    BY <1>1, <2>1 DEF AskType
  <2> QED BY <1>1, <1>3, <2>1, <2>2, ApiMoves
<1> QED BY <1>2, <1>3 DEF Api!Wait

\* A chain that was fetched just now, with the blame for a missing spot.
JustFetched(c) ==
  c \in KeyedChain /\ c.at = clock /\ trouble' = IF c.spot = FALSE THEN clock + 1 ELSE trouble

LEMMA FetchedTyped ==
  ASSUME ApiInv, NEW p, p = {} \/ p = {Api!Price(TRUE)},
         NEW c \in {[Api!Chain(s) EXCEPT !.spot = @ \/ p # {}] : s \in Shapes} \cup {Api!QuoteOnly(TRUE) : v \in p},
         Api!Trouble(~c.spot)
  PROVE  JustFetched(c) /\ p \in SUBSET KeyedPrice
<1>1. clock \in Nat
  BY TimeTyped DEF ApiInv, KeysOK
<1>2. c \in KeyedChain /\ c.at = clock
  <2>1. ASSUME NEW s \in Shapes, c = [Api!Chain(s) EXCEPT !.spot = @ \/ p # {}] PROVE c \in KeyedChain /\ c.at = clock
    <3>1. PICK x : x = Api!Chain(s)
      OBVIOUS
    <3>2. x \in KeyedChain /\ x.at = clock
      BY <1>1, <3>1, ShapesTyped DEF Api!Chain, KeyedChain
    <3>3. PICK b \in BOOLEAN : b = (x.spot \/ p # {})
      BY <3>2 DEF KeyedChain
    <3>4. c = [x EXCEPT !.spot = b]
      BY <2>1, <3>1, <3>3
    <3> QED BY <3>2, <3>4 DEF KeyedChain
  <2>2. CASE c = Api!QuoteOnly(TRUE)
    BY <1>1, <2>2 DEF Api!QuoteOnly, KeyedChain
  <2> QED BY <2>1, <2>2
<1>3. trouble' = IF c.spot = FALSE THEN clock + 1 ELSE trouble
  <2>1. c.spot \in BOOLEAN
    BY <1>2 DEF KeyedChain
  <2> QED BY <2>1 DEF Api!Trouble
<1>4. Api!Price(TRUE) \in KeyedPrice
  BY <1>1 DEF Api!Price, KeyedPrice
<1> QED BY <1>2, <1>3, <1>4 DEF JustFetched

LEMMA ApiFetch == ASSUME ApiInv, Api!Fetch PROVE ApiInv'
<1> USE DEF ApiInv
<1>1. ask.pc = "fetch" /\ ask \in AskType /\ clock' = clock /\ hvCache' = hvCache
  BY DEF Api!Fetch, Asked
<1>2. clock \in Nat /\ trouble \in Nat /\ TimeOK
  BY TimeTyped DEF KeysOK
<1>3. CASE Api!Refuse(503) /\ UNCHANGED Api!Keys /\ Api!Trouble(TRUE)
  <2>1. trouble' = clock + 1 /\ UNCHANGED <<chainKey, priceKey, pricedKey, historyKey>>
    BY <1>3 DEF Api!Trouble, Api!Keys
  <2>2. trouble' > 0 /\ clock < trouble' + ChainTtl + Patience
    BY <1>2, <2>1, ApiConstants
  <2>3. Asked(ask)' /\ ReplyOK'
    BY <1>1, <1>3, <2>1, <2>2, RefusalIsOfNow
  <2> QED BY <1>1, <2>1, <2>3, KeysKept DEF KeysOK
<1>4. ASSUME NEW p, p = {} \/ p = {Api!Price(TRUE)},
             NEW c \in {[Api!Chain(s) EXCEPT !.spot = @ \/ p # {}] : s \in Shapes} \cup {Api!QuoteOnly(TRUE) : v \in p},
             Api!Go([ask EXCEPT !.pc = "hv", !.chain = {c}, !.price = IF p = {} THEN @ ELSE p]),
             Api!StoreFetched(c, p), Api!Trouble(~c.spot)
      PROVE  ApiInv'
  <2>1. c \in KeyedChain /\ c.at = clock /\ trouble' = (IF c.spot = FALSE THEN clock + 1 ELSE trouble) /\ p \in SUBSET KeyedPrice
    BY <1>4, FetchedTyped DEF JustFetched
  <2>2. trouble' \in {trouble, clock + 1} /\ trouble' \in Nat
    BY <1>2, <2>1
  <2>3. PICK price \in SUBSET KeyedPrice : price = IF p = {} THEN ask.price ELSE p
    BY <1>1, <2>1 DEF AskType
  <2>4. PICK m : m = [ask EXCEPT !.pc = "hv", !.chain = {c}]
    OBVIOUS
  <2>5. m \in AskType /\ m.pc = "hv" /\ m.began = ask.began /\ m.chain = {c} /\ m.hv = ask.hv /\ m.price = ask.price
    BY <1>1, <2>1, <2>4 DEF AskType
  <2>6. PICK q : q = [m EXCEPT !.price = price]
    OBVIOUS
  <2>7. q \in AskType /\ q.pc = "hv" /\ q.began = ask.began /\ q.chain = {c} /\ q.hv = ask.hv
    BY <2>5, <2>6 DEF AskType
  <2>8. Api!Go(q)
    <3>1. q = [ask EXCEPT !.pc = "hv", !.chain = {c}, !.price = price]
      BY <2>4, <2>6
    <3> QED BY <1>4, <2>3, <3>1
  <2>9. Asked(ask)
    OBVIOUS
  <2>10. Asked(q)'
    <3>1. /\ ask.began \in Nat /\ ask.began <= clock /\ clock <= ask.began + Patience
          /\ \A h \in ask.hv : h.at <= clock /\ ask.began < h.at + HvTtl /\ (h.known = FALSE => h.at >= ask.began)
      BY <1>1 DEF Asked, AskType
    <3>2. c.at <= clock /\ ask.began < c.at + ChainTtl /\ Blamed(c)'
      BY <1>2, <2>1, <3>1, ApiConstants DEF Blamed
    <3>3. q.pc # "idle" => q.began <= clock' /\ clock' <= q.began + Patience
      BY <1>1, <2>7, <3>1
    <3>4. AtMostOne(q.chain) /\ \A x \in q.chain : x = c
      BY <2>7 DEF AtMostOne
    <3>5. \A x \in q.chain : x.at <= clock' /\ q.began < x.at + ChainTtl /\ Blamed(x)'
      BY <1>1, <2>7, <3>2, <3>4
    <3>6. \A h \in q.hv : h.at <= clock' /\ q.began < h.at + HvTtl /\ (h.known = FALSE => h.at >= q.began)
      BY <1>1, <2>7, <3>1
    <3> QED BY <2>7, <3>3, <3>4, <3>5, <3>6 DEF Asked, AtMostOne, AskType, KeyedChain, KeyedPrice, Estimate
  <2>11. Asked(ask)' /\ ReplyOK'
    <3>1. ask' = q /\ reply' = Api!NoReply
      BY <2>8 DEF Api!Go
    <3> QED BY <2>10, <3>1, NothingSaid DEF Asked
  <2>12. KeysOK'
    <3>0. KeysOK /\ trouble' \in {trouble, clock + 1}
      BY <2>2
    <3>1. CASE UNCHANGED Api!Keys
      BY <1>1, <3>0, <3>1, KeysKept DEF KeysOK, Api!Keys
    <3>2. CASE chainKey' = Api!Keyed(c, ChainTtl) /\ UNCHANGED <<pricedKey, historyKey>>
               /\ (priceKey' = priceKey \/ \E v \in p : priceKey' = Api!Keyed(v, PriceTtl))
      <4>1. ChainKeyOK'
        BY <1>1, <1>2, <2>1, <2>2, <3>2, ChainKeyed
      <4>2. PriceKeyOK'
        <5>1. CASE priceKey' = priceKey
          BY <1>1, <3>0, <5>1, KeysKept
        <5>2. CASE \E v \in p : priceKey' = Api!Keyed(v, PriceTtl)
          BY <1>1, <1>2, <1>4, <5>2, PriceKeyed
        <5> QED BY <3>2, <5>1, <5>2
      <4> QED BY <1>1, <3>0, <3>2, <4>1, <4>2, KeysKept DEF KeysOK
    <3> QED BY <1>4, <3>1, <3>2 DEF Api!StoreFetched
  <2> QED BY <2>11, <2>12
<1>5. CASE \E p \in {{}, {Api!Price(TRUE)}} :
             \E c \in {[Api!Chain(s) EXCEPT !.spot = @ \/ p # {}] : s \in Shapes} \cup {Api!QuoteOnly(TRUE) : v \in p} :
               /\ Api!Go([ask EXCEPT !.pc = "hv", !.chain = {c}, !.price = IF p = {} THEN @ ELSE p])
               /\ Api!StoreFetched(c, p)
               /\ Api!Trouble(~c.spot)
  BY <1>4, <1>5
<1> QED BY <1>3, <1>5 DEF Api!Fetch

LEMMA ApiVolatility == ASSUME ApiInv, Api!Volatility PROVE ApiInv'
<1> USE DEF ApiInv
<1>1. ask.pc = "hv" /\ ask \in AskType
      /\ UNCHANGED <<clock, chainKey, priceKey, pricedKey, historyKey, trouble>>
  BY DEF Api!Volatility, Api!Keys, Asked
<1>2. clock \in Nat /\ clock < clock + HvTtl
  BY TimeTyped, ApiConstants DEF KeysOK
<1>3. ASSUME NEW v \in SUBSET Estimate, Api!Go([ask EXCEPT !.pc = "answer", !.hv = v]), HvCacheOK',
             \A h \in v : h.at <= clock /\ clock < h.at + HvTtl /\ (h.known = FALSE => h.at = clock)
      PROVE  ApiInv'
  <2>1. PICK q : q = [ask EXCEPT !.pc = "answer", !.hv = v]
    OBVIOUS
  <2>2. q \in AskType /\ q.began = ask.began /\ q.chain = ask.chain /\ q.hv = v
    BY <1>1, <2>1 DEF AskType
  <2>3. Asked(q)
    BY <1>1, <1>3, <2>2, AskedNext
  <2>4. Asked(ask)' /\ ReplyOK'
    BY <1>1, <1>3, <2>1, <2>3, AskGoes
  <2> QED BY <1>1, <1>3, <2>4, KeysKept DEF KeysOK
<1>4. ASSUME NEW h \in hvCache, clock - h.at < HvTtl, Api!Go([ask EXCEPT !.pc = "answer", !.hv = hvCache]), UNCHANGED hvCache
      PROVE  ApiInv'
  <2>1. h \in Estimate /\ h.at \in Nat /\ h.at <= clock /\ h.known = TRUE /\ \A x \in hvCache : x = h
    BY DEF KeysOK, HvCacheOK, Estimate, AtMostOne
  <2>2. clock < h.at + HvTtl
    BY <1>2, <1>4, <2>1, ApiConstants
  <2>3. \A x \in hvCache : x.at <= clock /\ clock < x.at + HvTtl /\ (x.known = FALSE => x.at = clock)
    BY <2>1, <2>2
  <2>4. HvCacheOK' /\ hvCache \in SUBSET Estimate
    BY <1>1, <1>4, KeysKept, ChainOfKey
  <2> QED BY <1>3, <1>4, <2>3, <2>4
<1>5. ASSUME NEW found \in BOOLEAN, NEW v, v = {[at |-> clock, known |-> found]},
             Api!Go([ask EXCEPT !.pc = "answer", !.hv = v]), hvCache' = IF found THEN v ELSE hvCache
      PROVE  ApiInv'
  <2>1. PICK e : e = [at |-> clock, known |-> found]
    OBVIOUS
  <2>2. e \in Estimate /\ e.at = clock /\ e.known = found
    BY <1>2, <2>1 DEF Estimate
  <2>3. \A h \in v : h = e
    BY <1>5, <2>1
  <2>4. v \in SUBSET Estimate /\ \A h \in v : h.at <= clock /\ clock < h.at + HvTtl /\ (h.known = FALSE => h.at = clock)
    BY <1>2, <2>2, <2>3
  <2>5. HvCacheOK'
    <3>1. CASE found = TRUE
      <4>1. hvCache' = v
        BY <1>5, <3>1
      <4>2. e \in Estimate /\ e.at <= clock' /\ e.known = TRUE
        BY <1>1, <1>2, <2>2, <3>1
      <4>3. \A h \in hvCache' : h = e
        BY <2>3, <4>1
      <4>4. AtMostOne(hvCache') /\ \A h \in hvCache' : h \in Estimate /\ h.at <= clock' /\ h.known = TRUE
        BY <4>2, <4>3 DEF AtMostOne
      <4> QED BY <4>4 DEF HvCacheOK, AtMostOne, Estimate
    <3>2. CASE found = FALSE
      <4>1. hvCache' = hvCache
        BY <1>5, <3>2
      <4> QED BY <1>1, <4>1, KeysKept
    <3> QED BY <3>1, <3>2
  <2> QED BY <1>3, <1>5, <2>4, <2>5
<1> QED BY <1>4, <1>5 DEF Api!Volatility

LEMMA ApiAnswers ==
  ASSUME ApiInv, ask.pc # "idle", NEW r, Sayable(r), r.code # 503, Api!Answer(r),
         UNCHANGED <<clock, chainKey, priceKey, pricedKey, hvCache, trouble>>, HistoryKeyOK'
  PROVE  ApiInv'
<1>1. Asked(ask)' /\ ReplyOK'
  BY AnswerIsOfNow DEF ApiInv
<1> QED BY <1>1, KeysKept DEF ApiInv, KeysOK

LEMMA ApiAnswerTicker == ASSUME ApiInv, Api!AnswerTicker PROVE ApiInv'
<1> USE DEF ApiInv
<1>1. ask.pc = "answer" /\ ask \in AskType
      /\ UNCHANGED <<clock, chainKey, priceKey, pricedKey, historyKey, hvCache, trouble>>
  BY DEF Api!AnswerTicker, Api!Keys, Asked
<1>2. clock \in Nat /\ trouble \in Nat
  BY TimeTyped DEF KeysOK
<1>3. ASSUME NEW c \in ask.chain, c.spot # TRUE, Api!Refuse(503) PROVE ApiInv'
  <2>1. c.spot = FALSE /\ c.at \in Nat
    BY <1>1, <1>3 DEF AskType, KeyedChain
  <2>2. c.at < trouble /\ ask.began < c.at + ChainTtl /\ ask.began \in Nat /\ clock <= ask.began + Patience
    BY <1>1, <2>1 DEF Asked, AskType, Blamed
  <2>3. trouble > 0 /\ clock < trouble + ChainTtl + Patience
    BY <1>2, <2>1, <2>2, ApiConstants
  <2>4. Asked(ask)' /\ ReplyOK'
    BY <1>1, <1>3, <2>3, RefusalIsOfNow
  <2> QED BY <1>1, <2>4, KeysKept DEF KeysOK
<1>4. ASSUME NEW c \in ask.chain,
             Api!Answer([Api!NoReply EXCEPT !.code = 200, !.hv = ask.hv, !.contract = Api!Contract(c)])
      PROVE  ApiInv'
  <2>1. PICK n : n = Api!NoReply
    OBVIOUS
  <2>2. n \in ReplyType /\ n.priced = {} /\ n.closes = {}
    BY <2>1 DEF Api!NoReply, ReplyType
  <2>3. PICK m : m = [n EXCEPT !.code = 200, !.hv = ask.hv]
    OBVIOUS
  <2>4. m \in ReplyType /\ m.priced = {} /\ m.closes = {} /\ m.hv = ask.hv /\ m.code = 200
    <3>1. PICK l : l = [n EXCEPT !.code = 200]
      OBVIOUS
    <3>2. l \in ReplyType /\ l.priced = {} /\ l.closes = {} /\ l.code = 200
      BY <2>2, <3>1 DEF ReplyType
    <3>3. m = [l EXCEPT !.hv = ask.hv] /\ ask.hv \in SUBSET Estimate
      BY <1>1, <2>3, <3>1 DEF AskType
    <3> QED BY <3>2, <3>3 DEF ReplyType
  <2>5. PICK k : k = Api!Contract(c)
    OBVIOUS
  <2>6. k \in SUBSET Nat /\ \A e \in k : e \in Api!PricingExpiry(Api!ExpiriesOf(c))
    <3>1. c.calls \in SUBSET Nat
      BY <1>1 DEF AskType, KeyedChain
    <3> QED BY <2>5, <3>1 DEF Api!Contract
  <2>7. PICK r : r = [m EXCEPT !.contract = k]
    OBVIOUS
  <2>8. /\ r \in ReplyType /\ r.priced = {} /\ r.closes = {} /\ r.hv = ask.hv /\ r.code = 200 /\ r.contract = k
    BY <2>4, <2>6, <2>7 DEF ReplyType
  <2>9. Sayable(r)
    BY <2>6, <2>8 DEF Sayable
  <2>10. Api!Answer(r)
    <3>1. r = [Api!NoReply EXCEPT !.code = 200, !.hv = ask.hv, !.contract = Api!Contract(c)]
      BY <2>1, <2>3, <2>5, <2>7
    <3> QED BY <1>4, <3>1
  <2>11. HistoryKeyOK'
    BY <1>1, KeysKept
  <2> QED BY <1>1, <2>8, <2>9, <2>10, <2>11, ApiAnswers
<1>5. PICK c \in ask.chain :
        \/ c.spot # TRUE /\ Api!Refuse(503)
        \/ Api!Answer([Api!NoReply EXCEPT !.code = 200, !.hv = ask.hv, !.contract = Api!Contract(c)])
  BY DEF Api!AnswerTicker
<1> QED BY <1>3, <1>4, <1>5

LEMMA ApiAnswerDerivatives == ASSUME ApiInv, Api!AnswerDerivatives PROVE ApiInv'
<1> USE DEF ApiInv
<1>1. ask.pc = "priced" /\ ask \in AskType
      /\ UNCHANGED <<clock, chainKey, priceKey, pricedKey, historyKey, hvCache, trouble>>
  BY DEF Api!AnswerDerivatives, Api!Keys, Asked
<1>2. CASE Api!Refuse(500)
  BY <1>1, <1>2, ApiRefuses
<1> DEFINE shown == IF pricedKey # {} THEN pricedKey ELSE ask.chain
<1>3. CASE Api!Answer([Api!NoReply EXCEPT !.code = IF ask.chain # {} /\ pricedKey # {} THEN 200 ELSE 202,
                                           !.priced = pricedKey,
                                           !.stale = \A v \in shown : clock - v.at > PricedTtl])
  <2>1. PICK n : n = Api!NoReply
    OBVIOUS
  <2>2. n \in ReplyType /\ n.hv = {} /\ n.closes = {} /\ n.contract = {}
    BY <2>1 DEF Api!NoReply, ReplyType
  <2>3. PICK code \in {200, 202} : code = IF ask.chain # {} /\ pricedKey # {} THEN 200 ELSE 202
    OBVIOUS
  <2>4. PICK stale \in BOOLEAN : stale = \A v \in shown : clock - v.at > PricedTtl
    OBVIOUS
  <2>5. PICK l : l = [n EXCEPT !.code = code]
    OBVIOUS
  <2>6. l \in ReplyType /\ l.hv = {} /\ l.closes = {} /\ l.contract = {} /\ l.code = code
    BY <2>2, <2>5 DEF ReplyType
  <2>7. PICK m : m = [l EXCEPT !.priced = pricedKey]
    OBVIOUS
  <2>8. pricedKey \in SUBSET KeyedStamp
    BY DEF KeysOK, PricedKeyOK
  <2>9. m \in ReplyType /\ m.hv = {} /\ m.closes = {} /\ m.contract = {} /\ m.code = code /\ m.priced = pricedKey
    BY <2>6, <2>7, <2>8 DEF ReplyType
  <2>10. PICK r : r = [m EXCEPT !.stale = stale]
    OBVIOUS
  <2>11. /\ r \in ReplyType /\ r.hv = {} /\ r.closes = {} /\ r.contract = {} /\ r.code = code /\ r.priced = pricedKey
         /\ r.stale = stale
    BY <2>9, <2>10 DEF ReplyType
  <2>12. clock \in Nat /\ \A v \in pricedKey :
           /\ v.at \in Nat /\ v.until \in Nat /\ v.at <= clock /\ clock < v.until
           /\ v.until <= v.at + PricedTtl + Lag
    BY TimeTyped DEF KeysOK, PricedKeyOK, KeyedStamp
  <2>13. \A v \in pricedKey : /\ clock < v.at + PricedTtl + Lag
                              /\ stale = TRUE => v.until > v.at + PricedTtl
    <3> SUFFICES ASSUME NEW v \in pricedKey
                 PROVE  /\ clock < v.at + PricedTtl + Lag
                        /\ clock - v.at > PricedTtl => v.until > v.at + PricedTtl
      BY <2>4
    <3> QED BY <2>12, ApiConstants
  <2>14. Sayable(r)
    BY <2>11, <2>12, <2>13 DEF Sayable
  <2>15. Api!Answer(r)
    <3>1. r = [Api!NoReply EXCEPT !.code = code, !.priced = pricedKey, !.stale = stale]
      BY <2>1, <2>5, <2>7, <2>10
    <3> QED BY <1>3, <2>3, <2>4, <3>1
  <2>16. HistoryKeyOK' /\ r.code # 503
    BY <1>1, <2>11, KeysKept
  <2> QED BY <1>1, <2>14, <2>15, <2>16, ApiAnswers
<1> QED BY <1>2, <1>3 DEF Api!AnswerDerivatives

(* The answer that shows closes, of the cache or of this request.          *)
LEMMA ClosesAnswered ==
  ASSUME ApiInv, ask.pc # "idle", NEW at \in Nat, NEW found \in BOOLEAN,
         clock < at + HistoryTtl, found = TRUE \/ at = clock,
         Api!Answer([Api!NoReply EXCEPT !.code = 200, !.closes = {[at |-> at, known |-> found]}]),
         UNCHANGED <<clock, chainKey, priceKey, pricedKey, hvCache, trouble>>, HistoryKeyOK'
  PROVE  ApiInv'
<1>1. PICK n : n = Api!NoReply
  OBVIOUS
<1>2. n \in ReplyType /\ n.hv = {} /\ n.priced = {} /\ n.contract = {}
  BY <1>1 DEF Api!NoReply, ReplyType
<1>3. PICK e : e = [at |-> at, known |-> found]
  OBVIOUS
<1>4. e \in Estimate /\ e.at = at /\ e.known = found
  BY <1>3 DEF Estimate
<1>5. PICK l : l = [n EXCEPT !.code = 200]
  OBVIOUS
<1>6. l \in ReplyType /\ l.hv = {} /\ l.priced = {} /\ l.contract = {} /\ l.code = 200
  BY <1>2, <1>5 DEF ReplyType
<1>7. PICK r : r = [l EXCEPT !.closes = {e}]
  OBVIOUS
<1>8. r \in ReplyType /\ r.hv = {} /\ r.priced = {} /\ r.contract = {} /\ r.code = 200 /\ r.closes = {e}
  BY <1>4, <1>6, <1>7 DEF ReplyType
<1>9. ask.began \in Nat /\ ask.began <= clock /\ clock \in Nat
  BY TimeTyped DEF ApiInv, KeysOK, Asked, AskType
<1>10. e.known = FALSE => e.at >= ask.began
  BY <1>4, <1>9
<1>11. \A v \in r.closes : clock < v.at + HistoryTtl /\ (v.known = FALSE => v.at >= ask.began)
  <2>1. \A v \in r.closes : v = e
    BY <1>8
  <2> QED BY <1>4, <1>10, <2>1
<1>12. Sayable(r)
  BY <1>8, <1>11 DEF Sayable
<1>13. Api!Answer(r)
  <2>1. r = [Api!NoReply EXCEPT !.code = 200, !.closes = {[at |-> at, known |-> found]}]
    BY <1>1, <1>3, <1>5, <1>7
  <2> QED BY <2>1
<1> QED BY <1>8, <1>12, <1>13, ApiAnswers

LEMMA ApiReadHistory == ASSUME ApiInv, Api!ReadHistory PROVE ApiInv'
<1> USE DEF ApiInv
<1>1. ask.pc = "history" /\ ask \in AskType
      /\ UNCHANGED <<clock, chainKey, priceKey, pricedKey, historyKey, hvCache, trouble>>
  BY DEF Api!ReadHistory, Api!Keys, Asked
<1>2. ASSUME NEW v \in historyKey,
             Api!Answer([Api!NoReply EXCEPT !.code = 200, !.closes = {[at |-> v.at, known |-> v.known]}])
      PROVE  ApiInv'
  <2>1. PICK at, found : at = v.at /\ found = v.known
    OBVIOUS
  <2>2. at \in Nat /\ found = TRUE /\ clock < at + HistoryTtl
    BY <2>1 DEF KeysOK, HistoryKeyOK, KeyedCloses
  <2>3. HistoryKeyOK'
    BY <1>1, KeysKept
  <2> QED BY <1>1, <1>2, <2>1, <2>2, <2>3, ClosesAnswered
<1>3. CASE Api!Go([ask EXCEPT !.pc = "download"])
  <2>1. PICK q : q = [ask EXCEPT !.pc = "download"]
    OBVIOUS
  <2>2. q \in AskType /\ q.began = ask.began /\ q.chain = ask.chain /\ q.hv = ask.hv
    BY <1>1, <2>1 DEF AskType
  <2> QED BY <1>1, <1>3, <2>1, <2>2, ApiMoves
<1> QED BY <1>2, <1>3 DEF Api!ReadHistory

LEMMA ApiDownload == ASSUME ApiInv, Api!Download PROVE ApiInv'
<1> USE DEF ApiInv
<1>1. ask.pc = "download" /\ UNCHANGED <<clock, chainKey, priceKey, pricedKey, hvCache, trouble>>
  BY DEF Api!Download
<1>2. clock \in Nat /\ clock < clock + HistoryTtl
  BY TimeTyped, ApiConstants DEF KeysOK
<1>3. PICK found \in BOOLEAN :
        /\ Api!Answer([Api!NoReply EXCEPT !.code = 200, !.closes = {[at |-> clock, known |-> found]}])
        /\ \/ UNCHANGED historyKey
           \/ found /\ historyKey' = {[at |-> clock, until |-> clock + HistoryTtl, known |-> TRUE]}
  BY DEF Api!Download
<1>4. HistoryKeyOK'
  <2>1. CASE UNCHANGED historyKey
    BY <1>1, <2>1, KeysKept
  <2>2. CASE historyKey' = {[at |-> clock, until |-> clock + HistoryTtl, known |-> TRUE]}
    <3>1. PICK x : x = [at |-> clock, until |-> clock + HistoryTtl, known |-> TRUE]
      OBVIOUS
    <3>2. x \in KeyedCloses /\ x.at = clock /\ x.until = x.at + HistoryTtl /\ x.known = TRUE
      BY <1>2, <3>1, ApiConstants DEF KeyedCloses
    <3>3. \A y \in historyKey' : y = x
      BY <2>2, <3>1
    <3>4. x.at <= clock' /\ clock' < x.until
      BY <1>1, <1>2, <3>2
    <3>5. AtMostOne(historyKey')
      BY <3>3 DEF AtMostOne
    <3>6. \A y \in historyKey' : y \in KeyedCloses /\ y.at <= clock' /\ clock' < y.until /\ y.until = y.at + HistoryTtl
                                /\ y.known = TRUE
      BY <3>2, <3>3, <3>4
    <3> QED BY <3>5, <3>6 DEF HistoryKeyOK, AtMostOne, KeyedCloses
  <2> QED BY <1>3, <2>1, <2>2
<1>5. PICK at : at = clock
  OBVIOUS
<1>6. Api!Answer([Api!NoReply EXCEPT !.code = 200, !.closes = {[at |-> at, known |-> found]}])
  BY <1>3, <1>5
<1> QED BY <1>1, <1>2, <1>4, <1>5, <1>6, ClosesAnswered

LEMMA ApiStep ==
  ASSUME ApiInv, UNCHANGED apiVars \/ \E kind \in Api!Endpoints : Api!Serve(kind) PROVE ApiInv'
<1>1. CASE UNCHANGED apiVars
  <2>1. UNCHANGED <<clock, chainKey, priceKey, pricedKey, historyKey, hvCache, ask, reply, trouble>>
    BY <1>1 DEF apiVars
  <2>2. KeysOK'
    BY <2>1, KeysKept DEF ApiInv, KeysOK
  <2>3. Asked(ask)'
    <3>1. PICK q : q = ask
      OBVIOUS
    <3>2. Asked(q)'
      BY <2>1, <3>1, AskedStill DEF ApiInv
    <3> QED BY <2>1, <3>1, <3>2 DEF Asked
  <2>4. ReplyOK'
    BY <2>1 DEF ApiInv, ReplyOK, Api!AnswersAreOfNow, Api!AnswersAreRecent, Api!Within, Api!ContractIsNearest,
         Api!FailuresAreNotKept
  <2> QED BY <2>2, <2>3, <2>4 DEF ApiInv
<1>2. ASSUME NEW kind \in Api!Endpoints, Api!Serve(kind) PROVE ApiInv'
  BY <1>2, ApiPolls, ApiTick, ApiBegin, ApiReadChain, ApiReadPrice, ApiWait, ApiFetch, ApiVolatility, ApiAnswerTicker,
     ApiAnswerDerivatives, ApiReadHistory, ApiDownload DEF Api!Serve
<1> QED BY <1>1, <1>2

LEMMA ApiInitially == Api!Init => ApiInv
<1> SUFFICES ASSUME Api!Init PROVE ApiInv
  OBVIOUS
<1>1. /\ clock = 0 /\ chainKey = {} /\ priceKey = {} /\ pricedKey = {} /\ historyKey = {}
      /\ hvCache = {} /\ ask = Api!NoRequest /\ reply = Api!NoReply /\ trouble = 0
  BY DEF Api!Init
<1>2. TimeOK
  BY <1>1, ApiConstants DEF TimeOK
<1>3. KeysOK
  BY <1>1, <1>2 DEF KeysOK, ChainKeyOK, PriceKeyOK, PricedKeyOK, HistoryKeyOK, HvCacheOK, AtMostOne
<1>4. Asked(ask)
  BY <1>1, NoRequestAsked
<1>5. ReplyOK
  <2>1. PICK r : r = Api!NoReply
    OBVIOUS
  <2>2. r.chain = {} /\ r.priced = {} /\ r.hv = {} /\ r.closes = {} /\ r.contract = {} /\ r.code = 0
    BY <2>1 DEF Api!NoReply
  <2> QED BY <1>1, <2>1, <2>2 DEF ReplyOK, Api!AnswersAreOfNow, Api!AnswersAreRecent, Api!ContractIsNearest,
        Api!FailuresAreNotKept
<1> QED BY <1>3, <1>4, <1>5 DEF ApiInv

LEMMA ApiCardinality == \A S : Api!Cardinality(S) = Cardinality(S)
BY DEF Api!Cardinality, Cardinality

LEMMA ApiImplies == ApiInv => Api!TypeOK /\ Api!AnswersAreOfNow
<1> SUFFICES ASSUME ApiInv PROVE Api!TypeOK
  BY DEF ApiInv, ReplyOK
<1>1. \A key \in {chainKey, priceKey, pricedKey, historyKey} : AtMostOne(key) /\ \A v \in key : v.at <= clock /\ clock < v.until
  BY DEF ApiInv, KeysOK, ChainKeyOK, PriceKeyOK, PricedKeyOK, HistoryKeyOK
<1>2. \A key \in {chainKey, priceKey, pricedKey, historyKey} : Api!Cardinality(key) <= 1
  BY <1>1, AtMostOneCounted, ApiCardinality
<1>3. clock \in 0 .. MaxClock /\ trouble \in 0 .. MaxClock + 1
  <2>1. clock \in Nat /\ trouble \in Nat /\ trouble <= clock + 1 /\ clock <= MaxClock /\ MaxClock \in Nat
    BY TimeTyped, ApiConstants DEF ApiInv, KeysOK
  <2> QED BY <2>1
<1>4. \A h \in hvCache : h.at <= clock /\ h.known = TRUE
  BY DEF ApiInv, KeysOK, HvCacheOK
<1>5. ask.pc \in {"idle", "chain", "price", "wait", "fetch", "hv", "answer", "priced", "history", "download"}
  BY DEF ApiInv, Asked, AskType
<1>6. reply.code \in {0, 200, 202, 422, 500, 503}
  BY DEF ApiInv, ReplyOK
<1> QED BY <1>1, <1>2, <1>3, <1>4, <1>5, <1>6 DEF Api!TypeOK

LEMMA ApiAlways == PathsSpec => []ApiInv
<1>1. PathsInit => ApiInv
  BY ApiInitially DEF PathsInit
<1>2. ApiInv /\ [PathsNext]_allVars => ApiInv'
  <2> SUFFICES ASSUME ApiInv, [PathsNext]_allVars PROVE ApiInv'
    OBVIOUS
  <2>1. UNCHANGED apiVars \/ \E kind \in Api!Endpoints : Api!Serve(kind)
    BY DEF PathsNext, allVars, moreVars
  <2> QED BY <2>1, ApiStep
<1> QED BY <1>1, <1>2, PTL DEF PathsSpec

(* What an answer rests on is no older than its keys live and the request  *)
(* lasts, its contract is the nearest one that has not settled, and no     *)
(* failure is served on when it is over.                                   *)
THEOREM AnswersOfNow == PathsSpec => []AnswersAreOfNow
<1>1. ApiInv => AnswersAreOfNow
  BY ApiImplies DEF AnswersAreOfNow
<1> QED BY <1>1, ApiAlways, PTL
=============================================================================
