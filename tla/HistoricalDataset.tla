-------------------------- MODULE HistoricalDataset --------------------------
(***************************************************************************)
(* The data of the studies (research/data): daily exchange archives are    *)
(* downloaded into a cache of one file a day, and panels are built from    *)
(* them.  Three jobs write: `all' downloads the missing days with a pool   *)
(* of threads, then builds the one-expiry panel (run_all); `collect' builds*)
(* its panel straight from the downloader (collect_historical.py); `cache' *)
(* rebuilds the full chain and the signal panel from the files alone       *)
(* (run_from_cache).  A study then loads what they left.                   *)
(*                                                                         *)
(* A file is written in place, so a process that dies leaves part of one.  *)
(* Archives[d] is the set of expiries the archive of day d quotes, `priced'*)
(* if at least four strikes have an implied volatility, `traded' if four of*)
(* those that traded have; a day not in its domain has no archive.         *)
(***************************************************************************)
EXTENDS Integers, FiniteSets, FiniteSetsExt

CONSTANTS
  Dates,        \* the days of the underlying, numbers
  Archives,
  Threads,      \* max_workers
  MaxBuilds, MaxFaults, MaxFailures   \* bounds

ConstantsAssumption ==
  /\ Dates \subseteq Nat /\ DOMAIN Archives \subseteq Dates
  /\ \A d \in DOMAIN Archives : \A c \in Archives[d] :
       c.expiry \in Nat /\ c.priced \in BOOLEAN /\ c.traded \in BOOLEAN
  /\ Threads \in Nat \ {0} /\ {MaxBuilds, MaxFaults, MaxFailures} \subseteq Nat

VARIABLES
  file,       \* by day: absent, partial, whole
  job, pc,    \* what runs, and where it is
  missing,    \* missing_dates of download_bhavcopies_parallel
  todo,       \* days not handed to a thread, or not walked yet
  busy,       \* days being fetched, and whether the file is being written
  panel,      \* rows built so far: day, expiry, whether it is the signal expiry
  chain,      \* rows of the full chain: day, expiry
  failed,     \* failed requests of this job, by day
  error,      \* why the last job was given up: a broken file, nothing to build
  saved,      \* panel, chain and build number of the two files of a study
  study,      \* what the last study loaded
  builds, faults, torn   \* jobs, crashes and failed writes, a rebuild died while saving

vars == <<file, job, pc, missing, todo, busy, panel, chain, failed, error, saved, study,
          builds, faults, torn>>

Nothing == [rows |-> {}, build |-> 0]

-----------------------------------------------------------------------------
(* Which expiries of a day go into which panel.                            *)

Dte(d, c) == c.expiry - d

Nearest(d, pool) ==
  {[day |-> d, expiry |-> c.expiry, signal |-> TRUE] :
     c \in {x \in pool : x.priced /\ \A o \in pool : x.expiry <= o.expiry}}

(* The one-expiry panels take the nearest expiry at least seven days away; *)
(* the collector falls back to the nearest of all.                         *)
Far(d) == {c \in Archives[d] : Dte(d, c) >= 7}
PanelRows(d)   == Nearest(d, Far(d))
CollectRows(d) == Nearest(d, IF Far(d) = {} THEN Archives[d] ELSE Far(d))

ChainRows(d) ==
  {[day |-> d, expiry |-> c.expiry] : c \in {x \in Archives[d] : Dte(d, x) \in 0 .. 60}}

(* The signal panel prices every expiry two to 45 days away, and flags the *)
(* nearest at least fourteen days away, whether or not it could be priced. *)
SignalRows(d) ==
  LET range    == {c \in Archives[d] : Dte(d, c) \in 2 .. 45}
      eligible == {c.expiry : c \in {x \in range : Dte(d, x) >= 14}}
  IN  {[day |-> d, expiry |-> c.expiry,
        signal |-> eligible # {} /\ c.expiry = Min(eligible)] : c \in {x \in range : x.traded}}

-----------------------------------------------------------------------------
Start(j) ==
  /\ pc = "idle" /\ builds < MaxBuilds
  /\ job' = j /\ builds' = builds + 1 /\ error' = "none"
  /\ panel' = {} /\ chain' = {} /\ busy' = {} /\ failed' = [d \in Dates |-> 0]
  /\ IF j = "all"
     THEN /\ pc' = "download"
          /\ missing' = {d \in Dates : file[d] = "absent"} /\ todo' = missing'
     ELSE pc' = "walk" /\ missing' = {} /\ todo' = Dates
  /\ UNCHANGED <<file, saved, study, faults, torn>>

(* A thread takes the next missing day.                                    *)
Take(d) ==
  /\ pc = "download" /\ d = Min(todo) /\ Cardinality(busy) < Threads
  /\ todo' = todo \ {d}
  /\ busy' = busy \cup {[day |-> d, writing |-> FALSE]}
  /\ UNCHANGED <<file, job, pc, missing, panel, chain, failed, error, saved, study,
                 builds, faults, torn>>

(* The walk of the panel: a whole file is read, otherwise the day is asked *)
(* for again; from the cache alone a missing day is skipped and a broken   *)
(* file ends the job.                                                      *)
Rows(d) == CASE job = "all"     -> PanelRows(d)
             [] job = "collect" -> CollectRows(d)
             [] job = "cache"   -> SignalRows(d)

Read(d) ==
  /\ panel' = panel \cup Rows(d)
  /\ chain' = chain \cup (IF job = "cache" THEN ChainRows(d) ELSE {})

\* Mutant of Walk: half a file is as good as no archive for that day.
WalkPastBroken(d) ==
  /\ pc = "walk" /\ busy = {} /\ d = Min(todo)
  /\ todo' = todo \ {d}
  /\ IF file[d] = "whole" THEN Read(d) ELSE UNCHANGED <<panel, chain>>
  /\ busy' = IF file[d] = "absent" /\ job # "cache" THEN {[day |-> d, writing |-> FALSE]} ELSE {}
  /\ UNCHANGED <<file, job, pc, missing, failed, error, saved, study, builds, faults, torn>>

Walk(d) ==
  /\ pc = "walk" /\ busy = {} /\ d = Min(todo)
  /\ IF file[d] = "partial" /\ job = "cache"
     THEN pc' = "idle" /\ error' = "broken file" /\ UNCHANGED <<todo, busy, panel, chain>>
     ELSE /\ todo' = todo \ {d}
          /\ CASE file[d] = "whole" -> Read(d) /\ UNCHANGED busy
               [] file[d] # "whole" /\ job = "cache" -> UNCHANGED <<busy, panel, chain>>
               [] file[d] # "whole" /\ job # "cache" ->
                    /\ busy' = {[day |-> d, writing |-> FALSE]}
                    /\ UNCHANGED <<panel, chain>>
          /\ UNCHANGED <<pc, error>>
  /\ UNCHANGED <<file, job, missing, failed, saved, study, builds, faults, torn>>

(* The answer of the archive server: nothing for a day without one, or a   *)
(* failure, or the archive, whose file is opened for writing.              *)
Refused(b) ==
  /\ b \in busy /\ ~b.writing
  /\ \/ b.day \notin DOMAIN Archives /\ UNCHANGED failed
     \/ /\ failed[b.day] < MaxFailures
        /\ failed' = [failed EXCEPT ![b.day] = @ + 1]
  /\ busy' = busy \ {b}
  /\ UNCHANGED <<file, job, pc, missing, todo, panel, chain, error, saved, study,
                 builds, faults, torn>>

Received(b) ==
  /\ b \in busy /\ ~b.writing /\ b.day \in DOMAIN Archives
  /\ file' = [file EXCEPT ![b.day] = "partial"]
  /\ busy' = (busy \ {b}) \cup {[b EXCEPT !.writing = TRUE]}
  /\ UNCHANGED <<job, pc, missing, todo, panel, chain, failed, error, saved, study,
                 builds, faults, torn>>

Written(b) ==
  /\ b \in busy /\ b.writing
  /\ file' = [file EXCEPT ![b.day] = "whole"]
  /\ busy' = busy \ {b}
  /\ IF pc = "walk" THEN Read(b.day) ELSE UNCHANGED <<panel, chain>>
  /\ UNCHANGED <<job, pc, missing, todo, failed, error, saved, study, builds, faults, torn>>

(* The disk refuses the rest of the file: the fetch reports a failure and  *)
(* leaves what was written.                                                *)
WriteFailed(b) ==
  /\ b \in busy /\ b.writing /\ faults < MaxFaults /\ failed[b.day] < MaxFailures
  /\ faults' = faults + 1 /\ failed' = [failed EXCEPT ![b.day] = @ + 1]
  /\ busy' = busy \ {b}
  /\ UNCHANGED <<file, job, pc, missing, todo, panel, chain, error, saved, study, builds, torn>>

Downloaded ==
  /\ pc = "download" /\ todo = {} /\ busy = {}
  /\ pc' = "walk" /\ todo' = Dates
  /\ UNCHANGED <<file, job, missing, busy, panel, chain, failed, error, saved, study,
                 builds, faults, torn>>

(* Only the job from the cache writes what a study of today loads, the     *)
(* chain first; the others have their own files.  An empty panel ends it   *)
(* with an exception.                                                      *)
SaveChain ==
  /\ pc = "walk" /\ todo = {} /\ busy = {}
  /\ IF panel = {} /\ job # "collect"
     THEN pc' = "idle" /\ error' = "nothing" /\ UNCHANGED saved
     ELSE /\ pc' = "save" /\ UNCHANGED error
          /\ saved' = IF job = "cache"
                      THEN [saved EXCEPT !.chain = [rows |-> chain, build |-> builds]] ELSE saved
  /\ UNCHANGED <<file, job, missing, todo, busy, panel, chain, failed, study,
                 builds, faults, torn>>

\* Mutant of SavePanel: the jobs share the name of their panel's file.
SavePanelOfAnyJob ==
  /\ pc = "save" /\ pc' = "idle"
  /\ saved' = [saved EXCEPT !.panel = [rows |-> panel, build |-> builds]]
  /\ torn' = (torn /\ job # "cache")
  /\ UNCHANGED <<file, job, missing, todo, busy, panel, chain, failed, error, study,
                 builds, faults>>

SavePanel ==
  /\ pc = "save" /\ pc' = "idle"
  /\ saved' = IF job = "cache"
              THEN [saved EXCEPT !.panel = [rows |-> panel, build |-> builds]] ELSE saved
  /\ torn' = (torn /\ job # "cache")
  /\ UNCHANGED <<file, job, missing, todo, busy, panel, chain, failed, error, study,
                 builds, faults>>

Crash ==
  /\ pc # "idle" /\ faults < MaxFaults
  /\ pc' = "idle" /\ faults' = faults + 1
  /\ todo' = {} /\ busy' = {}
  /\ torn' = (torn \/ (pc = "save" /\ job = "cache"))
  /\ UNCHANGED <<file, job, missing, panel, chain, failed, error, saved, study, builds>>

(* load_study_data: both files must be there; a study is not started while *)
(* a job runs.  It loads the daily OHLCV too, which run_all downloads and   *)
(* writes first; it is neither of these two files.                          *)
LoadStudy ==
  /\ pc = "idle" /\ saved.panel.build # 0 /\ saved.chain.build # 0
  /\ study' = saved
  /\ UNCHANGED <<file, job, pc, missing, todo, busy, panel, chain, failed, error, saved,
                 builds, faults, torn>>

Init ==
  /\ file = [d \in Dates |-> "absent"] /\ job = "none" /\ pc = "idle"
  /\ missing = {} /\ todo = {} /\ busy = {} /\ panel = {} /\ chain = {}
  /\ failed = [d \in Dates |-> 0] /\ error = "none"
  /\ saved = [panel |-> Nothing, chain |-> Nothing] /\ study = saved
  /\ builds = 0 /\ faults = 0 /\ torn = FALSE

Next ==
  \/ \E j \in {"all", "collect", "cache"} : Start(j)
  \/ \E d \in todo : Take(d) \/ Walk(d)
  \/ \E b \in busy : Refused(b) \/ Received(b) \/ Written(b) \/ WriteFailed(b)
  \/ Downloaded \/ SaveChain \/ SavePanel \/ Crash \/ LoadStudy

Spec == Init /\ [][Next]_vars

-----------------------------------------------------------------------------
TypeOK ==
  /\ file \in [Dates -> {"absent", "partial", "whole"}]
  /\ job \in {"none", "all", "collect", "cache"} /\ pc \in {"idle", "download", "walk", "save"}
  /\ missing \subseteq Dates /\ todo \subseteq Dates
  /\ busy \subseteq [day : Dates, writing : BOOLEAN] /\ Cardinality(busy) <= Threads
  /\ panel \subseteq [day : Dates, expiry : Nat, signal : BOOLEAN]
  /\ chain \subseteq [day : Dates, expiry : Nat]
  /\ failed \in [Dates -> 0 .. MaxFailures] /\ error \in {"none", "broken file", "nothing"}
  /\ builds \in 0 .. MaxBuilds /\ faults \in 0 .. MaxFaults /\ torn \in BOOLEAN

(* A day with a usable archive is missing from a finished panel only if the*)
(* server failed for it: twice when the job downloads and the day was not  *)
(* cached, since the walk asks again for what the threads did not get, once*)
(* otherwise.  Neither a broken file nor a lost thread opens a gap.        *)
GapsNeedFailures ==
  pc = "save" /\ job # "cache" => \A d \in DOMAIN Archives :
    ~(Rows(d) \subseteq panel)
      => failed[d] >= IF d \in missing THEN 2 ELSE 1

(* The rebuild from the cache never takes half a file for data, and it is  *)
(* stopped by one only after a crash or a failed write: a day the server   *)
(* refused, or a job that ran before, does not block it.                   *)
RebuildStoppedByFault ==
  error = "broken file" => faults > 0 /\ \E d \in Dates : file[d] = "partial"

(* What is missing, and what stops a job, has a failure behind it.         *)
FaultsExplainGaps == GapsNeedFailures /\ RebuildStoppedByFault

(* The two files a study loads come from one build unless a rebuild died   *)
(* between writing them; and then every signal is on a contract the chain  *)
(* lists that day, at least fourteen days before its expiry.               *)
StudyIsOneBuild ==
  [][study' # study =>
       \/ torn
       \/ /\ study'.panel.build = study'.chain.build
          /\ \A r \in study'.panel.rows :
               /\ [day |-> r.day, expiry |-> r.expiry] \in study'.chain.rows
               /\ r.signal => r.expiry - r.day >= 14]_study
=============================================================================
