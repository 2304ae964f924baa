--------------------------- MODULE SymbolCatalog ---------------------------
(***************************************************************************)
(* Is a symbol one of the Indian market?  The catalogue, which a background*)
(* thread loads at startup (domains/analytics/api/instruments_loader.py),  *)
(* and the lookups that ask it, then Yahoo, and cache the verdict for a day*)
(* (shared/utils/symbol_validator.py).  Lookups run on threads.            *)
(*                                                                         *)
(* Yahoo may be unreachable, and may know nothing of a listed symbol.      *)
(***************************************************************************)
EXTENDS Naturals, FiniteSets, Sequences, SequencesExt

CONSTANTS
  Names,         \* symbols that are asked for, none of them in the local map
  Live,          \* those in the exchange's list
  Local,         \* those in _FALLBACK_STOCKS
  Plain,         \* alphanumeric or with a suffix of an exchange
  Lookups,       \* threads
  NoThread,
  MaxEntries, VerdictTtl,   \* of the cache, in entries and in ticks
  Horizon        \* bound on time

ConstantsAssumption ==
  /\ Live \subseteq Names /\ Local \subseteq Live /\ Plain \subseteq Names
  /\ NoThread \notin Lookups \cup {"loader"}
  /\ MaxEntries \in Nat \ {0} /\ VerdictTtl \in Nat \ {0} /\ Horizon \in Nat

VARIABLES
  loading,    \* the thread that holds the catalogue's lock
  loaded,     \* _loaded
  known,      \* _symbol_set
  entries,    \* the cache in the order of insertion: [name, valid, stamp]
  thread,     \* each lookup: [pc, name, stamp, valid]
  emptied,    \* history: names Yahoo wrongly had nothing of
  unseen,     \* history: names looked up in the catalogue between _loaded and _symbol_set
  ticks

vars == <<loading, loaded, known, entries, thread, emptied, unseen, ticks>>

Resting == [pc |-> "idle", name |-> "none", stamp |-> 0, valid |-> FALSE]
Cached  == {e.name : e \in Range(entries)}
At(t, stage) == thread' = [thread EXCEPT ![t].pc = stage]
Answered(t)  == thread' = [thread EXCEPT ![t] = Resting]

-----------------------------------------------------------------------------
(* load: whoever gets the lock first downloads the list; a failure, also   *)
(* half way, or a page without rows, appends the local list.  The flag is  *)
(* set before the set.                                                     *)
Lock(who) ==
  /\ ~loaded /\ loading = NoThread
  /\ loading' = who
  /\ UNCHANGED <<loaded, known, entries, thread, emptied, unseen, ticks>>

LoadInBackground == Lock("loader")
LoadByLookup(t)  == thread[t].pc = "catalogue" /\ Lock(t)

SetLoaded ==
  /\ loading # NoThread /\ ~loaded
  /\ loaded' = TRUE
  /\ UNCHANGED <<loading, known, entries, thread, emptied, unseen, ticks>>

SetSymbols ==
  /\ loading # NoThread /\ loaded
  /\ known' \in {Live} \cup {part \cup Local : part \in SUBSET Live}
  /\ loading' = NoThread
  /\ UNCHANGED <<loaded, entries, thread, emptied, unseen, ticks>>

-----------------------------------------------------------------------------
(* validate and get_clean_symbol through _ttl_cached: the stamp is taken   *)
(* before anything else.                                                   *)
Begin(t, n) ==
  /\ thread[t].pc = "idle"
  /\ thread' = [thread EXCEPT ![t] = [pc |-> "read", name |-> n, stamp |-> ticks, valid |-> FALSE]]
  /\ UNCHANGED <<loading, loaded, known, entries, emptied, unseen, ticks>>

Fresh(t) == {e \in Range(entries) :
               e.name = thread[t].name /\ thread[t].stamp - e.stamp < VerdictTtl}

ReadCache(t) ==
  /\ thread[t].pc = "read"
  /\ IF Fresh(t) # {} THEN Answered(t) ELSE At(t, "catalogue")
  /\ UNCHANGED <<loading, loaded, known, entries, emptied, unseen, ticks>>

(* is_valid_symbol waits for the load unless the flag is set.              *)
AskCatalogue(t) ==
  /\ thread[t].pc = "catalogue" /\ loaded /\ loading # t
  /\ IF thread[t].name \in known
     THEN thread' = [thread EXCEPT ![t].pc = "keep", ![t].valid = TRUE]
     ELSE At(t, "yahoo")
  /\ unseen' = IF loading = NoThread THEN unseen ELSE unseen \cup ({thread[t].name} \cap Live)
  /\ UNCHANGED <<loading, loaded, known, entries, emptied, ticks>>

\* Mutant of AskYahoo: no answer is cached like an answer.
AskYahooAlwaysKeep(t) ==
  /\ thread[t].pc = "yahoo"
  /\ \E v \in IF thread[t].name \in Plain THEN {FALSE, thread[t].name \in Live} ELSE {FALSE} :
       thread' = [thread EXCEPT ![t].pc = "keep", ![t].valid = v]
  /\ UNCHANGED <<loading, loaded, known, entries, emptied, unseen, ticks>>

(* Yahoo is asked about a plain name only: _yf_has_history, of either      *)
(* exchange; _NetworkUnavailable is answered with the fallback, and not    *)
(* kept.  Any other name (M&M, BAJAJ-AUTO) is rejected, which is kept.     *)
AskYahoo(t) ==
  /\ thread[t].pc = "yahoo"
  /\ \/ /\ thread[t].name \in Plain
        /\ thread' = [thread EXCEPT ![t].pc = "keep", ![t].valid = thread[t].name \in Live]
        /\ UNCHANGED emptied
     \/ /\ thread[t].name \in Plain
        /\ At(t, "keep")
        /\ emptied' = emptied \cup ({thread[t].name} \cap Live)
     \/ thread[t].name \in Plain /\ Answered(t) /\ UNCHANGED emptied
     \/ thread[t].name \notin Plain /\ At(t, "keep") /\ UNCHANGED emptied
  /\ UNCHANGED <<loading, loaded, known, entries, unseen, ticks>>

\* Mutant of Insert: nothing makes room.
InsertAlways(s, e) ==
  IF \E i \in DOMAIN s : s[i].name = e.name
  THEN [i \in DOMAIN s |-> IF s[i].name = e.name THEN e ELSE s[i]] ELSE Append(s, e)

(* The oldest entry makes room, also for a name that is in the cache; such *)
(* a name keeps its place.                                                 *)
Insert(s, e) ==
  LET room == IF Len(s) >= MaxEntries THEN Tail(s) ELSE s
      same == {i \in DOMAIN room : room[i].name = e.name}
  IN  IF same = {} THEN Append(room, e) ELSE [i \in DOMAIN room |-> IF i \in same THEN e ELSE room[i]]

Keep(t) ==
  /\ thread[t].pc = "keep"
  /\ entries' = Insert(entries, [name |-> thread[t].name, valid |-> thread[t].valid,
                                 stamp |-> thread[t].stamp])
  /\ Answered(t)
  /\ UNCHANGED <<loading, loaded, known, emptied, unseen, ticks>>

Tick ==
  /\ ticks < Horizon /\ ticks' = ticks + 1
  /\ UNCHANGED <<loading, loaded, known, entries, thread, emptied, unseen>>

Init ==
  /\ loading = NoThread /\ loaded = FALSE /\ known = {} /\ entries = <<>>
  /\ thread = [t \in Lookups |-> Resting]
  /\ emptied = {} /\ unseen = {} /\ ticks = 0

Lookup(t) ==
  \/ \E n \in Names : Begin(t, n)
  \/ ReadCache(t) \/ LoadByLookup(t) \/ AskCatalogue(t) \/ AskYahoo(t) \/ Keep(t)

Next == LoadInBackground \/ SetLoaded \/ SetSymbols \/ Tick \/ (\E t \in Lookups : Lookup(t))

Spec == Init /\ [][Next]_vars

-----------------------------------------------------------------------------
TypeOK ==
  /\ loading \in Lookups \cup {"loader", NoThread} /\ loaded \in BOOLEAN /\ known \subseteq Live
  /\ \A e \in Range(entries) : e.name \in Names /\ e.valid \in BOOLEAN /\ e.stamp \in 0 .. ticks
  /\ \A t \in Lookups :
       /\ thread[t].pc \in {"idle", "read", "catalogue", "yahoo", "keep"}
       /\ thread[t].valid \in BOOLEAN /\ thread[t].stamp \in 0 .. ticks
  /\ emptied \subseteq Live /\ unseen \subseteq Live /\ ticks \in 0 .. Horizon

(* A listed symbol is held for invalid only if the catalogue did not have  *)
(* it, since the download failed or the lookup fell between the flag and   *)
(* the set, and Yahoo, if it is asked about such a name at all, answered   *)
(* and had nothing of it.  That Yahoo cannot be reached is not enough (the *)
(* docstring of _ttl_cached).                                              *)
PinnedInvalidNeedsBoth ==
  \A e \in Range(entries) :
    e.name \in Live /\ ~e.valid =>
      /\ e.name \in unseen \/ e.name \notin known
      /\ e.name \in emptied \/ e.name \notin Plain

(* However many threads store at once, the cache keeps to its size, and has*)
(* one verdict of a symbol.                                                *)
CacheIsBounded == Len(entries) <= MaxEntries /\ Cardinality(Cached) = Len(entries)

(* What the cache says can be relied on.                                   *)
VerdictsAreSound == PinnedInvalidNeedsBoth /\ CacheIsBounded
=============================================================================
