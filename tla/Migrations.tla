----------------------------- MODULE Migrations -----------------------------
(***************************************************************************)
(* The schema migrations (scripts/migrate.py), which every start of the    *)
(* container runs and an operator may run beside it.  A script is its rank *)
(* in the order they are applied in: init_schema.sql is 0.                 *)
(***************************************************************************)
EXTENDS Naturals, FiniteSets

CONSTANTS Runners, Scripts, MaxRuns

ConstantsAssumption == Scripts \subseteq Nat /\ 0 \in Scripts /\ MaxRuns \in Nat

VARIABLES
  shipped,   \* the scripts of the directory
  applied,   \* history: how often the statements of each have been committed
  recorded,  \* schema_migrations
  phase,     \* where each runner is
  files,     \* the scripts it found
  left,      \* those it has not come to
  current,   \* the script whose transaction is open: {} or {a script}
  runs       \* bound: how many runs there have been

vars == <<shipped, applied, recorded, phase, files, left, current, runs>>

Ship(s) ==
  /\ shipped' = shipped \cup {s}
  /\ UNCHANGED <<applied, recorded, phase, files, left, current, runs>>

(* It connects, makes sure of the table, reads the rows that are committed *)
(* and lists the scripts: those without a row are left.                    *)
Begin(r) ==
  /\ phase[r] \in {"idle", "done", "failed"} /\ runs < MaxRuns /\ runs' = runs + 1
  /\ phase' = [phase EXCEPT ![r] = "next"]
  /\ files' = [files EXCEPT ![r] = shipped]
  /\ left'  = [left EXCEPT ![r] = shipped \ recorded]
  /\ UNCHANGED <<shipped, applied, recorded, current>>

(* The transaction of the next script: its statements, then its row.       *)
Execute(r) ==
  /\ phase[r] = "next"
  /\ \E s \in left[r] :
       /\ \A x \in left[r] : s <= x
       /\ left'    = [left EXCEPT ![r] = @ \ {s}]
       /\ current' = [current EXCEPT ![r] = {s}]
  /\ phase' = [phase EXCEPT ![r] = "record"]
  /\ UNCHANGED <<shipped, applied, recorded, files, runs>>

\* Mutant of Record: a row that is there already is taken for success.
RecordOnConflict(r) ==
  /\ phase[r] = "record"
  /\ phase' = [phase EXCEPT ![r] = "commit"]
  /\ UNCHANGED <<shipped, applied, recorded, files, left, current, runs>>

(* The insert waits for another open transaction's row of the same script; *)
(* a committed one is an error.                                            *)
Record(r) ==
  /\ phase[r] = "record"
  /\ \A q \in Runners : phase[q] = "commit" => current[q] # current[r]
  /\ current[r] \cap recorded = {}
  /\ phase' = [phase EXCEPT ![r] = "commit"]
  /\ UNCHANGED <<shipped, applied, recorded, files, left, current, runs>>

Commit(r) ==
  /\ phase[r] = "commit"
  /\ applied'  = [s \in Scripts |-> IF s \in current[r] THEN applied[s] + 1 ELSE applied[s]]
  /\ recorded' = recorded \cup current[r]
  /\ current'  = [current EXCEPT ![r] = {}]
  /\ phase'       = [phase EXCEPT ![r] = "next"]
  /\ UNCHANGED <<shipped, files, left, runs>>

(* A statement fails, the row is there, the connection or the process is   *)
(* lost: the transaction is rolled back and the runner ends.               *)
Fail(r) ==
  /\ phase[r] \in {"next", "record", "commit"}
  /\ phase'      = [phase EXCEPT ![r] = "failed"]
  /\ current' = [current EXCEPT ![r] = {}]
  /\ UNCHANGED <<shipped, applied, recorded, files, left, runs>>

\* "All schema migrations are up to date."
Finish(r) ==
  /\ phase[r] = "next" /\ left[r] = {}
  /\ phase' = [phase EXCEPT ![r] = "done"]
  /\ UNCHANGED <<shipped, applied, recorded, files, left, current, runs>>

Init ==
  /\ shipped = {0} /\ recorded = {} /\ runs = 0
  /\ applied = [s \in Scripts |-> 0]
  /\ phase      = [r \in Runners |-> "idle"]
  /\ files   = [r \in Runners |-> {}]
  /\ left    = [r \in Runners |-> {}]
  /\ current = [r \in Runners |-> {}]

Next ==
  \/ \E s \in Scripts : Ship(s)
  \/ \E r \in Runners : Begin(r) \/ Execute(r) \/ Record(r) \/ Commit(r) \/ Fail(r) \/ Finish(r)

Spec == Init /\ [][Next]_vars

-----------------------------------------------------------------------------
TypeOK ==
  /\ shipped \subseteq Scripts /\ recorded \subseteq Scripts
  /\ applied \in [Scripts -> Nat] /\ runs \in Nat
  /\ phase \in [Runners -> {"idle", "next", "record", "commit", "done", "failed"}]
  /\ files \in [Runners -> SUBSET Scripts] /\ left \in [Runners -> SUBSET Scripts]
  /\ current \in [Runners -> SUBSET Scripts]

(* Whatever crashes and however runners overlap, a script has been applied *)
(* once if it has a row and not at all if it has none.                     *)
AppliedIffRecorded == \A s \in Scripts : applied[s] = IF s \in recorded THEN 1 ELSE 0

(* Nothing is applied before init_schema.sql.                              *)
InitFirst == recorded # {} => 0 \in recorded

(* A runner that says so has left nothing of what it found undone.         *)
UpToDate == \A r \in Runners : phase[r] = "done" => files[r] \subseteq recorded

MigrationsAreSound == AppliedIffRecorded /\ InitFirst /\ UpToDate

-----------------------------------------------------------------------------
(* The inductive invariant.                                                *)

(* An open transaction has one script, found by its runner, and none of    *)
(* smaller rank is left to it.                                             *)
OpenTransactions ==
  \A r \in Runners :
    /\ phase[r] \in {"record", "commit"} =>
         \E s \in files[r] : current[r] = {s} /\ s \notin left[r] /\ (s = 0 \/ 0 \in recorded)
    /\ phase[r] \notin {"record", "commit"} => current[r] = {}

(* A row that is inserted but not committed is the only one of its script. *)
RowsAreUnique ==
  \A r \in Runners : phase[r] = "commit" =>
    /\ current[r] \cap recorded = {}
    /\ \A q \in Runners \ {r} : phase[q] = "commit" => current[q] \cap current[r] = {}

(* What a runner found has a row, is left to it, or is in its transaction. *)
NothingSkipped ==
  \A r \in Runners :
    /\ phase[r] \in {"next", "record", "commit"} =>
         0 \in files[r] /\ files[r] \subseteq recorded \cup left[r] \cup current[r]
    /\ left[r] \subseteq files[r]

IInv ==
  /\ ConstantsAssumption
  /\ TypeOK /\ 0 \in shipped
  /\ OpenTransactions /\ RowsAreUnique /\ NothingSkipped
  /\ MigrationsAreSound
=============================================================================
